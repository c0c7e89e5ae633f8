------------------------------ MODULE Options ------------------------------
(***************************************************************************)
(* The options of the top-level server and of the v2 server               *)
(* (src/server/v2/opts.go: the Option functions and applyOptions of both,  *)
(* and newServer, which applies the top-level options and builds the      *)
(* versioned servers from them), checked against the configuration       *)
(* surface of the spec.                                                    *)
(*                                                                         *)
(* An Option is a record [k |-> setting, v |-> value].  Durations are      *)
(* whole seconds; a channel, TLS config or decoder is "nil"/"std" or a     *)
(* value of the application.                                               *)
(***************************************************************************)
EXTENDS Integers, Sequences, SequencesExt

CONSTANT OptionSeqs  \* the option lists an application may pass

\* applyOptions: the defaults of the top-level server ...
TopDefaults == [timeout |-> 30, keepalive |-> 3, decoder |-> "std",
                tls |-> "nil", ch |-> "nil", v1 |-> TRUE, v2 |-> TRUE,
                logging |-> TRUE]

\* ... and of the v2 server (logging is left at false).
V2Defaults == [timeout |-> 30, keepalive |-> 3, decoder |-> "std",
               tls |-> "nil", ch |-> "nil", logging |-> FALSE]

\* Mutant: Keepalive and Timeout take any duration.
SetOptionNoCheck(o, opt) ==
    [ok |-> TRUE, o |-> [o EXCEPT ![opt.k] = opt.v]]

\* Mutant: Keepalive and Timeout also refuse a zero duration.
SetOptionZero(o, opt) ==
    IF opt.k \in {"timeout", "keepalive"} /\ opt.v <= 0
    THEN [ok |-> FALSE, o |-> o]
    ELSE [ok |-> TRUE, o |-> [o EXCEPT ![opt.k] = opt.v]]

(* Calling one Option on the options: Keepalive and Timeout refuse a       *)
(* negative duration; every other Option just sets its field.             *)
SetOption(o, opt) ==
    IF opt.k \in {"timeout", "keepalive"} /\ opt.v < 0
    THEN [ok |-> FALSE, o |-> o]
    ELSE [ok |-> TRUE, o |-> [o EXCEPT ![opt.k] = opt.v]]

(* applyOptions: call the options in order, stop at the first error.       *)
ApplyOptions(defaults, opts) ==
    FoldLeft(LAMBDA r, opt : IF r.ok THEN SetOption(r.o, opt) ELSE r,
             [ok |-> TRUE, o |-> defaults], opts)

Opt(k, v) == [k |-> k, v |-> v]

\* The channel the versioned servers are given: cfg.ch, which newServer has
\* set to its own channel when it owns one before it calls the closures.
ServerChannel(cfg, own) == IF own THEN "own" ELSE cfg.ch

(* The options the v2 closure of newServer passes to v2.NewWithListener.    *)
V2Forwarded(cfg, own) ==
    <<Opt("keepalive", cfg.keepalive), Opt("timeout", cfg.timeout),
      Opt("ch", ServerChannel(cfg, own)), Opt("tls", cfg.tls),
      Opt("decoder", cfg.decoder), Opt("logging", cfg.logging)>>

(* newServer: apply the options; the enabled versions in order; no version *)
(* is ErrNoVersionEnabled; one version is that server alone, built on the  *)
(* listener (the internal NewWithListener starts its accept loop); two get *)
(* a mux and, when cfg.ch is nil, a channel the top-level server owns, and *)
(* the listener is only stored (s.wg.Add(1); go s.run() is commented out). *)
(* The v2 server is built from the options its closure passes to it.      *)
NewServer(opts) ==
    LET r == ApplyOptions(TopDefaults, opts)
        cfg == r.o
        versions == SelectSeq(<<"v1", "v2">>,
                              LAMBDA v : IF v = "v1" THEN cfg.v1 ELSE cfg.v2)
        own == Len(versions) = 2 /\ cfg.ch = "nil"
        v2 == ApplyOptions(V2Defaults, V2Forwarded(cfg, own))
    IN  CASE ~r.ok              -> [res |-> "error"]
          [] versions = <<>>    -> [res |-> "noversion"]
          [] Len(versions) = 1  -> [res |-> versions[1], ownCH |-> FALSE,
                                    v2 |-> v2.o, accepts |-> TRUE]
          [] OTHER              -> [res |-> "mux", ownCH |-> own, v2 |-> v2.o,
                                    accepts |-> FALSE]

-----------------------------------------------------------------------------
(* One call of NewServer, or of ListenAndServe, on an option list; for     *)
(* ListenAndServe the bind of the address may fail.                        *)
VARIABLES opts, entry, bindOk, listener, result

vars == <<opts, entry, bindOk, listener, result>>

Init ==
    /\ opts \in OptionSeqs
    /\ entry \in {"NewServer", "ListenAndServe"} /\ bindOk \in BOOLEAN
    /\ listener = [state |-> "none"]
    /\ result = [res |-> "none"]

Call ==
    /\ entry = "NewServer" /\ result = [res |-> "none"]
    /\ result' = NewServer(opts)
    /\ UNCHANGED <<opts, entry, bindOk, listener>>

\* Mutant: ListenAndServeWith keeps the listener when NewWithListener fails.
ListenAndServeNoClose ==
    /\ entry = "ListenAndServe" /\ result = [res |-> "none"]
    /\ LET o == ApplyOptions(TopDefaults, opts)
       IN  \/ /\ ~o.ok /\ result' = [res |-> "error"]
              /\ UNCHANGED listener
           \/ /\ o.ok /\ ~bindOk /\ result' = [res |-> "error"]
              /\ UNCHANGED listener
           \/ /\ o.ok /\ bindOk /\ result' = NewServer(opts)
              /\ listener' = [state |-> "open", tls |-> o.o.tls,
                              accepted |-> NewServer(opts).res \in {"v1", "v2"}]
    /\ UNCHANGED <<opts, entry, bindOk>>

(* ListenAndServe: apply the options (an error returns before binding);    *)
(* bind with tls.Listen when a TLS config is set, else net.Listen; then    *)
(* ListenAndServeWith: a bind error is returned, and when NewWithListener  *)
(* fails the listener is closed again.                                     *)
ListenAndServe ==
    /\ entry = "ListenAndServe" /\ result = [res |-> "none"]
    /\ LET o == ApplyOptions(TopDefaults, opts)
           s == NewServer(opts)
       IN  \/ /\ ~o.ok /\ result' = [res |-> "error"]
              /\ UNCHANGED listener
           \/ /\ o.ok /\ ~bindOk /\ result' = [res |-> "error"]
              /\ UNCHANGED listener
           \/ /\ o.ok /\ bindOk /\ result' = s
              /\ listener' = IF s.res \in {"error", "noversion"}
                              THEN [state |-> "closed", tls |-> o.o.tls,
                                    accepted |-> FALSE]
                              ELSE [state |-> "open", tls |-> o.o.tls,
                                    accepted |-> s.accepts]
    /\ UNCHANGED <<opts, entry, bindOk>>

Next == Call \/ ListenAndServe

Spec == Init /\ [][Next]_vars

-----------------------------------------------------------------------------
(* The spec's configuration surface: the last value given for a setting,   *)
(* or its default.                                                         *)
Setting(k, default) ==
    LET given == SelectSeq(opts, LAMBDA o : o.k = k)
    IN  IF given = <<>> THEN default ELSE Last(given).v

TypeOK ==
    /\ opts \in OptionSeqs
    /\ listener.state \in {"none", "open", "closed"}
    /\ result.res \in {"none", "error", "noversion", "v1", "v2", "mux"}
    /\ result.res \in {"v2", "mux"} =>
         {result.v2.timeout, result.v2.keepalive} \subseteq Nat

(* newServer does what the configuration surface says: a negative timeout  *)
(* or keepalive is refused, no enabled version is NoVersionEnabled, and    *)
(* the v2 server runs with the keepalive, timeout, TLS, decoder and        *)
(* logging the application asked for (or their defaults), through two     *)
(* layers of applyOptions with different defaults (for ListenAndServe,     *)
(* once the address is bound).                                             *)
NewServerAsSpecified ==
    result.res # "none" /\ (entry = "NewServer" \/ bindOk) =>
      LET bad == \E i \in 1..Len(opts) :
                   opts[i].k \in {"timeout", "keepalive"} /\ opts[i].v < 0
          v1 == Setting("v1", TRUE)
          v2 == Setting("v2", TRUE)
      IN  /\ bad <=> result.res = "error"
          /\ ~bad => (result.res = "noversion" <=> ~v1 /\ ~v2)
          /\ result.res \in {"v2", "mux"} =>
               /\ result.v2.keepalive = Setting("keepalive", 3)
               /\ result.v2.timeout = Setting("timeout", 30)
               /\ result.v2.tls = Setting("tls", "nil")
               /\ result.v2.decoder = Setting("decoder", "std")
               /\ result.v2.logging = Setting("logging", TRUE)

(* ListenAndServe leaves no listener behind: the address is bound only     *)
(* when the options are valid, and the listener stays open exactly when    *)
(* NewWithListener returned a server that holds it (and closes it on       *)
(* Close), with TLS exactly when the application gave a TLS config.        *)
ListenerHeldByServer ==
    /\ listener.state # "none" =>
         /\ entry = "ListenAndServe" /\ bindOk
         /\ (listener.state = "open") <=> result.res \in {"v1", "v2", "mux"}
         /\ listener.tls = Setting("tls", "nil")
    /\ (entry = "ListenAndServe" /\ result.res # "none" /\ listener.state = "none")
         => result.res = "error"

(* The doc comment of ListenAndServe: it "handles batch requests from     *)
(* accepted lumberjack clients".  A listener ListenAndServe leaves open is *)
(* one some server accepts connections on.                                 *)
ListenerAccepted ==
    listener.state = "open" => listener.accepted

=============================================================================
