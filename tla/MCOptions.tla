----------------------------- MODULE MCOptions -----------------------------
EXTENDS Options

\* One of each Option, with a negative, a zero and a positive duration.
MCOptionSet ==
    {Opt(k, d) : k \in {"timeout", "keepalive"}, d \in {-1, 0, 5}}
    \cup {Opt("ch", "app"), Opt("tls", "cfg"), Opt("decoder", "custom"),
          Opt("logging", FALSE)}
    \cup {Opt(k, b) : k \in {"v1", "v2"}, b \in BOOLEAN}

\* Every option list of up to three options.
MCOptionSeqs == UNION {[1..n -> MCOptionSet] : n \in 0..3}

=============================================================================
