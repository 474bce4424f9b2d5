---------------------------- MODULE MCClaudePool ----------------------------
(* Instances of the pool of claude subprocesses for TLC. *)
EXTENDS ClaudePool

CONSTANTS s1, s2

MCSessions == {s1, s2}

MCCases == {{"dies", "hangs", "spawnFails", "auth", "reap", "killSession", "cancel", "recycle"},
            {"dies", "restart", "recycle", "compact"},
            {"overlap", "dies", "cancel", "restart", "recycle", "compact"},
            {"inject", "dies", "cancel"}}

=============================================================================
