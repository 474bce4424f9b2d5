----------------------------- MODULE MCTabSync -----------------------------
EXTENDS TabSync

MCModel == [s \in Sessions |-> IF s \in {"m"} THEN "claude" ELSE "codex"]
MCLimits == [total |-> 5, codex |-> 1, spark |-> 1]
=============================================================================
