---------------------------- MODULE MCDelegation ----------------------------
(* Small instances of Delegation for TLC: the features each run allows.    *)
EXTENDS Delegation
=============================================================================
