------------------------- MODULE DelegationContract -------------------------
(***************************************************************************)
(* What delegation promises whoever uses it, with no thread, row, history  *)
(* or process in sight: a task is opened on a slot that no other open task *)
(* has, may be parked when its dispatch fails and opened again from there, *)
(* is closed once and for good, and is reported when it is not open.       *)
(* Module Delegation implements this (its property Contract) with one slot *)
(* and within the features of the run that checks it; SettledFinal shows   *)
(* how it fails with two.                                                  *)
(***************************************************************************)
CONSTANTS Tasks, Slots

VARIABLES
    phase,    \* where in its life each task is
    home,     \* the slot whose session serves it
    reported  \* tasks whose end is in the notification inbox

cvars == <<phase, home, reported>>

NoSlot == 0

Phases == {"idle", "open", "parked", "closed"}

ContractTypeOK ==
    /\ phase \in [Tasks -> Phases]
    /\ home \in [Tasks -> Slots \cup {NoSlot}]
    /\ reported \subseteq Tasks

Free(s) == \A t \in Tasks : phase[t] = "open" => home[t] # s

ContractInit ==
    /\ phase = [t \in Tasks |-> "idle"]
    /\ home = [t \in Tasks |-> NoSlot]
    /\ reported = {}

Open(t, s) ==
    /\ phase[t] = "idle" \/ (phase[t] = "parked" /\ home[t] = s)
    /\ Free(s)
    /\ phase' = [phase EXCEPT ![t] = "open"]
    /\ home' = [home EXCEPT ![t] = s]
    /\ UNCHANGED reported

(* A dispatch that failed; one that never opened is parked on its slot. *)
Park(t, s) ==
    /\ phase[t] = "idle" \/ (phase[t] = "open" /\ home[t] = s)
    /\ phase' = [phase EXCEPT ![t] = "parked"]
    /\ home' = [home EXCEPT ![t] = s]
    /\ UNCHANGED reported

(* The end of a task, reported at once or later, or not at all. *)
Close(t) ==
    /\ phase[t] \in {"open", "parked"}
    /\ phase' = [phase EXCEPT ![t] = "closed"]
    /\ reported' \in {reported, reported \cup {t}}
    /\ UNCHANGED home

Report(t) ==
    /\ phase[t] \in {"parked", "closed"}
    /\ reported' = reported \cup {t}
    /\ UNCHANGED <<phase, home>>

ContractNext ==
    \E t \in Tasks :
        \/ \E s \in Slots : Open(t, s) \/ Park(t, s)
        \/ Close(t)
        \/ Report(t)

ContractSpec == ContractInit /\ [][ContractNext]_cvars

-----------------------------------------------------------------------------
(* One open task per slot (the collision guard of delegate_task). *)
OneOpenPerSlot ==
    \A t, u \in Tasks :
        phase[t] = "open" /\ phase[u] = "open" /\ home[t] = home[u] => t = u

(* A closed task is never opened or parked again. *)
ClosedStays == [][\A t \in Tasks : phase[t] = "closed" => phase'[t] = "closed"]_cvars

=============================================================================
