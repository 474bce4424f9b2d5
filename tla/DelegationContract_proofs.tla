--------------------- MODULE DelegationContract_proofs ---------------------
(* What the contract of delegation guarantees, for any tasks and slots. *)
EXTENDS DelegationContract, TLAPS

-----------------------------------------------------------------------------
LEMMA TypeInit == ContractInit => ContractTypeOK
BY DEF ContractInit, ContractTypeOK, Phases

LEMMA TypeStep == ContractTypeOK /\ [ContractNext]_cvars => ContractTypeOK'
<1> SUFFICES ASSUME ContractTypeOK, [ContractNext]_cvars PROVE ContractTypeOK'
    OBVIOUS
<1>1. CASE UNCHANGED cvars
    BY <1>1 DEF ContractTypeOK, cvars
<1>2. ASSUME NEW t \in Tasks, NEW s \in Slots, Open(t, s) PROVE ContractTypeOK'
    BY <1>2 DEF Open, ContractTypeOK, Phases
<1>3. ASSUME NEW t \in Tasks, NEW s \in Slots, Park(t, s) PROVE ContractTypeOK'
    BY <1>3 DEF Park, ContractTypeOK, Phases
<1>4. ASSUME NEW t \in Tasks, Close(t) PROVE ContractTypeOK'
    BY <1>4 DEF Close, ContractTypeOK, Phases
<1>5. ASSUME NEW t \in Tasks, Report(t) PROVE ContractTypeOK'
    BY <1>5 DEF Report, ContractTypeOK, Phases
<1> QED
    BY <1>1, <1>2, <1>3, <1>4, <1>5 DEF ContractNext

(* The phases and homes of all tasks keep their types. *)
THEOREM ContractTypeCorrect == ContractSpec => []ContractTypeOK
<1> QED
    BY TypeInit, TypeStep, PTL DEF ContractSpec

-----------------------------------------------------------------------------
LEMMA OneOpenStep ==
    ContractTypeOK /\ OneOpenPerSlot /\ [ContractNext]_cvars => OneOpenPerSlot'
<1> SUFFICES ASSUME ContractTypeOK, OneOpenPerSlot, [ContractNext]_cvars
             PROVE  OneOpenPerSlot'
    OBVIOUS
<1>1. CASE UNCHANGED cvars
    BY <1>1 DEF OneOpenPerSlot, cvars
<1>2. ASSUME NEW t \in Tasks, NEW s \in Slots, Open(t, s) PROVE OneOpenPerSlot'
    BY <1>2 DEF Open, Free, OneOpenPerSlot, ContractTypeOK
<1>3. ASSUME NEW t \in Tasks, NEW s \in Slots, Park(t, s) PROVE OneOpenPerSlot'
    BY <1>3 DEF Park, OneOpenPerSlot, ContractTypeOK
<1>4. ASSUME NEW t \in Tasks, Close(t) PROVE OneOpenPerSlot'
    BY <1>4 DEF Close, OneOpenPerSlot, ContractTypeOK
<1>5. ASSUME NEW t \in Tasks, Report(t) PROVE OneOpenPerSlot'
    BY <1>5 DEF Report, OneOpenPerSlot
<1> QED
    BY <1>1, <1>2, <1>3, <1>4, <1>5 DEF ContractNext

(***************************************************************************)
(* Whatever implements the contract never has two open tasks on a slot:    *)
(* the guarantee the collision guard of delegate_task is there for.        *)
(***************************************************************************)
THEOREM OneOpenPerSlotHolds == ContractSpec => []OneOpenPerSlot
<1>1. ContractInit => OneOpenPerSlot
    BY DEF ContractInit, OneOpenPerSlot
<1> QED
    BY <1>1, TypeInit, TypeStep, OneOpenStep, PTL DEF ContractSpec

(***************************************************************************)
(* Whatever implements the contract never opens or parks a closed task:    *)
(* completed, failed, timed_out and dismissed are final.                   *)
(***************************************************************************)
THEOREM ClosedStaysHolds == ContractSpec => ClosedStays
<1>1. ContractTypeOK /\ [ContractNext]_cvars =>
        [\A t \in Tasks : phase[t] = "closed" => phase'[t] = "closed"]_cvars
    <2> SUFFICES ASSUME ContractTypeOK, ContractNext,
                        NEW u \in Tasks, phase[u] = "closed"
                 PROVE  phase'[u] = "closed"
        OBVIOUS
    <2>1. ASSUME NEW t \in Tasks, NEW s \in Slots, Open(t, s) PROVE phase'[u] = "closed"
        BY <2>1 DEF Open, ContractTypeOK
    <2>2. ASSUME NEW t \in Tasks, NEW s \in Slots, Park(t, s) PROVE phase'[u] = "closed"
        BY <2>2 DEF Park, ContractTypeOK
    <2>3. ASSUME NEW t \in Tasks, Close(t) PROVE phase'[u] = "closed"
        BY <2>3 DEF Close, ContractTypeOK
    <2>4. ASSUME NEW t \in Tasks, Report(t) PROVE phase'[u] = "closed"
        BY <2>4 DEF Report
    <2> QED
        BY <2>1, <2>2, <2>3, <2>4 DEF ContractNext
<1> QED
    BY <1>1, TypeInit, TypeStep, PTL DEF ContractSpec, ClosedStays

=============================================================================
