------------------------------- MODULE LoginLimits -------------------------------
(***************************************************************************)
(* The limits on failed logins from one address: a short lockout after Few *)
(* failures within Short, a long one after Many within Long. A request is  *)
(* admitted before its body has been read, and counted after.              *)
(***************************************************************************)
EXTENDS Naturals, Sequences, FiniteSets, SequencesExt

CONSTANTS
    Requests,              \* login requests of the address
    Few, Short, ShortLock, \* five in five minutes: a minute
    Many, Long, LongLock,  \* ten in fifteen minutes: ten minutes
    MaxTime                \* bound on the time

VARIABLES
    now,
    attempts,  \* _login_attempts of the address: times of failures
    lockout,   \* _login_lockouts of the address: when it ends, 0 for none
    admitted,  \* requests that passed the check and have not been answered
    failures   \* all failures since the last success (history)

vars == <<now, attempts, lockout, admitted, failures>>

TypeOK == /\ now \in 1..MaxTime /\ attempts \in Seq(1..MaxTime) /\ lockout \in 0..(MaxTime + LongLock)
          /\ admitted \subseteq Requests /\ failures \in Seq(1..MaxTime)

Init == now = 1 /\ attempts = <<>> /\ lockout = 0 /\ admitted = {} /\ failures = <<>>

Since(times, d) == SelectSeq(times, LAMBDA t : t + d > now)

\* An address whose lockout is over is forgotten by the next request.
Check(r) == /\ r \notin admitted /\ now >= lockout
            /\ admitted' = admitted \cup {r} /\ lockout' = 0
            /\ UNCHANGED <<now, attempts, failures>>

\* What is left of the failures, and how long the next lockout is.
BadPruned(times) == Since(times, Short)
Pruned(times) == Since(times, Long)
Lock(times) == IF Len(times) >= Many THEN now + LongLock
               ELSE IF Len(Since(times, Short)) >= Few THEN now + ShortLock ELSE lockout

Fails(r) == /\ r \in admitted /\ admitted' = admitted \ {r}
            /\ attempts' = Pruned(Append(attempts, now)) /\ lockout' = Lock(attempts')
            /\ failures' = Append(failures, now) /\ UNCHANGED now

Succeeds(r) == /\ r \in admitted /\ admitted' = admitted \ {r}
               /\ attempts' = <<>> /\ lockout' = 0 /\ failures' = <<>> /\ UNCHANGED now

\* Neither counted nor cleared: no body, no password, the system's check timed out.
Fruitless(r) == r \in admitted /\ admitted' = admitted \ {r} /\ UNCHANGED <<now, attempts, lockout, failures>>

Tick == now < MaxTime /\ now' = now + 1 /\ UNCHANGED <<attempts, lockout, admitted, failures>>

Next == Tick \/ \E r \in Requests : Check(r) \/ Fails(r) \/ Succeeds(r) \/ Fruitless(r)

Spec == Init /\ [][Next]_vars

\* Within Long no more failures are answered than Many, one that follows the long
\* lockout, and those that were admitted together with either.
FailuresBounded == Len(Since(failures, Long)) < Many + 2 * Cardinality(Requests)
=============================================================================
