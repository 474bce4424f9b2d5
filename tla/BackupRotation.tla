----------------------------- MODULE BackupRotation -----------------------------
(***************************************************************************)
(* Which backups of the database db_backup_rotate keeps (auth.py): the     *)
(* hourly loop makes one and rotates, a manual backup does not rotate, and *)
(* a file that cannot be deleted stays for the next rotation.              *)
(***************************************************************************)
EXTENDS Naturals, FiniteSets

CONSTANTS HourlyKeep, \* backups kept whatever their age (DB_BACKUP_HOURLY_KEEP)
          DailyKeep,  \* days of which one more is kept (DB_BACKUP_DAILY_KEEP)
          MaxBackups, MaxDays \* bounds on a behaviour

VARIABLES backups, \* files, as [n, day]; n orders them by name
          day,     \* the calendar
          made,    \* days a backup was made on
          n        \* backups made so far

vars == <<backups, day, made, n>>

Init == backups = {} /\ day = 1 /\ made = {} /\ n = 0

\* db_backup_rotate: the newest HourlyKeep files, and of the others the oldest of
\* each of the last DailyKeep days.
Recent(bs) == {b \in bs : Cardinality({x \in bs : x.n > b.n}) < HourlyKeep}
Oldest(bs) == {b \in bs : \A x \in bs : x.day = b.day => x.n >= b.n}
Daily(bs) == {b \in Oldest(bs) : Cardinality({x \in Oldest(bs) : x.day > b.day}) < DailyKeep}
Kept(bs) == Recent(bs) \cup Daily(bs \ Recent(bs))

Made == /\ n < MaxBackups
        /\ n' = n + 1
        /\ made' = made \cup {day}
        /\ UNCHANGED day

Manual == Made /\ backups' = backups \cup {[n |-> n + 1, day |-> day]}

Hourly ==
    /\ Made
    /\ LET bs == backups \cup {[n |-> n + 1, day |-> day]} IN
       \E undeletable \in SUBSET (bs \ Kept(bs)) : backups' = Kept(bs) \cup undeletable

NextDay == day < MaxDays /\ day' = day + 1 /\ UNCHANGED <<backups, made, n>>

Next == Manual \/ Hourly \/ NextDay

Spec == Init /\ [][Next]_vars

----------------------------------------------------------------------------
\* State of the expected types.
TypeOK == /\ backups \subseteq [n : 1..n, day : 1..day]
          /\ day \in 1..MaxDays /\ made \subseteq 1..day /\ n \in 0..MaxBackups

\* A backup of every day one was made on is left, until there are such of
\* DailyKeep later days, however the backups fall on the days and whatever stayed
\* undeleted: what leaves the hourly window is still there as its day's.
DaysCovered ==
    \A d \in made : \/ \E b \in backups : b.day = d
                    \/ Cardinality({e \in made : e > d}) >= DailyKeep
=============================================================================
