-------------------------------- MODULE Accounts --------------------------------
(***************************************************************************)
(* The accounts of the server and their login sessions: the first account, *)
(* from the setup or the settings; logging in and out; a password changed  *)
(* in the settings, or with the reset tool, which is a program of its own  *)
(* beside the server. A session is in the server's memory and in a table,  *)
(* which a starting server reads back. A password is the number of its     *)
(* change.                                                                 *)
(***************************************************************************)
EXTENDS Naturals, Sequences, FiniteSets

CONSTANTS
    Users,         \* names for accounts
    Requests,      \* requests in flight
    MaxSessions,   \* bound on the sessions created
    MaxPasswords,  \* bound on the passwords given
    MaxFaults      \* bound on crashes

VARIABLES
    up,         \* the server runs
    complete,   \* setup_complete in the table config
    password,   \* password of each account in the table users, 0 if there is none
    memory,     \* _sessions
    table,      \* the table sessions
    made,       \* the sessions so far: user and password they were created with
    expired,    \* sessions past their age
    at,         \* each request
    passwords,  \* passwords given so far
    cleared,    \* per account, the last password the reset tool gave (history)
    gone,       \* sessions logged out or found expired (history)
    together,   \* requests to create an account, or a reset and a login, overlapped (history)
    faults

vars == <<up, complete, password, memory, table, made, expired, at, passwords, cleared, gone, together, faults>>

Sessions == 1..MaxSessions
Idle == [at |-> "idle", user |-> "", session |-> 0]

TypeOK ==
    /\ up \in BOOLEAN /\ complete \in BOOLEAN /\ password \in [Users -> 0..MaxPasswords]
    /\ memory \subseteq Sessions /\ table \subseteq Sessions /\ expired \subseteq Sessions /\ gone \subseteq Sessions
    /\ made \in Seq([user : Users, password : 0..MaxPasswords]) /\ Len(made) <= MaxSessions
    /\ at \in [Requests -> [at : {"idle", "creating", "verified", "leaving"},
                            user : Users \cup {""}, session : 0..MaxSessions]]
    /\ passwords \in 0..MaxPasswords /\ cleared \in [Users -> 0..MaxPasswords]
    /\ together \in BOOLEAN /\ faults \in 0..MaxFaults

Init == /\ up = TRUE /\ complete = FALSE /\ password = [u \in Users |-> 0] /\ memory = {} /\ table = {}
        /\ made = <<>> /\ expired = {} /\ at = [r \in Requests |-> Idle] /\ passwords = 0
        /\ cleared = [u \in Users |-> 0] /\ gone = {} /\ together = FALSE /\ faults = 0

\* The event loop is at no request between its memory and its table.
Free == up /\ \A r \in Requests : at[r].at \in {"idle", "creating"}

NobodyYet == \A u \in Users : password[u] = 0

NewPassword == passwords < MaxPasswords /\ passwords' = passwords + 1

\* create_user: a name that is taken is refused.
Create(u) == /\ password[u] = 0 /\ NewPassword
             /\ password' = [password EXCEPT ![u] = passwords']

\* login, up to the row of the table: the session counts from now on.
Enter(r, u) ==
    /\ Len(made) < MaxSessions
    /\ made' = Append(made, [user |-> u, password |-> password'[u]])
    /\ memory' = memory \cup {Len(made')}
    /\ at' = [at EXCEPT ![r] = [at |-> "verified", user |-> u, session |-> Len(made')]]

----------------------------------------------------------------------------
\* is_setup_complete, which every start of the wizard asks: an account of an older
\* version completes it.
Backfill == /\ Free /\ ~complete /\ ~NobodyYet /\ complete' = TRUE
            /\ UNCHANGED <<up, password, memory, table, made, expired, at, passwords, cleared, gone, together, faults>>

\* complete_setup without an account, and with one, which is logged in.
SetupAlone == /\ Free /\ ~complete /\ NobodyYet /\ complete' = TRUE
              /\ UNCHANGED <<up, password, memory, table, made, expired, at, passwords, cleared, gone, together, faults>>

Setup(r, u) == /\ Free /\ ~complete /\ NobodyYet /\ at[r].at = "idle" /\ complete' = TRUE
               /\ Create(u) /\ Enter(r, u)
               /\ together' = (together \/ \E q \in Requests : at[q].at = "creating")
               /\ UNCHANGED <<up, table, expired, cleared, gone, faults>>

\* create_account finds no administrator, then reads the body, then creates one.
MayCreate(r) == /\ Free /\ at[r].at = "idle" /\ NobodyYet
                /\ at' = [at EXCEPT ![r].at = "creating"]
                /\ together' = (together \/ \E q \in Requests : at[q].at = "creating")
                /\ UNCHANGED <<up, complete, password, memory, table, made, expired, passwords, cleared, gone, faults>>

CreateAccount(r, u) ==
    /\ Free /\ at[r].at = "creating" /\ at' = [at EXCEPT ![r] = Idle]
    /\ \/ Create(u)
       \/ UNCHANGED <<password, passwords>>     \* no name, a short password, a name that is taken
    /\ UNCHANGED <<up, complete, memory, table, made, expired, cleared, gone, together, faults>>

\* The login with the account's password, or with the system's for an administrator.
Login(r, u) ==
    /\ Free /\ at[r].at = "idle" /\ password[u] # 0 /\ UNCHANGED password /\ Enter(r, u)
    /\ UNCHANGED <<up, complete, table, expired, passwords, cleared, gone, together, faults>>

LoggedIn(r) ==
    /\ up /\ at[r].at = "verified" /\ table' = table \cup {at[r].session}
    /\ at' = [at EXCEPT ![r] = Idle]
    /\ UNCHANGED <<up, complete, password, memory, made, expired, passwords, cleared, gone, together, faults>>

\* logout takes the session from memory first, and from the table then.
BadLeft(n) == table
Left(n) == table \ {n}

Logout(r, n) ==
    /\ Free /\ at[r].at = "idle" /\ n \in table
    /\ memory' = memory \ {n} /\ at' = [at EXCEPT ![r] = [at |-> "leaving", user |-> "", session |-> n]]
    /\ UNCHANGED <<up, complete, password, table, made, expired, passwords, cleared, gone, together, faults>>

LoggedOut(r) ==
    /\ up /\ at[r].at = "leaving" /\ at' = [at EXCEPT ![r] = Idle]
    /\ table' = Left(at[r].session) /\ gone' = gone \cup {at[r].session}
    /\ UNCHANGED <<up, complete, password, memory, made, expired, passwords, cleared, together, faults>>

\* verify_session drops a session that is past its age; its row stays until a start.
Expire(n) == /\ n \in table \ expired /\ expired' = expired \cup {n}
             /\ UNCHANGED <<up, complete, password, memory, table, made, at, passwords, cleared, gone, together, faults>>

Dropped(n) == /\ Free /\ n \in memory \cap expired /\ memory' = memory \ {n} /\ gone' = gone \cup {n}
              /\ UNCHANGED <<up, complete, password, table, made, expired, at, passwords, cleared, together, faults>>

\* change_password leaves the sessions alone.
ChangePassword(u) ==
    /\ Free /\ password[u] # 0 /\ NewPassword /\ password' = [password EXCEPT ![u] = passwords']
    /\ UNCHANGED <<up, complete, memory, table, made, expired, at, cleared, gone, together, faults>>

\* The reset tool clears the account's rows in the same transaction; the server's
\* memory is out of its reach.
SessionsOf(u) == {n \in table : made[n].user = u}

Reset(u) ==
    /\ password[u] # 0 /\ NewPassword /\ password' = [password EXCEPT ![u] = passwords']
    /\ table' = table \ SessionsOf(u) /\ cleared' = [cleared EXCEPT ![u] = passwords']
    /\ together' = (together \/ \E r \in Requests : at[r].at = "verified")
    /\ UNCHANGED <<up, complete, memory, made, expired, at, gone, faults>>

----------------------------------------------------------------------------
Stop == /\ up /\ up' = FALSE /\ memory' = {} /\ at' = [r \in Requests |-> Idle]
        /\ \/ faults' = faults + 1
           \/ (\A r \in Requests : at[r].at = "idle") /\ UNCHANGED faults
        /\ faults' <= MaxFaults
        /\ UNCHANGED <<complete, password, table, made, expired, passwords, cleared, gone, together>>

\* init_db
Start == /\ ~up /\ up' = TRUE /\ memory' = table \ expired /\ table' = table \ expired
         /\ UNCHANGED <<complete, password, made, expired, at, passwords, cleared, gone, together, faults>>

Next == \/ Backfill \/ SetupAlone \/ Stop \/ Start
        \/ \E u \in Users : ChangePassword(u) \/ Reset(u)
        \/ \E n \in Sessions : Expire(n) \/ Dropped(n)
        \/ \E r \in Requests :
              \/ MayCreate(r) \/ LoggedIn(r) \/ LoggedOut(r)
              \/ \E u \in Users : Setup(r, u) \/ CreateAccount(r, u) \/ Login(r, u)
              \/ \E n \in Sessions : Logout(r, n)

Spec == Init /\ [][Next]_vars

----------------------------------------------------------------------------
\* A session that was logged out or dropped does not count again, whatever stops and
\* starts follow.
StaysOut == memory \cap gone = {}

\* The sessions of an account that a starting server will read back are all from after
\* the last use of the reset tool.
ResetClears == ~together => \A n \in table : made[n].password >= cleared[made[n].user]

\* There is one first administrator.
OneAdmin == ~together => Cardinality({u \in Users : password[u] # 0}) <= 1
=============================================================================
