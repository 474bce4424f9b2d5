------------------------------ MODULE OpenAiSignIn ------------------------------
(***************************************************************************)
(* Signing in to OpenAI: the flow in the browser with the local callback   *)
(* server that a thread waits on, the code pasted by a user whose browser  *)
(* cannot reach it, the API key, and the refreshes by the monitor and by   *)
(* runs the service turned away. One row of the table auth holds the       *)
(* outcome.                                                                *)
(*                                                                         *)
(* A token stands for the pair the service issued; tokens are numbered in  *)
(* the order of issue, and 0 is none.                                      *)
(***************************************************************************)
EXTENDS Naturals, Sequences

CONSTANTS
    Flows,       \* sign-ins the settings page may start
    Refreshers,  \* "monitor", and the runs that may refresh
    MaxTokens,   \* bound on the tokens and keys
    MaxFaults    \* bound on failed requests

NoFlow == "none"  \* no member of Flows

VARIABLES
    accounts,  \* account of each token issued
    good,      \* refresh tokens the service accepts
    used,      \* flows whose authorization code has been exchanged
    active,    \* _active_flow
    flow,      \* each flow: status and result, its server, its thread
    paste,     \* the request that exchanges a pasted code
    row,       \* the row of the table auth
    ask,       \* refreshes in flight
    chosen,    \* account the user saved last (history)
    crossed,   \* a save and a refresh or two saves overlapped (history)
    faults

vars == <<accounts, good, used, active, flow, paste, row, ask, chosen, crossed, faults>>

Tokens == 0..MaxTokens
NoAsk == [at |-> "idle", held |-> 0, got |-> 0]
NoPaste == [at |-> "idle", flow |-> NoFlow, got |-> 0]
NoRow == [token |-> 0, type |-> "", refresh |-> 0]

TypeOK ==
    /\ accounts \in Seq(Tokens) /\ Len(accounts) \in Tokens /\ good \subseteq Tokens /\ used \subseteq Flows
    /\ active \in Flows \cup {NoFlow}
    /\ flow \in [Flows -> [status : {"none", "waiting", "success", "error", "timeout"}, result : Tokens,
                           open : BOOLEAN, heard : Flows \cup {NoFlow}, thread : {"none", "wait", "exchange", "over"}]]
    /\ paste \in [at : {"idle", "asked", "saving"}, flow : Flows \cup {NoFlow}, got : Tokens]
    /\ row \in [token : Tokens, type : {"", "api_key", "oauth", "session_token"}, refresh : Tokens]
    /\ ask \in [Refreshers -> [at : {"idle", "asked", "answered"}, held : Tokens, got : Tokens]]
    /\ chosen \in Tokens /\ crossed \in BOOLEAN /\ faults \in 0..MaxFaults

Init == /\ accounts = <<>> /\ good = {} /\ used = {} /\ active = NoFlow
        /\ flow = [f \in Flows |-> [status |-> "none", result |-> 0, open |-> FALSE, heard |-> NoFlow, thread |-> "none"]]
        /\ paste = NoPaste /\ row = NoRow /\ ask = [r \in Refreshers |-> NoAsk]
        /\ chosen = 0 /\ crossed = FALSE /\ faults = 0

Account(t) == IF t = 0 THEN 0 ELSE accounts[t]
Next1 == Len(accounts) + 1
Issue(account) == Next1 <= MaxTokens /\ accounts' = Append(accounts, account)
Fault == faults < MaxFaults /\ faults' = faults + 1

----------------------------------------------------------------------------
\* The flow in the browser.

Closed(f) == IF f = NoFlow THEN flow ELSE [flow EXCEPT ![f].open = FALSE]

\* An earlier flow's server is stopped first; the port may be taken by another program.
Start(f) ==
    /\ flow[f].status = "none"
    /\ \/ /\ active' = f /\ UNCHANGED faults
          /\ flow' = [Closed(active) EXCEPT ![f] = [status |-> "waiting", result |-> 0, open |-> TRUE,
                                                    heard |-> NoFlow, thread |-> "wait"]]
       \/ Fault /\ flow' = Closed(active) /\ UNCHANGED active
    /\ UNCHANGED <<accounts, good, used, paste, row, ask, chosen, crossed>>

\* The browser of a flow comes back to the port, whoever listens there now.
Callback(f, g) ==
    /\ flow[f].status # "none" /\ flow[g].open /\ flow[g].heard = NoFlow
    /\ flow' = [flow EXCEPT ![g].heard = f]
    /\ UNCHANGED <<accounts, good, used, active, paste, row, ask, chosen, crossed, faults>>

Finished(f, status, result) ==
    [flow EXCEPT ![f].status = status, ![f].result = result, ![f].open = FALSE, ![f].thread = "over"]

\* Two minutes without a code; the server may have been stopped long before.
TimesOut(f) ==
    /\ flow[f].thread = "wait" /\ flow[f].heard = NoFlow /\ flow' = Finished(f, "timeout", 0)
    /\ UNCHANGED <<accounts, good, used, active, paste, row, ask, chosen, crossed, faults>>

\* A code with another flow's state is not exchanged, nor one whose server was stopped
\* before the thread woke.
Hears(f) ==
    /\ flow[f].thread = "wait" /\ flow[f].heard # NoFlow
    /\ flow' = IF flow[f].heard = f /\ flow[f].open THEN [flow EXCEPT ![f].thread = "exchange"] ELSE Finished(f, "error", 0)
    /\ UNCHANGED <<accounts, good, used, active, paste, row, ask, chosen, crossed, faults>>

Exchanges(f) ==
    /\ flow[f].thread = "exchange"
    /\ \/ /\ f \notin used /\ Issue(Next1) /\ good' = good \cup {Next1} /\ used' = used \cup {f}
          /\ flow' = Finished(f, "success", Next1) /\ UNCHANGED faults
       \/ /\ IF f \in used THEN UNCHANGED faults ELSE Fault
          /\ flow' = Finished(f, "error", 0) /\ UNCHANGED <<accounts, good, used>>
    /\ UNCHANGED <<active, paste, row, ask, chosen, crossed>>

Refreshing == \E r \in Refreshers : ask[r].at # "idle"

Saved(t, type) == /\ row' = [token |-> t, type |-> type, refresh |-> IF type = "oauth" THEN t ELSE 0]
                  /\ chosen' = accounts'[t]

\* The page saw success: the tokens are saved, and the flow is forgotten.
BadTaken == active
Taken == NoFlow

Complete ==
    /\ active # NoFlow /\ flow[active].status = "success"
    /\ UNCHANGED accounts /\ Saved(flow[active].result, "oauth") /\ active' = Taken
    /\ crossed' = (crossed \/ Refreshing \/ paste.at # "idle")
    /\ UNCHANGED <<good, used, flow, paste, ask, faults>>

Cancel == /\ active # NoFlow /\ active' = NoFlow /\ flow' = Closed(active)
          /\ UNCHANGED <<accounts, good, used, paste, row, ask, chosen, crossed, faults>>

----------------------------------------------------------------------------
\* A pasted code is exchanged in a thread with the verifier of the active flow; the
\* answer marks the flow that is active by then.

Paste == /\ paste.at = "idle" /\ active # NoFlow /\ paste' = [at |-> "asked", flow |-> active, got |-> 0]
         /\ UNCHANGED <<accounts, good, used, active, flow, row, ask, chosen, crossed, faults>>

PasteAnswered ==
    /\ paste.at = "asked" /\ paste.flow \notin used
    /\ Issue(Next1) /\ good' = good \cup {Next1} /\ used' = used \cup {paste.flow}
    /\ IF active = NoFlow THEN paste' = NoPaste /\ UNCHANGED flow
       ELSE /\ paste' = [paste EXCEPT !.at = "saving", !.got = Next1]
            /\ flow' = [flow EXCEPT ![active].status = "success", ![active].result = Next1]
    /\ UNCHANGED <<active, row, ask, chosen, crossed, faults>>

\* A code of another flow, one used before, or an unreachable service.
PasteRefused == /\ paste.at = "asked" /\ paste' = NoPaste
                /\ UNCHANGED <<accounts, good, used, active, flow, row, ask, chosen, crossed, faults>>

PasteSaved ==
    /\ paste.at = "saving" /\ paste' = NoPaste
    /\ UNCHANGED accounts /\ Saved(paste.got, "oauth") /\ active' = NoFlow /\ flow' = Closed(active)
    /\ crossed' = (crossed \/ Refreshing)
    /\ UNCHANGED <<good, used, ask, faults>>

\* An API key, or a session token without refresh token.
SaveToken(type) ==
    /\ Issue(Next1) /\ Saved(Next1, type) /\ crossed' = (crossed \/ Refreshing)
    /\ UNCHANGED <<good, used, active, flow, paste, ask, faults>>

----------------------------------------------------------------------------
\* Refreshing in a thread. The monitor leaves alone what is not a session token,
\* which what the browser brought is until a run has refreshed it.

Ask(r) ==
    /\ ask[r].at = "idle" /\ row.refresh # 0 /\ row.type # "api_key"
    /\ r = "monitor" => row.type = "session_token"
    /\ ask' = [ask EXCEPT ![r] = [at |-> "asked", held |-> row.refresh, got |-> 0]]
    /\ UNCHANGED <<accounts, good, used, active, flow, paste, row, chosen, crossed, faults>>

Granted(r) ==
    /\ ask[r].at = "asked" /\ ask[r].held \in good /\ Issue(Account(ask[r].held))
    /\ good' = (good \ {ask[r].held}) \cup {Next1}
    /\ ask' = [ask EXCEPT ![r].at = "answered", ![r].got = Next1]
    /\ UNCHANGED <<used, active, flow, paste, row, chosen, crossed, faults>>

Refused(r) ==
    /\ ask[r].at = "asked" /\ ask' = [ask EXCEPT ![r] = NoAsk]
    /\ IF ask[r].held \in good THEN Fault ELSE UNCHANGED faults
    /\ UNCHANGED <<accounts, good, used, active, flow, paste, row, chosen, crossed>>

\* Saved whatever the row holds by now.
Refreshed(r) ==
    /\ ask[r].at = "answered" /\ ask' = [ask EXCEPT ![r] = NoAsk]
    /\ row' = [token |-> ask[r].got, type |-> "session_token", refresh |-> ask[r].got]
    /\ UNCHANGED <<accounts, good, used, active, flow, paste, chosen, crossed, faults>>

Next == \/ \E f \in Flows : Start(f) \/ TimesOut(f) \/ Hears(f) \/ Exchanges(f) \/ \E g \in Flows : Callback(f, g)
        \/ Complete \/ Cancel \/ Paste \/ PasteAnswered \/ PasteRefused \/ PasteSaved
        \/ \E type \in {"api_key", "session_token"} : SaveToken(type)
        \/ \E r \in Refreshers : Ask(r) \/ Granted(r) \/ Refused(r) \/ Refreshed(r)

Spec == Init /\ [][Next]_vars

----------------------------------------------------------------------------
Settled == ~Refreshing /\ paste.at = "idle" /\ ~crossed

\* However flows, pasted codes and refreshes interleave, the row is of the account the
\* user saved last, and its refresh token is one the service accepts.
SignedIn == Settled => Account(row.token) = chosen /\ (row.refresh # 0 => row.refresh \in good)
=============================================================================
