-------------------------------- MODULE WakeWord --------------------------------
(***************************************************************************)
(* What the wake listener (tools/wake-listener.py, main) does with what it *)
(* hears: it verifies the speaker, understands the words once more, records*)
(* a follow-up, and sends a command to Jarvis, a transcript to the pages   *)
(* or a wake event to the browsers, as its copy of the mode says; and what *)
(* the server does with those, whose mode may be another one by then.      *)
(***************************************************************************)
EXTENDS Naturals, Sequences

CONSTANTS MaxHeard,   \* utterances with a trigger
          MaxChanges, \* changes of the configuration by the admin
          MaxFaults   \* posts, transcriptions and answers that fail

VARIABLES
    config,   \* the server's: mode, enabled, and eagle (speakers are verified)
    cached,   \* the listener's copy of mode and eagle; eagle0, as it started; asr, a local recogniser
    task,     \* the utterance at work: at, number, here (local mode), direct (not by name), command
    cooling,  \* less than the cooldown has passed since the last trigger
    recent,   \* the server had a wake event within two seconds
    posts,    \* the threads that post to the server
    effects,  \* what came of each utterance, in order
    outcome,  \* why nothing did
    order,    \* the transcripts the pages were sent, in order
    past,     \* whether two posts were ever under way together
    count     \* utterances, changes and faults so far

vars == <<config, cached, task, cooling, recent, posts, effects, outcome, order, past, count>>

Heard == 1..MaxHeard
Modes == {"local", "remote", "server"}
Idle == [at |-> "idle", number |-> 0, here |-> FALSE, direct |-> FALSE, command |-> FALSE]

----------------------------------------------------------------------------
Init == /\ config \in [mode : Modes, enabled : BOOLEAN, eagle : {TRUE}]
        /\ \E asr, eagle \in BOOLEAN :
               cached = [mode |-> config.mode, eagle |-> eagle, eagle0 |-> eagle, asr |-> asr]
        /\ task = Idle
        /\ cooling = FALSE
        /\ recent = FALSE
        /\ posts = {}
        /\ effects = [u \in Heard |-> <<>>]
        /\ outcome = [u \in Heard |-> ""]
        /\ order = <<>>
        /\ past = FALSE
        /\ count = [heard |-> 0, changes |-> 0, faults |-> 0]

Fault == count.faults < MaxFaults /\ count' = [count EXCEPT !.faults = @ + 1]

\* The utterance at work ends without effect; the cooldown begins anew.
Drop(why) == /\ outcome' = [outcome EXCEPT ![task.number] = why]
             /\ task' = Idle
             /\ cooling' = TRUE
             /\ UNCHANGED <<config, cached, recent, posts, effects, order, past>>

----------------------------------------------------------------------------
\* The configuration.

Change(mode, enabled) == /\ count.changes < MaxChanges
                         /\ count' = [count EXCEPT !.changes = @ + 1]
                         /\ config' = [config EXCEPT !.mode = mode, !.enabled = enabled]
                         /\ UNCHANGED <<cached, task, cooling, recent, posts, effects, outcome, order, past>>

\* fetch_listener_config: a fetch that fails makes the listener a local one.
Refresh == /\ \/ /\ cached' = [cached EXCEPT !.mode = config.mode, !.eagle = config.eagle]
                 /\ UNCHANGED count
              \/ /\ Fault
                 /\ cached' = [cached EXCEPT !.mode = "local"]
           /\ UNCHANGED <<config, task, cooling, recent, posts, effects, outcome, order, past>>

CoolDown == /\ cooling /\ task = Idle
            /\ cooling' = FALSE
            /\ UNCHANGED <<config, cached, task, recent, posts, effects, outcome, order, past, count>>

----------------------------------------------------------------------------
\* The loop.

\* A trigger: by name, with or without a command, or by a word that is one itself. The
\* mode is read once, and says which speaker settings count.
Detect(direct, command) ==
    LET u == count.heard + 1
        verify == IF cached.mode = "remote" THEN cached.eagle ELSE cached.eagle0 IN
    /\ task = Idle /\ u <= MaxHeard
    /\ direct => command
    /\ count' = [count EXCEPT !.heard = u]
    /\ IF cooling
       THEN /\ outcome' = [outcome EXCEPT ![u] = "cooling"]
            /\ UNCHANGED <<task, cooling>>
       ELSE /\ cooling' = TRUE
            /\ task' = [at |-> IF verify THEN "verify" ELSE "accepted", number |-> u,
                        here |-> cached.mode # "remote", direct |-> direct, command |-> command]
            /\ UNCHANGED outcome
    /\ UNCHANGED <<config, cached, recent, posts, effects, order, past>>

Go(at) == /\ task' = [task EXCEPT !.at = at]
          /\ UNCHANGED <<config, cached, cooling, recent, posts, effects, outcome, order, past, count>>

\* verify_speaker on the audio kept from before the trigger.
Verify == /\ task.at = "verify"
          /\ \/ Go("accepted")
             \/ Drop("stranger") /\ UNCHANGED count

\* Remote: the audio is understood once more; if only the name is left of it, a follow-up
\* is recorded, and if nothing is, the first understanding counts.
Understand == /\ task.at = "accepted" /\ ~task.here
              /\ \/ task.command /\ Go("send")
                 \/ (task.command => ~task.direct) /\ Go("record")

\* The follow-up, up to a silence: too short or without words, it is dropped.
Record == /\ task.at = "record"
          /\ \/ Go("send")
             \/ (Drop("short") \/ Drop("silent")) /\ UNCHANGED count

\* send_to_jarvis, directly or through /api/listener/chat: one attempt.
Send == /\ task.at = "send"
        /\ \/ /\ effects' = [effects EXCEPT ![task.number] = Append(@, "command")]
              /\ task' = Idle /\ cooling' = TRUE
              /\ UNCHANGED <<config, cached, recent, posts, outcome, order, past, count>>
           \/ Drop("unsent") /\ Fault

\* A thread posts for the utterance while the loop goes on.
Posted(kind) == /\ posts' = posts \union {[kind |-> kind, number |-> task.number]}
                /\ past' = (past \/ posts # {})
                /\ task' = Idle
                /\ UNCHANGED <<config, cached, cooling, recent, effects, outcome, order>>

\* Local: with a recogniser of its own the listener posts what was said, or a follow-up;
\* without one, or when it fails, a wake event for the recogniser of the browser.
PostLocal ==
    /\ task.at = "accepted" /\ task.here
    /\ \/ ~cached.asr /\ Posted("wake") /\ UNCHANGED count
       \/ cached.asr /\ task.command /\ Posted("transcript") /\ UNCHANGED count
       \/ cached.asr /\ task.command /\ Posted("wake") /\ Fault
       \/ cached.asr /\ ~task.command /\ Posted("transcript") /\ UNCHANGED count
       \/ /\ cached.asr /\ ~task.command
          /\ \E why \in {"short", "silent"} :
                 /\ outcome' = [outcome EXCEPT ![task.number] = why]
                 /\ task' = Idle
                 /\ UNCHANGED <<config, cached, cooling, recent, posts, effects, order, past, count>>

----------------------------------------------------------------------------
\* The server.

\* api_listener_wake: the debounce counts events that are refused as well.
Wake(p) ==
    /\ p.kind = "wake"
    /\ posts' = posts \ {p}
    /\ recent' = TRUE
    /\ IF ~recent /\ config.enabled /\ config.mode = "remote"
       THEN /\ effects' = [effects EXCEPT ![p.number] = Append(@, "wake")]
            /\ UNCHANGED outcome
       ELSE /\ outcome' = [outcome EXCEPT ![p.number] = IF recent THEN "debounced" ELSE "refused"]
            /\ UNCHANGED effects
    /\ UNCHANGED <<config, cached, task, cooling, order, past, count>>

\* api_listener_transcript: to every page, whatever the configuration says.
Transcript(p) == /\ p.kind = "transcript"
                 /\ posts' = posts \ {p}
                 /\ effects' = [effects EXCEPT ![p.number] = Append(@, "transcript")]
                 /\ order' = Append(order, p.number)
                 /\ UNCHANGED <<config, cached, task, cooling, recent, outcome, past, count>>

\* The post does not get there: it is not repeated.
Lost(p) == /\ Fault
           /\ posts' = posts \ {p}
           /\ outcome' = [outcome EXCEPT ![p.number] = "lost"]
           /\ UNCHANGED <<config, cached, task, cooling, recent, effects, order, past>>

DebounceEnds == /\ recent
                /\ recent' = FALSE
                /\ UNCHANGED <<config, cached, task, cooling, posts, effects, outcome, order, past, count>>

----------------------------------------------------------------------------
Next == \/ \E mode \in Modes, enabled \in BOOLEAN : Change(mode, enabled)
        \/ Refresh \/ CoolDown \/ DebounceEnds
        \/ \E direct, command \in BOOLEAN : Detect(direct, command)
        \/ Verify \/ Understand \/ Record \/ Send \/ PostLocal
        \/ \E p \in posts : Wake(p) \/ Transcript(p) \/ Lost(p)

Spec == Init /\ [][Next]_vars

----------------------------------------------------------------------------
TypeOK == /\ config \in [mode : Modes, enabled : BOOLEAN, eagle : BOOLEAN]
          /\ cached \in [mode : Modes, eagle : BOOLEAN, eagle0 : BOOLEAN, asr : BOOLEAN]
          /\ task.at \in {"idle", "verify", "accepted", "record", "send"}
          /\ task.number \in 0..MaxHeard
          /\ {cooling, recent, past} \subseteq BOOLEAN
          /\ posts \subseteq [kind : {"wake", "transcript"}, number : Heard]
          /\ \A u \in Heard : \A k \in DOMAIN effects[u] : effects[u][k] \in {"command", "wake", "transcript"}
          /\ \A u \in Heard : outcome[u] \in {"", "cooling", "stranger", "short", "silent", "unsent", "refused",
                                              "debounced", "lost"}
          /\ \A k \in DOMAIN order : order[k] \in Heard
          /\ count \in [heard : 0..MaxHeard, changes : 0..MaxChanges, faults : 0..MaxFaults]

\* What was said comes to something once, or to nothing for one reason; none is forgotten.
EachOnce == \A u \in 1..count.heard :
                Len(effects[u]) + (IF outcome[u] = "" THEN 0 ELSE 1)
                    = IF task.number = u \/ \E p \in posts : p.number = u THEN 0 ELSE 1

\* The pages get what was said in the order it was said, unless posts were under way together.
InOrder == past \/ \A k, l \in DOMAIN order : k < l => order[k] < order[l]

=============================================================================
