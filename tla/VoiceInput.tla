------------------------------- MODULE VoiceInput -------------------------------
(***************************************************************************)
(* The microphone of the page (static/app.js): dictation through the       *)
(* browser's recogniser or through a recorder and a WebSocket to the       *)
(* server, the continuous listener that turns it on again, and the events  *)
(* of a remote wake listener, which all write one input box.               *)
(***************************************************************************)
EXTENDS Naturals, FiniteSets

CONSTANTS MaxSessions,  \* how often the microphone is turned on
          MaxWords,     \* how many things are said, to the page or to the listener
          Modes         \* the listener_mode of the configuration: local, server, remote

VARIABLES
    voice,     \* the page's globals: active, transcript, timer (the silence check), and the handles
               \* rec (recogniser), ws, mic (media stream), recorder: a session or 0
    live,      \* the sessions whose recogniser, WebSocket, permission prompt, stream, recorder is at work
    results,   \* what each session's recogniser, or the far end of its WebSocket, has understood
    listener,  \* the continuous listener: on, mode, rearm (its timer)
    box,       \* the words in the input box
    sends,     \* send() calls waiting in a timer
    loading,   \* the tab waits for an answer
    sent,      \* how often each word went out
    due,       \* words that a stop with sending, the silence check or an event promised to send
    past,      \* stray sessions, whether a box changed under a waiting send, whether a recogniser
               \* began anew, and why the microphone went off last
    count      \* sessions and words so far

vars == <<voice, live, results, listener, box, sends, loading, sent, due, past, count>>

Sessions == 1..MaxSessions
Words == 1..MaxWords
Why == {"", "idle", "error", "cancelled", "denied", "closed", "busy"}

----------------------------------------------------------------------------
Init == /\ voice = [active |-> FALSE, transcript |-> {}, timer |-> FALSE, rec |-> 0, ws |-> 0, mic |-> 0,
                    recorder |-> 0]
        /\ live = [recs |-> {}, opening |-> {}, open |-> {}, asking |-> {}, mics |-> {}, recording |-> {}]
        /\ results = [s \in Sessions |-> {}]
        /\ listener \in [on : {FALSE}, mode : Modes, rearm : {FALSE}]
        /\ box = {}
        /\ sends = 0
        /\ loading = FALSE
        /\ sent = [w \in Words |-> 0]
        /\ due = {}
        /\ past = [stray |-> {}, crossed |-> FALSE, anew |-> FALSE, off |-> ""]
        /\ count = [sessions |-> 0, words |-> 0]

\* Sessions that listen, or are about to.
Working == live.recs \union live.opening \union live.open \union live.mics \union live.recording

ServerSession == voice.ws # 0 \/ voice.recorder # 0

\* The box gets new words; a send() that waits will find these.
Shown(words) == /\ box' = words
                /\ past' = [past EXCEPT !.crossed = @ \/ (sends > 0 /\ words # box)]

\* cleanupVoice: the recogniser of the page is aborted; a server session is not looked at.
CleanupVoice(v) == [v EXCEPT !.timer = FALSE, !.rec = 0]
LiveAfterVoice == [live EXCEPT !.recs = @ \ {voice.rec}]

\* cleanupVoiceServer: recorder, stream and socket that the page still has a handle of.
CleanupVoiceServer(v) == [v EXCEPT !.timer = FALSE, !.ws = 0, !.mic = 0, !.recorder = 0]
LiveAfterServer == [live EXCEPT !.recording = @ \ {voice.recorder}, !.mics = @ \ {voice.mic},
                                !.opening = @ \ {voice.ws}, !.open = @ \ {voice.ws}]

\* The choice most callers make between the two.
Cleaned(v) == IF ServerSession THEN CleanupVoiceServer(v) ELSE CleanupVoice(v)
LiveCleaned == IF ServerSession THEN LiveAfterServer ELSE LiveAfterVoice

Off(v) == [v EXCEPT !.active = FALSE]

\* A clean-up of one kind leaves the handles of the other kind.
LeftByVoice == {voice.ws, voice.mic, voice.recorder} \ {0}
LeftByServer == {voice.rec} \ {0}
LeftByCleaned == IF ServerSession THEN LeftByServer ELSE {}

\* listenerRearm, which only a local or server listener does.
Rearmed == [listener EXCEPT !.rearm = @ \/ (listener.on /\ listener.mode \in {"local", "server"})]

----------------------------------------------------------------------------
\* Turning it on.

CanStart == count.sessions < MaxSessions
Fresh == count.sessions + 1

\* startVoice, whatever else is at work.
StartVoice == /\ CanStart
              /\ voice' = [voice EXCEPT !.active = TRUE, !.transcript = {}, !.timer = TRUE, !.rec = Fresh]
              /\ live' = [live EXCEPT !.recs = @ \union {Fresh}]
              /\ count' = [count EXCEPT !.sessions = Fresh]
              /\ past' = [past EXCEPT !.stray = @ \union Working, !.off = ""]

\* startVoiceServer: the socket is being opened.
StartVoiceServer ==
    /\ CanStart
    /\ voice' = [voice EXCEPT !.active = TRUE, !.transcript = {}, !.timer = TRUE, !.ws = Fresh]
    /\ live' = [live EXCEPT !.opening = @ \union {Fresh}]
    /\ count' = [count EXCEPT !.sessions = Fresh]
    /\ past' = [past EXCEPT !.stray = @ \union Working, !.off = ""]

StartByMode == IF listener.mode = "server" THEN StartVoiceServer ELSE StartVoice

\* startListener, when the configuration has been fetched: it does not ask whether a
\* dictation is going on.
StartListener == /\ ~listener.on
                 /\ listener' = [listener EXCEPT !.on = TRUE]
                 /\ IF listener.mode = "remote" THEN UNCHANGED <<voice, live, past, count>> ELSE StartByMode
                 /\ UNCHANGED <<results, box, sends, loading, sent, due>>

\* The timer of listenerRearm.
Rearm == /\ listener.rearm
         /\ listener' = [listener EXCEPT !.rearm = FALSE]
         /\ IF ~voice.active /\ ~loading
            THEN StartByMode
            ELSE /\ past' = [past EXCEPT !.off = IF voice.active THEN @ ELSE "busy"]
                 /\ UNCHANGED <<voice, live, count>>
         /\ UNCHANGED <<results, box, sends, loading, sent, due>>

\* A wake event of a remote listener: only with an empty box, no dictation and an idle tab.
WakeEvent == /\ listener.on /\ listener.mode = "remote" /\ box = {} /\ ~voice.active /\ ~loading
             /\ StartVoice
             /\ UNCHANGED <<results, listener, box, sends, loading, sent, due>>

----------------------------------------------------------------------------
\* Hearing.

NextWord == count.words + 1
CanHear == count.words < MaxWords

\* onresult and onmessage: neither asks whether its session is still wanted.
Understood(s) == LET words == results[s] \union {NextWord} IN
                 /\ CanHear
                 /\ results' = [results EXCEPT ![s] = words]
                 /\ voice' = [voice EXCEPT !.transcript = words]
                 /\ count' = [count EXCEPT !.words = NextWord]
                 /\ Shown(words)
                 /\ UNCHANGED <<live, listener, sends, loading, sent, due>>

Result(s) == s \in live.recs /\ Understood(s)

\* The server's proxy relays audio one way and transcripts the other; it ends both when
\* either end goes, and at once for a stranger or without a backend.
Relayed(s) == s \in live.open /\ s \in live.recording
Connected(s) == s \in live.opening \union live.open

Message(s) == Relayed(s) /\ Understood(s)

\* A listener_transcript event: into the box, and sent in a moment.
TranscriptEvent == /\ CanHear
                   /\ count' = [count EXCEPT !.words = NextWord]
                   /\ Shown({NextWord})
                   /\ sends' = sends + 1
                   /\ due' = due \union {NextWord}
                   /\ UNCHANGED <<voice, live, results, listener, loading, sent>>

----------------------------------------------------------------------------
\* What the browser does to a session.

\* onerror: the recogniser has ended; the page's one is cleaned up.
RecogniserFails(s) ==
    /\ s \in live.recs
    /\ voice' = Off(CleanupVoice(voice))
    /\ live' = [LiveAfterVoice EXCEPT !.recs = @ \ {s}]
    /\ past' = [past EXCEPT !.stray = @ \union LeftByVoice, !.off = "error"]
    /\ UNCHANGED <<results, listener, box, sends, loading, sent, due, count>>

\* onend: Safari stops it after a minute; begun again it knows nothing of what it heard.
RecogniserEnds(s) ==
    /\ s \in live.recs
    /\ IF voice.active /\ voice.rec = s
       THEN /\ results' = [results EXCEPT ![s] = {}]
            /\ past' = [past EXCEPT !.anew = @ \/ results[s] # {}]
            /\ UNCHANGED live
       ELSE /\ live' = [live EXCEPT !.recs = @ \ {s}]
            /\ UNCHANGED <<results, past>>
    /\ UNCHANGED <<voice, listener, box, sends, loading, sent, due, count>>

\* onopen: the microphone is asked for.
SocketOpens(s) == /\ s \in live.opening
                  /\ live' = [live EXCEPT !.opening = @ \ {s}, !.open = @ \union {s},
                                          !.asking = @ \union {s}]
                  /\ UNCHANGED <<voice, results, listener, box, sends, loading, sent, due, past, count>>

\* getUserMedia resolves: recording begins, whether or not the session is still wanted.
MicGranted(s) == /\ s \in live.asking
                 /\ voice' = [voice EXCEPT !.mic = s, !.recorder = s]
                 /\ live' = [live EXCEPT !.asking = @ \ {s}, !.mics = @ \union {s},
                                         !.recording = @ \union {s}]
                 /\ past' = [past EXCEPT !.stray = @ \union (IF voice.ws = s THEN {} ELSE {s})
                                                       \union ({voice.mic} \ {0, s})]
                 /\ UNCHANGED <<results, listener, box, sends, loading, sent, due, count>>

\* It rejects, or the recorder fails: the session the page has now is cleaned up.
MicDenied(s) == /\ s \in live.asking \union live.recording
                /\ voice' = Off(CleanupVoiceServer(voice))
                /\ live' = [LiveAfterServer EXCEPT !.asking = @ \ {s}, !.recording = @ \ {s}]
                /\ past' = [past EXCEPT !.stray = @ \union LeftByServer, !.off = "denied"]
                /\ UNCHANGED <<results, listener, box, sends, loading, sent, due, count>>

\* onclose: only the current session is cleaned up.
SocketCloses(s) ==
    /\ Connected(s)
    /\ IF voice.active /\ voice.ws = s
       THEN /\ voice' = Off(CleanupVoiceServer(voice))
            /\ live' = LiveAfterServer
            /\ past' = [past EXCEPT !.stray = @ \union LeftByServer, !.off = "closed"]
       ELSE /\ live' = [live EXCEPT !.opening = @ \ {s}, !.open = @ \ {s}]
            /\ UNCHANGED <<voice, past>>
    /\ UNCHANGED <<results, listener, box, sends, loading, sent, due, count>>

----------------------------------------------------------------------------
\* Turning it off.

\* The box is sent in a moment if words were understood; a promise is kept of them only.
SendsSoon(words) == IF words = {} THEN UNCHANGED <<box, sends, due>>
                    ELSE /\ box' = words
                         /\ sends' = sends + 1
                         /\ due' = due \union words

Crossed(words) == past.crossed \/ (sends > 0 /\ words # {} /\ words # box)

\* voiceAutoSend, when nothing new was understood for a moment.
AutoSend == /\ voice.timer /\ voice.transcript # {}
            /\ voice' = [Off(Cleaned(voice)) EXCEPT !.transcript = {}]
            /\ live' = LiveCleaned
            /\ SendsSoon(voice.transcript)
            /\ listener' = Rearmed
            /\ past' = [past EXCEPT !.stray = @ \union LeftByCleaned, !.off = "",
                                    !.crossed = Crossed(voice.transcript)]
            /\ UNCHANGED <<results, loading, sent, count>>

\* Nothing understood at all: off, and not on again.
IdleOff == /\ voice.timer /\ voice.transcript = {}
           /\ voice' = Off(Cleaned(voice))
           /\ live' = LiveCleaned
           /\ past' = [past EXCEPT !.stray = @ \union LeftByCleaned, !.off = "idle"]
           /\ UNCHANGED <<results, listener, box, sends, loading, sent, due, count>>

\* stopVoice or stopVoiceServer, with sending: the button, or Enter outside of the box.
StopAndSend == /\ voice.active
               /\ voice' = [Off(Cleaned(voice)) EXCEPT !.transcript = {}]
               /\ live' = LiveCleaned
               /\ SendsSoon(voice.transcript)
               /\ listener' = Rearmed
               /\ past' = [past EXCEPT !.stray = @ \union LeftByCleaned, !.off = "",
                                       !.crossed = Crossed(voice.transcript)]
               /\ UNCHANGED <<results, loading, sent, count>>

\* send(): what the box holds now, if anything.
SendsBox == /\ sent' = [w \in Words |-> sent[w] + IF w \in box THEN 1 ELSE 0]
            /\ box' = {}
            /\ loading' = (loading \/ box # {})

SendLater == /\ sends > 0
             /\ sends' = sends - 1
             /\ SendsBox
             /\ UNCHANGED <<voice, live, results, listener, due, past, count>>

\* Enter in the box: stopVoice(false), of whatever kind the session is, and send() at once.
EnterInBox == /\ IF voice.active
                 THEN /\ voice' = [Off(CleanupVoice(voice)) EXCEPT !.transcript = {}]
                      /\ live' = LiveAfterVoice
                      /\ listener' = Rearmed
                      /\ past' = [past EXCEPT !.stray = @ \union LeftByVoice, !.off = "",
                                              !.crossed = @ \/ (sends > 0 /\ box # {})]
                 ELSE /\ box # {}
                      /\ past' = [past EXCEPT !.crossed = @ \/ sends > 0]
                      /\ UNCHANGED <<voice, live, listener>>
              /\ SendsBox
              /\ UNCHANGED <<results, sends, due, count>>

\* cancelVoice: Escape or the right arrow in the box; the words stay for editing.
CancelVoice == /\ voice.active
               /\ voice' = [Off(CleanupVoice(voice)) EXCEPT !.transcript = {}]
               /\ live' = LiveAfterVoice
               /\ box' = voice.transcript
               /\ past' = [past EXCEPT !.stray = @ \union LeftByVoice, !.off = "cancelled",
                                       !.crossed = @ \/ (sends > 0 /\ voice.transcript # box)]
               /\ UNCHANGED <<results, listener, sends, loading, sent, due, count>>

\* The right arrow in the box begins the browser's recogniser in every mode.
ArrowInBox == /\ ~voice.active
              /\ StartVoice
              /\ UNCHANGED <<results, listener, box, sends, loading, sent, due>>

\* The button with an empty box, or the right arrow outside of it, in an idle tab.
ClickMic == /\ ~voice.active /\ box = {} /\ ~loading
            /\ StartByMode
            /\ UNCHANGED <<results, listener, box, sends, loading, sent, due>>

\* The answer has come: nothing arms the listener again.
TurnEnds == /\ loading
            /\ loading' = FALSE
            /\ UNCHANGED <<voice, live, results, listener, box, sends, sent, due, past, count>>

----------------------------------------------------------------------------
Next == \/ StartListener \/ Rearm \/ WakeEvent \/ TranscriptEvent
        \/ \E s \in Sessions : \/ Result(s) \/ Message(s) \/ RecogniserFails(s) \/ RecogniserEnds(s)
                               \/ SocketOpens(s) \/ MicGranted(s) \/ MicDenied(s) \/ SocketCloses(s)
        \/ AutoSend \/ IdleOff \/ StopAndSend \/ SendLater \/ EnterInBox \/ CancelVoice
        \/ ArrowInBox \/ ClickMic \/ TurnEnds

Spec == Init /\ [][Next]_vars

----------------------------------------------------------------------------
TypeOK ==
    /\ voice.active \in BOOLEAN /\ voice.timer \in BOOLEAN /\ voice.transcript \subseteq Words
    /\ {voice.rec, voice.ws, voice.mic, voice.recorder} \subseteq 0..count.sessions
    /\ \A field \in DOMAIN live : live[field] \subseteq 1..count.sessions
    /\ results \in [Sessions -> SUBSET Words]
    /\ listener \in [on : BOOLEAN, mode : Modes, rearm : BOOLEAN]
    /\ box \subseteq Words
    /\ sends \in 0..(MaxWords + MaxSessions)
    /\ loading \in BOOLEAN
    /\ sent \in [Words -> 0..(MaxWords + MaxSessions)]
    /\ due \subseteq Words
    /\ past.stray \subseteq Sessions /\ past.off \in Why
    /\ count \in [sessions : 0..MaxSessions, words : 0..MaxWords]

\* Nothing listens but the session the page shows, except what a key of the box, a
\* permission granted late or a second start left behind (handleKey calls the clean-up
\* of the browser's recogniser in server mode too).
OffMeansOff == Working \subseteq past.stray \union
                   (IF voice.active THEN {voice.rec, voice.ws} \ {0} ELSE {})

\* What was promised to be sent goes out, and no word goes out twice, unless something
\* wrote or sent the box while a send() waited, or a forgotten session wrote it.
SpokenOnce == ~past.crossed /\ past.stray = {} =>
                  /\ \A w \in Words : sent[w] <= 1
                  /\ sends = 0 => \A w \in due : sent[w] = 1

\* With a local or server listener on, the microphone is off only until its timer runs,
\* or because nothing was said, it failed or was cancelled, or a turn was going on.
ListensAgain == listener.on /\ listener.mode # "remote" /\ ~voice.active /\ ~listener.rearm
                    => past.off # ""
=============================================================================
