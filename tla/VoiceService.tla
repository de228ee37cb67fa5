---------------------------- MODULE VoiceService ----------------------------
(***************************************************************************)
(* Bounded voice: the wake listener, the session the operator or the wake  *)
(* word starts, the recogniser thread behind each capture, the speaker,    *)
(* and stop().  The microphone is leased for one of the two at a time.     *)
(***************************************************************************)
EXTENDS Naturals

CONSTANT Turns   \* of a session

ASSUME TurnsAssumption == Turns \in Nat \ {0}

Captures == {"wake", "session"}

VARIABLES
  loaded,    \* the recogniser is built (_stt)
  capture,   \* the thread of each capture: [stage, heard, missed]
  tasks,     \* captures whose task is held: _wake_listen_task, _listen_task
  wake,      \* where _run_wake_listener is
  enabled,   \* _wake_enabled
  lock,      \* _microphone_lock: who holds it
  mic,       \* lease of audio.microphone, which only voice takes
  speaker,   \* lease of audio.speaker
  starter,   \* the start() that set _session_pending
  session,   \* _run: [at, turn, cancel]
  quit,      \* the process is told to end; app.stop() follows
  stop       \* stop(): [at, failed, late]

threads == <<loaded, capture, tasks>>
voiceVars == <<threads, wake, enabled, lock, mic, speaker, starter, session, quit, stop>>

Silent == [stage |-> "none", heard |-> "none", missed |-> FALSE]
NoSession == [at |-> "none", turn |-> 1, cancel |-> "no"]
NoStart == [by |-> "nobody", at |-> "none"]
Pending == starter.by # "nobody"
Stopping == stop.at # "none"

Listening == {"loading", "halted", "entering", "recording"}   \* _listen_stop is set
Running(c) == capture[c].stage \in Listening
Unjoined == {c \in tasks : capture[c].stage # "done"}
Heard == {"word", "other", "nothing", "error"}

VoiceInit ==
  /\ loaded = FALSE /\ capture = [c \in Captures |-> Silent] /\ tasks = {}
  /\ wake = "waiting" /\ enabled = TRUE
  /\ lock = "free" /\ mic = "free" /\ speaker = "free"
  /\ starter = NoStart /\ session = NoSession
  /\ quit = FALSE
  /\ stop = [at |-> "none", failed |-> FALSE, late |-> FALSE]

-----------------------------------------------------------------------------
\* provider.listen and stop_listening.  A capture told to stop while the recogniser is
\* built never enters it; the vendor's stop ends a recording.  A request that fails, or
\* comes before the task has begun, or between the thread's check and its recording, is
\* missed.
Begun == [Silent EXCEPT !.stage = "created"]
Done(h) == [Silent EXCEPT !.stage = "done", !.heard = h]
Missed(c) == [c EXCEPT !.missed = TRUE]

Told(cs) ==
  [c \in Captures |->
    CASE cs[c].stage = "created" -> Missed(cs[c])
      [] cs[c].stage = "loading" -> [cs[c] EXCEPT !.stage = "halted"]
      [] OTHER -> cs[c]]

VendorStop(ok, h) ==
  [c \in Captures |->
    CASE capture[c].stage = "recording" /\ ok -> Done(h)
      [] capture[c].stage \in {"entering", "recording"} -> Missed(capture[c])
      [] OTHER -> capture[c]]

ThreadStep(c) ==
  /\ \/ /\ capture[c].stage = "created"
        /\ capture' = [capture EXCEPT ![c] =
             IF \E d \in Captures : Running(d) THEN Done("error") ELSE [@ EXCEPT !.stage = "loading"]]
        /\ UNCHANGED loaded
     \/ /\ capture[c].stage \in {"loading", "halted"}
        /\ loaded' = TRUE
        /\ capture' = [capture EXCEPT ![c] =
             IF @.stage = "halted" THEN Done("nothing") ELSE [@ EXCEPT !.stage = "entering"]]
     \/ /\ capture[c].stage \in {"loading", "halted"} /\ ~loaded
        /\ capture' = [capture EXCEPT ![c] = Done("error")]
        /\ UNCHANGED loaded
     \/ /\ capture[c].stage = "entering"
        /\ capture' = [capture EXCEPT ![c].stage = "recording"]
        /\ UNCHANGED loaded
  /\ UNCHANGED <<tasks, wake, enabled, lock, mic, speaker, starter, session, quit, stop>>

\* Someone speaks, or the recogniser fails, at any time or never.
ThreadHears(c) ==
  /\ capture[c].stage = "recording"
  /\ \E h \in Heard : capture' = [capture EXCEPT ![c] = Done(h)]
  /\ UNCHANGED <<loaded, tasks, wake, enabled, lock, mic, speaker, starter, session, quit, stop>>

-----------------------------------------------------------------------------
\* A session is created by a start() that has the lock and the lease: for the wake word
\* with the engagement cue if the speaker is free, else at its first capture.
Listen(turn, cs, held) ==
  /\ capture' = [cs EXCEPT !["session"] = Begun]
  /\ tasks' = held \cup {"session"}
  /\ session' = [session EXCEPT !.at = "listening", !.turn = turn]

CreateSession(by, cs, held) ==
  /\ mic' = "voice" /\ lock' = "start"
  /\ starter' = [by |-> by, at |-> "session"]
  /\ IF by = "wake" /\ speaker = "free"
     THEN /\ speaker' = "cue" /\ session' = [session EXCEPT !.at = "cue"]
          /\ capture' = cs /\ tasks' = held
     ELSE Listen(1, cs, held) /\ UNCHANGED speaker

\* start() of the console command.
StartVoice ==
  /\ ~quit /\ ~Pending
  /\ enabled' = FALSE
  /\ IF "wake" \in Unjoined
     THEN /\ capture' = Told(capture)
          /\ starter' = [by |-> "console", at |-> IF loaded THEN "stopping" ELSE "locking"]
          /\ UNCHANGED <<tasks, lock, mic, speaker, session>>
     ELSE IF lock = "free" THEN CreateSession("console", capture, tasks)
     ELSE starter' = [by |-> "console", at |-> "locking"]
          /\ UNCHANGED <<capture, tasks, lock, mic, speaker, session>>
  /\ UNCHANGED <<loaded, wake, quit, stop>>

\* The finally of start().
ResumeForgotten == UNCHANGED enabled

Resume == enabled' = (enabled \/ ~Stopping)

StartStops ==
  /\ starter.at = "stopping"
  /\ \E ok \in BOOLEAN, h \in {"other", "nothing"} :
       /\ capture' = VendorStop(ok, h)
       /\ IF ok /\ ~quit
          THEN starter' = [starter EXCEPT !.at = "locking"] /\ UNCHANGED enabled
          ELSE starter' = NoStart /\ Resume
  /\ UNCHANGED <<loaded, tasks, wake, lock, mic, speaker, session, quit, stop>>

StartLocks ==
  /\ starter.at = "locking" /\ lock = "free" /\ ~quit
  /\ CreateSession("console", capture, tasks)
  /\ UNCHANGED <<loaded, wake, enabled, quit, stop>>

StartCancelled ==
  /\ starter.at = "locking" /\ quit
  /\ starter' = NoStart /\ Resume
  /\ UNCHANGED <<threads, wake, lock, mic, speaker, session, quit, stop>>

\* The session task has ended: start() returns, or raises its cancellation.
StartReturns ==
  /\ session.at = "over"
  /\ session' = NoSession /\ starter' = NoStart
  /\ mic' = "free" /\ lock' = "free" /\ Resume
  /\ wake' = IF starter.by # "wake" THEN wake
             ELSE IF Stopping \/ session.cancel = "taken" THEN "ended" ELSE "waiting"
  /\ UNCHANGED <<threads, speaker, quit, stop>>

-----------------------------------------------------------------------------
\* _run_wake_listener.
WakeTurn ==
  /\ \/ wake = "waiting" /\ enabled
     \/ wake = "queued" /\ lock = "free"
  /\ IF Stopping THEN wake' = "ended" /\ UNCHANGED <<capture, tasks, lock, mic>>
     ELSE IF lock # "free" THEN wake' = "queued" /\ UNCHANGED <<capture, tasks, lock, mic>>
     ELSE IF ~enabled THEN wake' = "waiting" /\ UNCHANGED <<capture, tasks, lock, mic>>
     ELSE /\ mic = "free" /\ mic' = "wake"
          /\ wake' = "capturing" /\ lock' = "wake"
          /\ capture' = [capture EXCEPT !["wake"] = Begun]
          /\ tasks' = tasks \cup {"wake"}
  /\ UNCHANGED <<loaded, enabled, speaker, starter, session, quit, stop>>

\* The joined capture's lease and lock go.  A wake word starts a session at once, even
\* when stop() has begun since.
Joined(c) == [capture EXCEPT ![c] = Silent]

WakeCaptured ==
  /\ wake = "capturing" /\ capture["wake"].stage = "done"
  /\ IF capture["wake"].heard = "word" /\ ~Pending
     THEN /\ wake' = "starting" /\ enabled' = FALSE
          /\ CreateSession("wake", Joined("wake"), tasks \ {"wake"})
     ELSE /\ wake' = IF capture["wake"].heard = "error" THEN "failed"
                     ELSE IF Stopping THEN "ended" ELSE "waiting"
          /\ mic' = "free" /\ lock' = "free"
          /\ capture' = Joined("wake") /\ tasks' = tasks \ {"wake"}
          /\ UNCHANGED <<enabled, starter, speaker, session>>
  /\ UNCHANGED <<loaded, quit, stop>>

-----------------------------------------------------------------------------
\* _run.  task.cancel() is "asked" until the await it interrupts ends; then "taken".
Asked == session.cancel = "asked"
Taken(s) == IF s.cancel = "asked" THEN [s EXCEPT !.cancel = "taken"] ELSE s

\* The finally of _run: stop_listening, then the speaker's close.
CleanUp(s, cs) ==
  /\ capture' = Told(cs)
  /\ session' = [Taken(s) EXCEPT !.at = IF loaded THEN "halting" ELSE "closing"]

CueEnds ==
  /\ session.at = "cue"
  /\ speaker' = "free"
  /\ IF Asked THEN session' = [Taken(session) EXCEPT !.at = "over"] /\ UNCHANGED <<capture, tasks>>
     ELSE Listen(1, capture, tasks)
  /\ UNCHANGED <<loaded, wake, enabled, lock, mic, starter, quit, stop>>

\* The timeout and the cancellation both stop and join the capture, whose task has
\* begun by then; cancelling that task does not end its thread.
ListenInterrupted ==
  /\ session.at = "listening"
  /\ capture["session"].stage \in Listening \/ (Asked /\ capture["session"].stage = "done")
  /\ capture' = Told(capture)
  /\ session' = [Taken(session) EXCEPT !.at = IF loaded THEN "stopping" ELSE "joining"]
  /\ UNCHANGED <<loaded, tasks, wake, enabled, lock, mic, speaker, starter, quit, stop>>

\* A cancellation during the stop after a timeout leaves the capture unjoined.
ListenStopsUnjoined ==
  /\ session.at = "stopping"
  /\ \E ok \in BOOLEAN, h \in {"other", "nothing"} : CleanUp(session, VendorStop(ok, h))
  /\ tasks' = tasks \ {"session"}
  /\ UNCHANGED <<loaded, wake, enabled, lock, mic, speaker, starter, quit, stop>>

ListenStops ==
  /\ session.at = "stopping"
  /\ \E ok \in BOOLEAN, h \in {"other", "nothing"} :
       LET cs == VendorStop(ok, h)
       IN  IF Asked THEN /\ CleanUp(session, cs)
                         /\ tasks' = tasks \ {"session"}
           ELSE /\ capture' = cs
                /\ session' = [session EXCEPT !.at = "joining"]
                /\ UNCHANGED tasks
  /\ UNCHANGED <<loaded, wake, enabled, lock, mic, speaker, starter, quit, stop>>

ListenJoined ==
  /\ session.at = "joining" /\ capture["session"].stage = "done"
  /\ tasks' = tasks \ {"session"}
  /\ CleanUp(session, Joined("session"))
  /\ UNCHANGED <<loaded, wake, enabled, lock, mic, speaker, starter, quit, stop>>

ListenEnds ==
  /\ session.at = "listening" /\ ~Asked /\ capture["session"].stage = "done"
  /\ tasks' = tasks \ {"session"}
  /\ IF capture["session"].heard \in {"word", "other"}
     THEN /\ capture' = Joined("session")
          /\ session' = [session EXCEPT !.at = "thinking"]
     ELSE CleanUp(session, Joined("session"))
  /\ UNCHANGED <<loaded, wake, enabled, lock, mic, speaker, starter, quit, stop>>

\* handle_utterance answers or fails; the reply needs the speaker.
Answered ==
  /\ session.at = "thinking"
  /\ \/ /\ ~Asked /\ speaker = "free"
        /\ speaker' = "voice"
        /\ session' = [session EXCEPT !.at = "synthesising"]
        /\ UNCHANGED capture
     \/ CleanUp(session, capture) /\ UNCHANGED speaker
  /\ UNCHANGED <<loaded, tasks, wake, enabled, lock, mic, starter, quit, stop>>

\* The hosted voice, or the local one when its synthesis failed, is heard or fails.
Synthesised ==
  /\ session.at = "synthesising"
  /\ \/ /\ ~Asked
        /\ session' = [session EXCEPT !.at = "playing"]
        /\ UNCHANGED <<capture, speaker>>
     \/ CleanUp(session, capture) /\ speaker' = "free"
  /\ UNCHANGED <<loaded, tasks, wake, enabled, lock, mic, starter, quit, stop>>

\* Playback is waited for even when cancelled.
Spoken ==
  /\ session.at = "playing"
  /\ speaker' = "free"
  /\ \/ ~Asked /\ session.turn < Turns /\ Listen(session.turn + 1, capture, tasks)
     \/ CleanUp(session, capture) /\ UNCHANGED tasks
  /\ UNCHANGED <<loaded, wake, enabled, lock, mic, starter, quit, stop>>

\* Cleanup cut short by a cancellation leaves out what follows.
Halted ==
  /\ session.at = "halting"
  /\ \E ok \in BOOLEAN : capture' = VendorStop(ok, "nothing")
  /\ session' = [Taken(session) EXCEPT !.at = IF Asked THEN "over" ELSE "closing"]
  /\ UNCHANGED <<loaded, tasks, wake, enabled, lock, mic, speaker, starter, quit, stop>>

\* tts.close: lease the speaker and disable it, unless it is busy.
Closing ==
  /\ session.at = "closing"
  /\ IF speaker = "free"
     THEN speaker' = "voice" /\ session' = [session EXCEPT !.at = "disabling"]
     ELSE UNCHANGED speaker /\ session' = [session EXCEPT !.at = "over"]
  /\ UNCHANGED <<threads, wake, enabled, lock, mic, starter, quit, stop>>

Closed ==
  /\ session.at = "disabling"
  /\ speaker' = "free"
  /\ session' = [Taken(session) EXCEPT !.at = "over"]
  /\ UNCHANGED <<threads, wake, enabled, lock, mic, starter, quit, stop>>

\* An earcon of the runtime, beside voice.
EarconBegins ==
  /\ speaker = "free"
  /\ speaker' = "earcon"
  /\ UNCHANGED <<threads, wake, enabled, lock, mic, starter, session, quit, stop>>

EarconEnds ==
  /\ speaker = "earcon" /\ speaker' = "free"
  /\ UNCHANGED <<threads, wake, enabled, lock, mic, starter, session, quit, stop>>

-----------------------------------------------------------------------------
\* The console is left, or interrupted in its start(), and stop() follows.
SessionLive == session.at \notin {"none", "over"}
Cancel == session' = IF SessionLive /\ session.cancel = "no"
                     THEN [session EXCEPT !.cancel = "asked"] ELSE session

Quit ==
  /\ ~quit /\ quit' = TRUE
  /\ IF starter.by = "console" THEN Cancel ELSE UNCHANGED session
  /\ UNCHANGED <<threads, wake, enabled, lock, mic, speaker, starter, stop>>

\* Where stop() goes from each of its stages, without an await.
FromWake(late) ==
  IF SessionLive THEN "cancelling" ELSE IF late THEN "over" ELSE "joining"
FromAskingOnce(cs) == FromWake(FALSE)

FromAsking(cs) ==
  IF "wake" \in tasks /\ cs["wake"].stage # "done"
  THEN IF loaded THEN "retrying" ELSE "pausing"
  ELSE FromWake(FALSE)

Go(at, failed, late) ==
  /\ stop' = [at |-> at, failed |-> failed, late |-> late]
  /\ IF at = "cancelling" THEN Cancel ELSE UNCHANGED session

StopBegins ==
  /\ quit /\ ~Stopping /\ starter.by # "console"
  /\ enabled' = TRUE
  /\ IF Unjoined = {} THEN Go(FromAsking(capture), FALSE, FALSE) /\ UNCHANGED capture
     ELSE /\ capture' = Told(capture)
          /\ Go(IF loaded THEN "asking" ELSE FromAsking(capture'), FALSE, FALSE)
  /\ UNCHANGED <<loaded, tasks, wake, lock, mic, speaker, starter, quit>>

\* stop_listening returns; a wake capture is asked again every 0.1 s.
StopAsked ==
  /\ stop.at \in {"asking", "retrying"}
  /\ \E ok \in BOOLEAN, h \in {"other", "nothing"} :
       /\ capture' = VendorStop(ok, h)
       /\ IF stop.at = "asking" THEN Go(FromAsking(capture'), ~ok, FALSE)
          ELSE Go("pausing", stop.failed \/ ~ok, FALSE)
  /\ UNCHANGED <<loaded, tasks, wake, enabled, lock, mic, speaker, starter, quit>>

StopRetries ==
  /\ stop.at = "pausing" /\ capture["wake"].stage \notin {"none", "done"}
  /\ capture' = Told(capture)
  /\ IF loaded THEN Go("retrying", stop.failed, FALSE) ELSE UNCHANGED <<stop, session>>
  /\ UNCHANGED <<loaded, tasks, wake, enabled, lock, mic, speaker, starter, quit>>

StopJoins ==
  /\ stop.at = "pausing"
  /\ \/ capture["wake"].stage \in {"none", "done"} /\ Go(FromWake(FALSE), stop.failed, FALSE)
     \/ capture["wake"].stage \notin {"none", "done"} /\ Go(FromWake(TRUE), TRUE, TRUE)
  /\ UNCHANGED <<threads, wake, enabled, lock, mic, speaker, starter, quit>>

StopCancelled ==
  /\ stop.at = "cancelling" /\ ~SessionLive
  /\ Go(IF stop.late THEN "over" ELSE "joining", stop.failed, stop.late)
  /\ UNCHANGED <<threads, wake, enabled, lock, mic, speaker, starter, quit>>

StopReturnsUnjoined ==
  /\ stop.at = "joining"
  /\ Go("over", stop.failed, FALSE)
  /\ UNCHANGED <<threads, wake, enabled, lock, mic, speaker, starter, quit>>

StopReturns ==
  /\ stop.at = "joining" /\ wake \in {"ended", "failed"}
  /\ Go("over", stop.failed, FALSE)
  /\ UNCHANGED <<threads, wake, enabled, lock, mic, speaker, starter, quit>>

-----------------------------------------------------------------------------
SessionStep ==
  \/ CueEnds \/ ListenInterrupted \/ ListenStops \/ ListenJoined \/ ListenEnds
  \/ Answered \/ Synthesised \/ Spoken \/ Halted \/ Closing \/ Closed
StartStep == StartStops \/ StartLocks \/ StartCancelled \/ StartReturns
StopStep ==
  \/ StopBegins \/ StopAsked \/ StopRetries \/ StopJoins \/ StopCancelled \/ StopReturns

VoiceNext ==
  \/ \E c \in Captures : ThreadStep(c) \/ ThreadHears(c)
  \/ StartVoice \/ StartStep
  \/ WakeTurn \/ WakeCaptured
  \/ SessionStep
  \/ EarconBegins \/ EarconEnds
  \/ Quit \/ StopStep

VoiceSpec == VoiceInit /\ [][VoiceNext]_voiceVars

\* The event loop runs what is ready, and Event.set wakes the listener before the next
\* command is read; threads run; cognition, playback and the timeouts end, stop()'s own
\* deadline among them.
VoiceFairSpec ==
  /\ VoiceSpec
  /\ \A c \in Captures : WF_voiceVars(ThreadStep(c))
  /\ WF_voiceVars(StartStep) /\ SF_voiceVars(WakeTurn) /\ WF_voiceVars(WakeCaptured)
  /\ WF_voiceVars(SessionStep) /\ WF_voiceVars(EarconEnds)
  /\ SF_voiceVars(StopJoins) /\ WF_voiceVars(StopStep)

-----------------------------------------------------------------------------
\* A recogniser thread runs only under the microphone lease of its owner, except one
\* that a cancellation at shutdown left unjoined.
MicrophoneOwned ==
  /\ capture["wake"].stage \in Listening \cup {"created"} => mic = "wake"
  /\ Running("session") => mic = "voice" \/ quit

\* When stop() returns and did not give a wake capture up, the listener and the session
\* are over and have returned both leases.
StoppedQuiet ==
  stop.at = "over" /\ ~stop.late =>
    /\ wake \in {"ended", "failed"} /\ session = NoSession /\ ~Pending
    /\ mic = "free" /\ speaker # "voice"

Deaf(c) == capture[c].missed

\* The wake listener is back at the microphone after every session and every start()
\* that failed, unless it has failed itself, the process ends, or a capture missed its
\* stop and waits for someone to speak.
WakeResumes == Pending ~> (~Pending /\ wake = "capturing") \/ wake = "failed" \/ quit \/ Deaf("wake") \/ Deaf("session")

\* stop() returns, unless a session's capture missed its stop.
VoiceStopEnds == Stopping ~> stop.at = "over" \/ Deaf("session")
=============================================================================
