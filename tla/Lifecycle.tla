----------------------------- MODULE Lifecycle -----------------------------
(***************************************************************************)
(* The life of one process: cli._run_application composes the runtime's    *)
(* parts, RobotApplication.start() brings them up, a session or the wait   *)
(* for a stop request serves, and stop() takes them down; any step may     *)
(* fail, and one shutdown signal may come at any await.                    *)
(***************************************************************************)
EXTENDS Naturals, Sequences, FiniteSets

CONSTANTS
  Modes,       \* "console" (also diagnostics) and "run", the headless mode
  MaxFailures  \* of steps that take down (bound)

ASSUME LifecycleAssumption == Modes \subseteq {"console", "run"} /\ MaxFailures \in Nat

(* The builders, and last the application object, whose constructor may    *)
(* raise with every store open.                                            *)
Composed ==
  <<"camera", "media", "memory", "history", "jobs", "workspaces", "application">>

(* The awaited or called steps of each function, in its order.  Steps that *)
(* are no component: "application" (its constructor), "profile" (the first *)
(* platform snapshot), "ledger" (reconciling Runs), "cognition" (prepare), *)
(* "baseline", "sample", "announce" (ApplicationStarted), "ready" and      *)
(* "session".                                                              *)
Program == [
  compose |-> Composed,
  undo    |-> <<"workspaces", "jobs", "history", "memory", "media", "camera">>,
  boot    |-> <<"profile", "events", "ledger", "hardware", "body", "camera",
                "reflexes", "cognition">>,
  unwind  |-> <<"reflexes", "camera", "body", "hardware", "events", "memory",
                "workspaces", "jobs">>,
  open    |-> <<"attention", "sms", "baseline", "sample", "announce", "platform",
                "power", "voice", "continuation", "scheduler", "ready">>,
  serve   |-> <<"session">>,
  stop    |-> <<"earcon", "sms", "scheduler", "continuation", "voice", "operator",
                "jobwork", "temporal", "ledger", "attention", "platform", "power",
                "reflexes", "camera", "body", "hardware", "events", "memory",
                "history", "media", "workspaces", "jobs">>,
  done    |-> <<"exit">>]

(* What comes and goes by itself while the application runs.               *)
Activities == {"operator", "jobwork", "temporal", "earcon"}

Components ==
  Activities \cup {"camera", "media", "memory", "history", "jobs", "workspaces",
    "events", "hardware", "body", "reflexes", "attention", "sms", "platform",
    "power", "voice", "continuation", "scheduler"}

(* Steps that suspend the work, so that others run and a cancellation may  *)
(* arrive; the others are plain calls.                                     *)
Awaits(phase) ==
  CASE phase \in {"compose", "undo", "done"} -> {}
    [] phase = "boot" -> {"body", "reflexes", "cognition"}
    [] phase = "open" -> {"sms", "baseline", "sample", "announce", "ready"}
    [] phase = "serve" -> {"session"}
    [] OTHER -> {"earcon", "sms", "scheduler", "continuation", "voice", "operator",
                 "jobwork", "temporal", "attention", "platform", "power",
                 "reflexes", "body", "events"}

(* Steps of start() that may raise, and those that may leave a part behind *)
(* when they do.                                                           *)
Raising == {"profile", "ledger", "hardware", "body", "camera", "reflexes", "cognition",
            "sms", "baseline", "ready"}
Partial == {"body", "camera", "reflexes"}

VARIABLES
  mode,
  probed,    \* camera = "auto": composition starts it to see whether it is there
  at,        \* the work: [phase, step]
  failure,   \* the step of start() that raised or was cancelled
  alive,     \* components begun and not ended
  gone,      \* components taken down
  broken,    \* components whose own stop raised or was cancelled
  asked,     \* the shutdown request: "no", "received" by the handler, "answered"
  cleanup    \* cleanup_started, which the console's finally sets

processVars == <<mode, probed, at, failure, alive, gone, broken, asked, cleanup>>

Here == Program[at.phase][at.step]
Suspended == Here \in Awaits(at.phase)
Enter(phase) == at' = [phase |-> phase, step |-> 1]
Advance(next) ==
  IF at.step < Len(Program[at.phase]) THEN at' = [at EXCEPT !.step = @ + 1]
                                      ELSE Enter(next)

(* LifecycleState: stop() and the failing start() say STOPPED as they come *)
(* to the bus.                                                             *)
state ==
  CASE at.phase \in {"compose", "undo"} -> "created"
    [] at.phase = "boot" -> "starting"
    [] at.phase = "unwind" -> IF at.step < 5 THEN "starting" ELSE "stopped"
    [] at.phase \in {"open", "serve"} -> "running"
    [] at.phase = "stop" -> IF at.step < 17 THEN "stopping" ELSE "stopped"
    [] OTHER -> "stopped"

ProcessInit ==
  /\ mode \in Modes
  /\ probed \in BOOLEAN
  /\ at = [phase |-> "compose", step |-> 1]
  /\ failure = "none"
  /\ alive = {} /\ gone = {} /\ broken = {}
  /\ asked = "no"
  /\ cleanup = FALSE

----------------------------------------------------------------------------
(* _run_application: the builders, and the ExitStack that closes what they *)
(* opened when a later one raises.  Media and a probed camera may turn out *)
(* to be unavailable.                                                      *)
Optional == {"camera", "media"}

Compose ==
  /\ at.phase = "compose"
  /\ \/ Here \notin Optional /\ alive' = alive \cup ({Here} \cap Components)
     \/ Here = "camera" /\ ~probed /\ UNCHANGED alive
     \/ Here \in Optional /\ (Here = "camera" => probed)
        /\ alive' \in {alive, alive \cup {Here}}
  /\ Advance("boot")
  /\ UNCHANGED <<mode, probed, failure, gone, broken, asked, cleanup>>

ComposeFails ==
  /\ at.phase = "compose"
  /\ Enter("undo")
  /\ UNCHANGED <<mode, probed, failure, alive, gone, broken, asked, cleanup>>

----------------------------------------------------------------------------
(* start(): a camera that was probed in vain is no longer configured.      *)
Configured(c) == c = "camera" /\ probed => c \in alive

StartPart ==
  /\ at.phase \in {"boot", "open"}
  /\ alive' = IF Configured(Here) THEN alive \cup ({Here} \cap Components) ELSE alive
  /\ IF at.phase = "boot" THEN Advance("open") ELSE Advance("serve")
  /\ UNCHANGED <<mode, probed, failure, gone, broken, asked, cleanup>>

(* The caller's finally: run(), _run_console_application or diagnostics.   *)
Finally ==
  /\ Enter("stop")
  /\ cleanup' = (mode = "console")

(* Inside its try, start() undoes its steps itself; before it, and late in *)
(* the start, the caller's finally has to; in between start() calls stop().*)
Abandon ==
  IF at.phase = "boot" /\ Here # "profile" THEN Enter("unwind") /\ UNCHANGED cleanup
  ELSE IF Here \in {"sms", "baseline"} THEN Enter("stop") /\ UNCHANGED cleanup
  ELSE Finally

Interrupted ==
  /\ failure' = Here
  /\ alive' \in {alive} \cup IF Here \in Partial /\ Configured(Here)
                             THEN {alive \cup {Here}} ELSE {}
  /\ Abandon
  /\ UNCHANGED <<mode, probed, gone, broken>>

StartFails ==
  /\ at.phase \in {"boot", "open"} /\ Here \in Raising
  /\ Interrupted
  /\ UNCHANGED asked

(* The console's session ends or raises; run() waits for the stop request. *)
SessionEnds ==
  /\ at.phase = "serve"
  /\ mode = "run" => asked = "answered"
  /\ Finally
  /\ UNCHANGED <<mode, probed, failure, alive, gone, broken, asked>>

----------------------------------------------------------------------------
(* Taking down.  start() stops the camera only if it came to starting it,  *)
(* so one that was probed is passed over when an earlier step has failed.  *)
TakingDown == at.phase \in {"undo", "unwind", "stop"}

PassedOver ==
  /\ at.phase = "unwind" /\ Here = "camera"
  /\ failure \notin {"camera", "reflexes", "cognition"}

Stop ==
  /\ TakingDown
  /\ IF PassedOver THEN UNCHANGED <<alive, gone>>
     ELSE alive' = alive \ {Here} /\ gone' = gone \cup ({Here} \cap Components)
  /\ Advance("done")
  /\ UNCHANGED <<mode, probed, failure, broken, asked, cleanup>>

(* Each step has a try of its own, which also swallows a cancellation; the *)
(* component may be left as it was.                                        *)
Swallowed ==
  /\ broken' = broken \cup ({Here} \cap Components)
  /\ \/ alive' = alive \ {Here} /\ gone' = gone \cup ({Here} \cap Components)
     \/ UNCHANGED <<alive, gone>>
  /\ Advance("done")
  /\ UNCHANGED <<mode, probed, failure, cleanup>>

(* The others only join tasks with return_exceptions, or have no step.     *)
StopRaises == {"sms", "voice", "ledger", "attention", "reflexes", "camera", "body",
               "hardware", "events", "memory", "history", "media", "workspaces", "jobs"}

StopFailsOutright ==
  /\ TakingDown /\ Here \in StopRaises /\ ~PassedOver
  /\ Enter("done")
  /\ UNCHANGED <<mode, probed, failure, alive, gone, broken, asked, cleanup>>

StopFails ==
  /\ TakingDown /\ Here \in StopRaises /\ ~PassedOver
  /\ Cardinality(broken) < MaxFailures
  /\ Swallowed
  /\ UNCHANGED asked

----------------------------------------------------------------------------
(* SIGTERM, or SIGINT where it is enabled: the handler sets an event, and  *)
(* what waits for it decides when its turn comes.                          *)
Signal ==
  /\ asked = "no" /\ Suspended
  /\ asked' = "received"
  /\ UNCHANGED <<mode, probed, at, failure, alive, gone, broken, cleanup>>

(* Headless, the request cancels a start that is under way and otherwise   *)
(* only wakes run(); the console is cancelled unless it is cleaning up.    *)
CancelsConsole == mode = "console" /\ ~cleanup

Cancels ==
  IF mode = "run" THEN state \in {"created", "starting"} ELSE ~cleanup

RequestJoined ==
  /\ asked = "received" /\ Suspended /\ ~Cancels
  /\ asked' = "answered"
  /\ UNCHANGED <<mode, probed, at, failure, alive, gone, broken, cleanup>>

(* The one await of stop() outside a try is the first.                     *)
Cancelled ==
  /\ asked = "received" /\ Suspended /\ Cancels
  /\ asked' = "answered"
  /\ CASE at.phase \in {"boot", "open"} -> Interrupted
       [] at.phase = "serve" \/ Here = "earcon" ->
            Finally /\ UNCHANGED <<mode, probed, failure, alive, gone, broken>>
       [] OTHER -> Swallowed

----------------------------------------------------------------------------
(* Everything that answers somebody begins only while RUNNING; work that   *)
(* is ending queues an earcon whatever the state.                          *)
BeginUntilStopped(a) ==
  /\ Suspended /\ state # "stopped"
  /\ a \notin alive
  /\ alive' = alive \cup {a}
  /\ UNCHANGED <<mode, probed, at, failure, gone, broken, asked, cleanup>>

Begin(a) ==
  /\ Suspended /\ state = "running"
  /\ a \notin alive
  /\ alive' = alive \cup {a}
  /\ UNCHANGED <<mode, probed, at, failure, gone, broken, asked, cleanup>>

End(a) ==
  /\ Suspended
  /\ a \in alive
  /\ \/ alive' = alive \ {a}
     \/ a = "jobwork" /\ alive' = (alive \ {a}) \cup {"earcon"}
  /\ UNCHANGED <<mode, probed, at, failure, gone, broken, asked, cleanup>>

Work == Compose \/ ComposeFails \/ StartPart \/ StartFails \/ SessionEnds \/ Stop \/ StopFails

ProcessNext ==
  \/ Work
  \/ Signal \/ RequestJoined \/ Cancelled
  \/ \E a \in Activities : Begin(a) \/ End(a)

ProcessSpec == ProcessInit /\ [][ProcessNext]_processVars

(* The loop runs whatever is ready.  Nothing bounds the provider's answer  *)
(* in prepare() nor the operator's session.                                *)
Bounded == ~(at.phase = "boot" /\ Here = "cognition") /\ ~(at.phase = "serve" /\ mode = "console")
Fairness ==
  /\ WF_processVars(Bounded /\ Work)
  /\ WF_processVars(RequestJoined \/ Cancelled)

ProcessFairSpec == ProcessSpec /\ Fairness

----------------------------------------------------------------------------
(* What the code forgets: a start that undoes itself closes neither the    *)
(* conversation history nor the media store, nor a probed camera it has    *)
(* not come to; the stop() that follows finds STOPPED and returns.  An     *)
(* earcon queued during stop() is left to asyncio's own cleanup.           *)
LeftBehind ==
  {"earcon"} \cup IF failure \in {"ledger", "hardware", "body", "camera", "reflexes", "cognition"}
                  THEN {"history", "media", "camera"} ELSE {}

(* However the process ends -- composition, start or a stop fails, or the  *)
(* signal comes anywhere -- every component whose own stop did not fail    *)
(* has been taken down, but those of LeftBehind: after a start that failed *)
(* and undid itself the history, the media store and a probed camera, and  *)
(* an earcon queued late.                                                  *)
Unwound == at.phase = "done" => alive \subseteq broken \cup LeftBehind

(* What each component calls while it lives.                               *)
Uses == [c \in Components |->
  CASE c = "body" -> {"hardware"}
    [] c = "reflexes" -> {"events", "body"}
    [] c = "platform" -> {"events"}
    [] c = "power" -> {"events", "hardware"}
    [] c = "temporal" -> {"events"}
    [] c = "attention" -> {"events", "body", "camera", "memory", "history"}
    [] c = "operator" -> {"events", "body", "camera", "memory", "history", "media", "jobs",
                          "workspaces"}
    [] c = "jobwork" -> {"events", "camera", "memory", "jobs", "workspaces"}
    [] c \in {"continuation", "scheduler"} -> {"jobs"}
    [] c = "sms" -> {"media"}
    [] OTHER -> {}]

(* Nothing that still lives uses what has been taken down before it, on    *)
(* any of the ways down.                                                   *)
DependenciesOutlive == \A c \in alive \ broken : Uses[c] \cap gone = {}

(* Whoever asks the process to end is not left waiting: not by a provider  *)
(* that never answers prepare(), nor by a cleanup the request has met.     *)
ShutdownEnds == asked # "no" ~> at.phase = "done"
=============================================================================
