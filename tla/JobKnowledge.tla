---------------------------- MODULE JobKnowledge ----------------------------
(***************************************************************************)
(* What one Job learns from its own Runs: the focus carried forward, the   *)
(* procedure the operator reviews, the evidence of each occurrence and the *)
(* Findings; and what other readers are shown of them.                     *)
(***************************************************************************)
EXTENDS Integers, FiniteSets, FiniteSetsExt

CONSTANTS
  None,
  Definitions,    \* identities the Job's definition can have
  MaxRuns,        \* bound: Runs of the Job in a behaviour
  MaxVersions,    \* bound: procedures nominated in a behaviour
  MaxRetained     \* MAX_PROCEDURE_RUNS

ASSUME KnowledgeAssumption ==
  /\ MaxRuns \in Nat /\ MaxVersions \in Nat /\ MaxRetained \in Nat \ {0}
  /\ Definitions # {} /\ None \notin Definitions \cup (1..MaxRuns)

VARIABLES
  job,       \* its durable row: [def, carry, proc, focus, active, pending, version]
  runs,      \* its Runs: [status, evidence, finding]
  ctx,       \* the execution context of the live Run, with what its model was last told
  seen,      \* history: procedure versions the operator was shown
  accepted,  \* history: versions the operator activated, with the Job's definition then
  given      \* history: the procedure versions each Run was given

vars == <<job, runs, ctx, seen, accepted, given>>

RunIds == 1..MaxRuns
Live == {"pending", "running"}
Ended == {"completed", "failed", "stopped", "interrupted"}
NoRun == [status |-> "none", evidence |-> None, finding |-> FALSE]

Init ==
  /\ \E d \in Definitions, experiment \in BOOLEAN :
       job = [def |-> d, carry |-> FALSE, proc |-> experiment, focus |-> None,
              active |-> None, pending |-> None, version |-> 0]
  /\ runs = [r \in RunIds |-> NoRun]
  /\ ctx = None
  /\ seen = {} /\ accepted = {} /\ given = {}

-----------------------------------------------------------------------------
\* The operator at the console.  Everything but the kill switch and the triggers and
\* schedule, which are part of the definition, waits for the Job's Run to end.
AtRest == ctx = None

SetCarryForward ==
  /\ AtRest
  /\ \E enabled \in BOOLEAN : job' = [job EXCEPT !.carry = enabled]
  /\ UNCHANGED <<runs, ctx, seen, accepted, given>>

SetProcedureEnabled(enabled) ==
  /\ enabled => AtRest
  /\ job' = [job EXCEPT !.proc = enabled]
  /\ UNCHANGED <<runs, ctx, seen, accepted, given>>

EditDefinition(d) ==
  /\ job' = [job EXCEPT !.def = d]
  /\ UNCHANGED <<runs, ctx, seen, accepted, given>>

ShowProcedure ==
  /\ job.pending # None
  /\ seen' = seen \cup {job.pending.version}
  /\ UNCHANGED <<job, runs, ctx, accepted, given>>

\* Completed Runs of the Job are what its knowledge may come from.
Completed(r) == runs[r].status = "completed"
Applicable == [source : {r \in RunIds : Completed(r)}, def : {job.def}]

AdministerFocus ==
  /\ AtRest
  /\ \E focus \in {None} \cup Applicable :
       /\ focus # None => job.carry
       /\ job' = [job EXCEPT !.focus = focus]
  /\ UNCHANGED <<runs, ctx, seen, accepted, given>>

\* The row after a nomination: a pending procedure is never replaced.
Nominated(source) ==
  IF job.pending # None THEN job
  ELSE [job EXCEPT !.version = @ + 1,
                   !.pending = [version |-> job.version + 1, def |-> job.def, source |-> source]]

SeedProcedure ==
  /\ AtRest /\ job.proc /\ job.version < MaxVersions
  /\ \E source \in {None} \cup {r \in RunIds : Completed(r)} : job' = Nominated(source)
  /\ seen' = seen \cup {job'.pending.version}
  /\ UNCHANGED <<runs, ctx, accepted, given>>

\* The operator names a version it was shown, perhaps a while ago.
Reviewed(v, activate) ==
  /\ job.pending # None /\ job.pending.version = v
  /\ activate => job.proc /\ job.pending.def = job.def

ReviewProcedure(v, activate) ==
  /\ AtRest /\ v \in seen
  /\ Reviewed(v, activate)
  /\ job' = [job EXCEPT !.pending = None, !.active = IF activate THEN job.pending ELSE @]
  /\ accepted' = IF activate THEN accepted \cup {[version |-> v, def |-> job.def]} ELSE accepted
  /\ UNCHANGED <<runs, ctx, seen, given>>

-----------------------------------------------------------------------------
\* An occurrence starts: what it may be told is fixed before its Run is running.
WithEvidence == {r \in RunIds : runs[r].evidence # None}
Retained == {r \in WithEvidence : runs[r].status \in Live
               \/ Cardinality({s \in WithEvidence : s > r /\ runs[s].status \in Ended}) < MaxRetained - 1}

Captured ==
  [def |-> job.def, supplied |-> FALSE, feedback |-> 0, disposition |-> "none",
   snapshot |-> IF job.active # None /\ job.active.def = job.def THEN job.active.version ELSE 0]

Capture(r, status) ==
  runs' = [s \in RunIds |->
             IF s = r THEN [NoRun EXCEPT !.status = status,
                                         !.evidence = IF job.proc THEN Captured ELSE None]
             ELSE IF job.proc /\ s \notin Retained THEN [runs[s] EXCEPT !.evidence = None]
             ELSE runs[s]]

CapturedFocus ==
  IF job.focus # None /\ job.focus.def = job.def THEN job.focus ELSE None

\* The start may fail after the capture was committed, and its compensation too.
StartOccurrence(r) ==
  /\ AtRest
  /\ runs[r].status = "none" /\ \A s \in 1..(r-1) : runs[s].status \in Ended
  /\ \/ /\ Capture(r, "running")
        /\ ctx' = [run |-> r, task |-> "running", stage |-> "idle", proposal |-> None,
                   told |-> {}, under |-> None,
                   focusDef |-> IF job.carry THEN job.def ELSE None,
                   focus |-> IF job.carry THEN CapturedFocus ELSE None,
                   proc |-> IF job.proc
                            THEN [def |-> job.def, snapshot |-> Captured.snapshot] ELSE None]
     \/ /\ \E status \in {"stopped", "pending"} : Capture(r, status)
        /\ UNCHANGED ctx
  /\ UNCHANGED <<job, seen, accepted, given>>

\* The process is killed and started again: what was live is interrupted, nothing resumes.
Restart ==
  /\ \E r \in RunIds : runs[r].status \in Live
  /\ runs' = [r \in RunIds |->
                IF runs[r].status \in Live THEN [runs[r] EXCEPT !.status = "interrupted"] ELSE runs[r]]
  /\ ctx' = None
  /\ UNCHANGED <<job, seen, accepted, given>>

-----------------------------------------------------------------------------
\* The policies as they are now, against what the occurrence was started with.
FocusPolicy == ctx.focusDef # None /\ job.carry /\ ctx.focusDef = job.def
ProcedurePolicy == ctx.proc # None /\ job.proc /\ ctx.proc.def = job.def

Working == ctx # None /\ ctx.task = "running" /\ runs[ctx.run].status = "running"

\* What instructions composed now would say of the Job's own past.
Composed ==
  (IF FocusPolicy /\ ctx.focus # None
   THEN {[kind |-> "focus", of |-> ctx.focus.source, def |-> ctx.focus.def]} ELSE {})
  \cup
  (IF ProcedurePolicy /\ ctx.proc.snapshot # 0
   THEN {[kind |-> "procedure", of |-> ctx.proc.snapshot, def |-> ctx.proc.def]} ELSE {})

\* A request with these instructions goes to the provider; the Job is what it is then.
Sends(told, stage, proposal) ==
  /\ LET methods == {g \in told : g.kind = "procedure"} IN
     /\ given' = given \cup {[run |-> ctx.run, of |-> g.of] : g \in methods}
     /\ runs' = IF methods = {} THEN runs ELSE [runs EXCEPT ![ctx.run].evidence.supplied = TRUE]
  /\ ctx' = [ctx EXCEPT !.stage = stage, !.proposal = proposal, !.told = told,
                        !.under = [def |-> job.def, proc |-> job.proc]]
  /\ UNCHANGED <<job, seen, accepted>>

\* The work of an episode: each request composes its instructions, and so does each
\* continuation after a tool call.
Compose ==
  /\ Working /\ ctx.stage \in {"idle", "working"}
  /\ Sends(Composed, "working", None)

PublishFinding ==
  /\ Working /\ ctx.stage = "working"
  /\ runs' = [runs EXCEPT ![ctx.run].finding = TRUE]
  /\ UNCHANGED <<job, ctx, seen, accepted, given>>

\* The model is asked for the outcome of the work.
BeginEvaluation ==
  /\ Working /\ ctx.stage = "working"
  /\ Sends(Composed, "evaluating", None)

\* The model reports an outcome; it is checked now and committed after the reply.
Proposals ==
  [status : {"completed", "failed"}, focus : {"keep", "set", "clear"},
   candidate : BOOLEAN, feedback : 0..MaxVersions]

Acceptable(p) ==
  /\ p.focus # "keep" => p.status = "completed" /\ FocusPolicy
  /\ p.candidate \/ p.feedback # 0 => ProcedurePolicy
  /\ p.candidate => p.status = "completed" /\ job.version < MaxVersions
  /\ p.feedback # 0 => /\ runs[ctx.run].evidence.supplied
                       /\ ctx.proc.snapshot = p.feedback

\* Mutant of Answer: instructions are never composed again.
AnswerRepeats(proposal) ==
  /\ Working /\ ctx.stage = "evaluating"
  /\ Sends(ctx.told, "answered", proposal)

\* The call is answered at once, accepted or not.  The answer repeats the instructions of
\* the evaluation as they were, unless the occurrence has a procedure snapshot: only then
\* they are composed again.
Answer(proposal) ==
  /\ Working /\ ctx.stage = "evaluating"
  /\ Sends(IF ctx.proc # None THEN Composed ELSE ctx.told, "answered", proposal)

Propose(p) == Working /\ Acceptable(p) /\ Answer(p)

\* The transaction of transition_run: the outcome and all that comes with it.
Learnt(e, p) ==
  IF ~p.candidate /\ p.feedback = 0 THEN e
  ELSE [e EXCEPT !.feedback = p.feedback,
                 !.disposition = IF ~p.candidate THEN e.disposition
                                 ELSE IF job.pending = None THEN "proposed" ELSE "pending_exists"]

Outcome(p) ==
  /\ job' = [(IF p.candidate THEN Nominated(ctx.run) ELSE job) EXCEPT
               !.focus = CASE p.focus = "set" -> [source |-> ctx.run, def |-> job.def]
                           [] p.focus = "clear" -> None
                           [] OTHER -> @]
  /\ runs' = [runs EXCEPT ![ctx.run].status = p.status,
                          ![ctx.run].evidence = Learnt(@, p)]

\* Mutant of RolledBack: the nomination was committed before the outcome failed.
NominationKept(p) ==
  /\ job' = IF p.candidate THEN Nominated(ctx.run) ELSE job
  /\ UNCHANGED runs

\* Rolled back: nothing of it is there.
RolledBack(p) == UNCHANGED <<job, runs>>

\* What was checked at the call is checked again, for the wait in between.
StillAcceptable(p) ==
  /\ p.focus # "keep" => FocusPolicy
  /\ p.candidate \/ p.feedback # 0 => ProcedurePolicy

\* The context between two episodes.
EpisodeOver(task) ==
  [ctx EXCEPT !.task = task, !.stage = "idle", !.proposal = None, !.told = {}, !.under = None]

\* The episode is over: without an accepted outcome, with one that no longer holds, with
\* one whose transaction fails after the Task was finished, or with its outcome.
EndEpisode ==
  /\ Working /\ ctx.stage # "idle"
  /\ LET p == ctx.proposal IN
     \/ /\ p # None => ~StillAcceptable(p)
        /\ ctx' = EpisodeOver(ctx.task) /\ UNCHANGED <<job, runs>>
     \/ /\ p # None /\ StillAcceptable(p)
        /\ RolledBack(p)
        /\ ctx' = EpisodeOver(p.status)
     \/ /\ p # None /\ StillAcceptable(p)
        /\ Outcome(p)
        /\ ctx' = None
  /\ UNCHANGED <<seen, accepted, given>>

\* The operator, or a shutdown of the work, ends the Run; an episode under way is
\* cancelled.  After a failed transaction only the same outcome may be tried again.
FinishJobRun(status) ==
  /\ ctx # None
  /\ ctx.task # "running" => ctx.task = status
  /\ \/ /\ runs' = [runs EXCEPT ![ctx.run].status = status] /\ ctx' = None
     \/ ctx' = EpisodeOver(status) /\ UNCHANGED runs
  /\ UNCHANGED <<job, seen, accepted, given>>

-----------------------------------------------------------------------------
\* Other readers, which change nothing: who may be shown the result of a Run, its retained
\* report, what the Job last completed, or its Findings in a search.
ResultShown(r) == runs[r].status \in {"completed", "failed", "stopped"}
ReportShown(r) == runs[r].status \in Ended
LatestCompleted(r) == Completed(r) /\ \A s \in RunIds : Completed(s) => s <= r

\* Mutant of FindingShown: staged Findings are found.
StagedFindingShown(r) == runs[r].finding

FindingShown(r) == runs[r].finding /\ Completed(r)

Next ==
  \/ SetCarryForward \/ ShowProcedure \/ AdministerFocus \/ SeedProcedure
  \/ \E enabled \in BOOLEAN : SetProcedureEnabled(enabled)
  \/ \E d \in Definitions : EditDefinition(d)
  \/ \E v \in seen, activate \in BOOLEAN : ReviewProcedure(v, activate)
  \/ \E r \in RunIds : StartOccurrence(r)
  \/ Restart \/ Compose \/ PublishFinding \/ BeginEvaluation \/ Answer(None) \/ EndEpisode
  \/ \E p \in Proposals : Propose(p)
  \/ \E status \in {"completed", "failed", "stopped"} : FinishJobRun(status)

Spec == Init /\ [][Next]_vars

-----------------------------------------------------------------------------
\* Whatever the model was last told in an occurrence fitted the Job when it was sent: a
\* procedure is one the operator was shown and then activated under the definition of that
\* moment, and not switched off; a focus is of an earlier, completed Run and that
\* definition.  Enabling, editing, reviewing and starting happen in any order between the
\* nomination and the request.  One request is exempt from the last: with no procedure
\* snapshot the answer to the reported outcome repeats a focus that an edit during the
\* evaluation has made stale (app.py:3631-3632; docs/job-focus.md:120-121 has it withheld).
GuidanceReviewed ==
  ctx # None => \A g \in ctx.told :
    IF g.kind = "procedure"
    THEN /\ ctx.under.proc /\ g.def = ctx.under.def
         /\ [version |-> g.of, def |-> g.def] \in accepted
    ELSE /\ job.carry /\ g.of < ctx.run /\ Completed(g.of)
         /\ g.def = ctx.under.def \/ (ctx.stage = "answered" /\ ctx.proc = None)

\* What a Run taught is durable only with the outcome it was reported with: there is no
\* focus, procedure or nomination of a Run that did not complete, and feedback is about
\* the text this Run was given.
KnowledgeWithOutcome ==
  /\ \A k \in {job.focus, job.active, job.pending} \ {None} :
       k.source # None => Completed(k.source)
  /\ \A r \in WithEvidence : LET e == runs[r].evidence IN
       /\ e.disposition # "none" => Completed(r)
       /\ e.feedback # 0 => /\ runs[r].status \in {"completed", "failed"}
                           /\ [run |-> r, of |-> e.feedback] \in given

\* What a reader may be shown of a Run stays so: a result, a report or a Finding never
\* belongs to a Run whose outcome later turns out to be another.
ShownStays ==
  [][\A r \in RunIds :
       ResultShown(r) \/ ReportShown(r) \/ LatestCompleted(r) \/ FindingShown(r)
         => runs'[r].status = runs[r].status]_vars
=============================================================================
