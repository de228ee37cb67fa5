------------------------- MODULE JobKnowledge_proofs -------------------------
(***************************************************************************)
(* What a Job knows and what is shown of its Runs, for any definitions and *)
(* any number of Runs and procedure versions.  The strengthening: the Run  *)
(* of a live context is running, Runs begin in the order of their numbers, *)
(* an accepted proposal carries what its checks established when it was    *)
(* made, a captured procedure or focus was fit when it was captured, and   *)
(* what was last told is one of these, composed under the definition that  *)
(* is remembered with it or repeated from an earlier request.              *)
(***************************************************************************)
EXTENDS JobKnowledge, TLAPS

Statuses == {"none"} \cup Live \cup Ended
Focus == [source : RunIds, def : Definitions]
Procedure == [version : Nat, def : Definitions, source : {None} \cup RunIds]
Evidence == [def : Definitions, supplied : BOOLEAN, feedback : Nat,
             disposition : {"none", "proposed", "pending_exists"}, snapshot : Nat]
JobRow == [def : Definitions, carry : BOOLEAN, proc : BOOLEAN, focus : {None} \cup Focus,
           active : {None} \cup Procedure, pending : {None} \cup Procedure, version : Nat]
RunRow == [status : Statuses, evidence : {None} \cup Evidence, finding : BOOLEAN]
Guidance == [kind : {"focus", "procedure"}, of : Nat, def : Definitions]
Context == [run : RunIds, task : {"running", "completed", "failed", "stopped"},
            stage : {"idle", "working", "evaluating", "answered"},
            proposal : {None} \cup Proposals, told : SUBSET Guidance,
            under : {None} \cup [def : Definitions, proc : BOOLEAN],
            focusDef : {None} \cup Definitions, focus : {None} \cup Focus,
            proc : {None} \cup [def : Definitions, snapshot : Nat]]

TypeInv ==
  /\ job \in JobRow
  /\ runs \in [RunIds -> RunRow]
  /\ ctx \in {None} \cup Context

LiveContext == ctx # None => runs[ctx.run].status = "running"

InOrder ==
  \A r \in RunIds : \A s \in 1..(r-1) : runs[r].status # "none" => runs[s].status # "none"

\* What was checked when the proposal was made.
Checked ==
  ctx # None /\ ctx.proposal # None =>
    /\ ctx.proposal.focus # "keep" \/ ctx.proposal.candidate => ctx.proposal.status = "completed"
    /\ ctx.proposal.feedback # 0 => /\ runs[ctx.run].evidence.supplied
                                    /\ ctx.proc.snapshot = ctx.proposal.feedback

\* Evidence of a supplied text names what was given.
Supplied ==
  ctx # None /\ ctx.proc # None =>
    /\ runs[ctx.run].evidence \in Evidence
    /\ runs[ctx.run].evidence.feedback = 0 /\ runs[ctx.run].evidence.disposition = "none"
    /\ runs[ctx.run].evidence.supplied => [run |-> ctx.run, of |-> ctx.proc.snapshot] \in given

Activated ==
  /\ job.active # None => [version |-> job.active.version, def |-> job.active.def] \in accepted
  /\ ctx # None /\ ctx.proc # None /\ ctx.proc.snapshot # 0 =>
       [version |-> ctx.proc.snapshot, def |-> ctx.proc.def] \in accepted

Carried ==
  ctx # None /\ ctx.focus # None =>
    /\ job.carry /\ ctx.focus \in Focus /\ ctx.focus.def = ctx.focusDef
    /\ ctx.focus.source < ctx.run /\ Completed(ctx.focus.source)

\* A text of the occurrence may be sent in a request of this stage, of a Job whose row
\* has this definition and this procedure policy.
FitsUnder(g, stage, def, proc) ==
  IF g.kind = "procedure"
  THEN /\ ctx.proc # None /\ ctx.proc.snapshot # 0
       /\ g.of = ctx.proc.snapshot /\ g.def = ctx.proc.def
       /\ proc /\ g.def = def
  ELSE /\ ctx.focus # None /\ g.of = ctx.focus.source /\ g.def = ctx.focus.def
       /\ g.def = def \/ (stage = "answered" /\ ctx.proc = None)

ToldFits ==
  ctx # None =>
    \A g \in ctx.told : FitsUnder(g, ctx.stage, ctx.under.def, ctx.under.proc)

IInv == /\ TypeInv /\ LiveContext /\ InOrder /\ KnowledgeWithOutcome
        /\ Checked /\ Supplied /\ Activated /\ Carried /\ ToldFits

-----------------------------------------------------------------------------
\* Runs are numbered without a gap.
LEMMA RunIdsNat == \A r \in RunIds : r \in Nat /\ \A s \in 1..(r-1) : s \in RunIds
BY KnowledgeAssumption DEF RunIds

\* It holds of the empty store.
LEMMA InitInv == Init => IInv
<1> SUFFICES ASSUME Init PROVE IInv
  OBVIOUS
<1>1. TypeInv
  BY DEF Init, TypeInv, JobRow, RunRow, Statuses, NoRun
<1>2. LiveContext /\ InOrder /\ Checked /\ Supplied /\ Activated /\ Carried /\ ToldFits
  BY RunIdsNat DEF Init, LiveContext, InOrder, Checked, Supplied, Activated, Carried, NoRun, ToldFits
<1>3. KnowledgeWithOutcome
  BY DEF Init, KnowledgeWithOutcome, WithEvidence, NoRun
<1>4. QED
  BY <1>1, <1>2, <1>3 DEF IInv

\* What the operator does to the row, while no procedure is activated.
LEMMA RowKeeps ==
  ASSUME IInv, UNCHANGED <<runs, ctx, given>>, accepted \subseteq accepted', job' \in JobRow,
         ctx # None => job'.carry = job.carry,
         job'.active # None => [version |-> job'.active.version, def |-> job'.active.def] \in accepted',
         \A k \in {job'.focus, job'.active, job'.pending} \ {None} :
           k.source # None => Completed(k.source)
  PROVE  IInv'
<1>1. /\ TypeInv' /\ LiveContext' /\ InOrder' /\ Checked' /\ Supplied' /\ Activated' /\ Carried'
      /\ ToldFits'
  BY DEF IInv, TypeInv, LiveContext, InOrder, Checked, Supplied, Activated, Carried, Completed,
         ToldFits, FitsUnder
<1>2. KnowledgeWithOutcome'
  BY DEF IInv, KnowledgeWithOutcome, WithEvidence, Completed
<1>3. QED
  BY <1>1, <1>2 DEF IInv

\* A nomination of a completed Run, or of none.
LEMMA NominatedKeeps ==
  ASSUME job \in JobRow, NEW source \in {None} \cup RunIds
  PROVE  /\ Nominated(source) \in JobRow
         /\ Nominated(source).active = job.active /\ Nominated(source).focus = job.focus
         /\ Nominated(source).def = job.def /\ Nominated(source).carry = job.carry
         /\ \/ Nominated(source).pending = job.pending
            \/ Nominated(source).pending.source = source
<1>1. CASE job.pending # None
  BY <1>1 DEF Nominated
<1>2. CASE job.pending = None
  <2> DEFINE new == [version |-> job.version + 1, def |-> job.def, source |-> source]
  <2>1. new \in Procedure /\ new.source = source
    BY DEF Procedure, JobRow
  <2>2. Nominated(source) = [job EXCEPT !.version = @ + 1, !.pending = new]
    BY <1>2 DEF Nominated
  <2> HIDE DEF new
  <2>3. /\ Nominated(source).active = job.active /\ Nominated(source).focus = job.focus
        /\ Nominated(source).def = job.def /\ Nominated(source).pending = new
        /\ Nominated(source).carry = job.carry
    BY <2>2 DEF JobRow
  <2>4. job.version + 1 \in Nat
    BY DEF JobRow
  <2>5. Nominated(source) \in JobRow
    BY <2>1, <2>2, <2>4 DEF JobRow
  <2>6. QED
    BY <2>1, <2>3, <2>5
<1>3. QED
  BY <1>1, <1>2

\* What the operator does to a Job, its focus and its procedures.
LEMMA OperatorKeeps ==
  ASSUME IInv,
         \/ SetCarryForward \/ ShowProcedure \/ AdministerFocus \/ SeedProcedure
         \/ \E enabled \in BOOLEAN : SetProcedureEnabled(enabled)
         \/ \E d \in Definitions : EditDefinition(d)
         \/ \E v \in seen, activate \in BOOLEAN : ReviewProcedure(v, activate)
  PROVE  IInv'
<1>0. job \in JobRow
  BY DEF IInv, TypeInv
<1>a. /\ job.active # None => [version |-> job.active.version, def |-> job.active.def] \in accepted
      /\ \A k \in {job.focus, job.active, job.pending} \ {None} : k.source # None => Completed(k.source)
  BY DEF IInv, Activated, KnowledgeWithOutcome
<1>1. CASE SetCarryForward \/ ShowProcedure
  <2>1. /\ job' \in JobRow /\ job'.active = job.active /\ job'.focus = job.focus /\ job'.pending = job.pending
        /\ (ctx # None => job'.carry = job.carry)
    BY <1>0, <1>1 DEF SetCarryForward, ShowProcedure, JobRow, AtRest
  <2>2. UNCHANGED <<runs, ctx, given, accepted>>
    BY <1>1 DEF SetCarryForward, ShowProcedure
  <2>3. QED
    BY <1>a, <2>1, <2>2, RowKeeps
<1>2. CASE AdministerFocus
  <2>1. PICK focus \in {None} \cup Applicable : job' = [job EXCEPT !.focus = focus]
    BY <1>2 DEF AdministerFocus
  <2>2. focus \in {None} \cup Focus /\ (focus # None => Completed(focus.source))
    BY <1>0 DEF Applicable, Focus, JobRow
  <2>3. /\ job' \in JobRow /\ job'.active = job.active /\ job'.focus = focus /\ job'.pending = job.pending
        /\ job'.carry = job.carry
    BY <1>0, <2>1, <2>2 DEF JobRow
  <2>4. UNCHANGED <<runs, ctx, given, accepted>>
    BY <1>2 DEF AdministerFocus
  <2>5. QED
    BY <1>a, <2>2, <2>3, <2>4, RowKeeps
<1>3. CASE SeedProcedure
  <2>1. PICK source \in {None} \cup {r \in RunIds : Completed(r)} : job' = Nominated(source)
    BY <1>3 DEF SeedProcedure
  <2>2. UNCHANGED <<runs, ctx, given, accepted>>
    BY <1>3 DEF SeedProcedure
  <2>3. QED
    BY <1>0, <1>a, <2>1, <2>2, NominatedKeeps, RowKeeps
<1>4. ASSUME NEW enabled \in BOOLEAN, SetProcedureEnabled(enabled) PROVE IInv'
  <2>1. /\ job' \in JobRow /\ job'.active = job.active /\ job'.focus = job.focus /\ job'.pending = job.pending
        /\ job'.carry = job.carry
    BY <1>0, <1>4 DEF SetProcedureEnabled, JobRow
  <2>2. UNCHANGED <<runs, ctx, given, accepted>>
    BY <1>4 DEF SetProcedureEnabled
  <2>3. QED
    BY <1>a, <2>1, <2>2, RowKeeps
<1>5. ASSUME NEW d \in Definitions, EditDefinition(d) PROVE IInv'
  <2>1. /\ job' \in JobRow /\ job'.active = job.active /\ job'.focus = job.focus /\ job'.pending = job.pending
        /\ job'.carry = job.carry
    BY <1>0, <1>5 DEF EditDefinition, JobRow
  <2>2. UNCHANGED <<runs, ctx, given, accepted>>
    BY <1>5 DEF EditDefinition
  <2>3. QED
    BY <1>a, <2>1, <2>2, RowKeeps
<1>6. ASSUME NEW v \in seen, NEW activate \in BOOLEAN, ReviewProcedure(v, activate) PROVE IInv'
  <2>1. /\ job.pending # None /\ job.pending.version = v
        /\ activate => job.pending.def = job.def
        /\ job' = [job EXCEPT !.pending = None, !.active = IF activate THEN job.pending ELSE @]
        /\ accepted' = IF activate THEN accepted \cup {[version |-> v, def |-> job.def]} ELSE accepted
        /\ UNCHANGED <<runs, ctx, given>>
    BY <1>6 DEF ReviewProcedure, Reviewed
  <2>2. /\ job' \in JobRow /\ job'.active = (IF activate THEN job.pending ELSE job.active)
        /\ job'.focus = job.focus /\ job'.pending = None /\ job'.carry = job.carry
    BY <1>0, <2>1 DEF JobRow
  <2>3. job'.active # None => [version |-> job'.active.version, def |-> job'.active.def] \in accepted'
    BY <1>a, <2>1, <2>2
  <2>4. QED
    BY <1>a, <2>1, <2>2, <2>3, RowKeeps
<1>7. QED
  BY <1>1, <1>2, <1>3, <1>4, <1>5, <1>6

-----------------------------------------------------------------------------
\* The capture adds a Run with nothing learnt yet; of the others at most evidence goes.
LEMMA CaptureEffect ==
  ASSUME IInv, NEW r \in RunIds, NEW status \in Statuses, Capture(r, status)
  PROVE  /\ runs' \in [RunIds -> RunRow] /\ Captured \in Evidence
         /\ Captured.feedback = 0 /\ Captured.disposition = "none" /\ ~Captured.supplied
         /\ runs'[r].status = status /\ runs'[r].evidence = IF job.proc THEN Captured ELSE None
         /\ \A s \in RunIds \ {r} :
              /\ runs'[s].status = runs[s].status
              /\ runs'[s].evidence = None \/ runs'[s].evidence = runs[s].evidence
<1>1. job \in JobRow /\ runs \in [RunIds -> RunRow]
  BY DEF IInv, TypeInv
<1>2. job.active = None \/ job.active \in Procedure
  BY <1>1 DEF JobRow
<1>3. /\ Captured \in Evidence
      /\ Captured.feedback = 0 /\ Captured.disposition = "none" /\ ~Captured.supplied
  BY <1>1, <1>2 DEF Captured, Evidence, JobRow, Procedure
<1> DEFINE evidence == IF job.proc THEN Captured ELSE None
           row == [NoRun EXCEPT !.status = status, !.evidence = evidence]
<1>4. NoRun \in RunRow
  BY DEF NoRun, RunRow, Statuses
<1>5. row \in RunRow /\ row.status = status /\ row.evidence = evidence
  BY <1>3, <1>4 DEF RunRow
<1>6. ASSUME NEW s \in RunIds
      PROVE  /\ runs[s] \in RunRow
             /\ [runs[s] EXCEPT !.evidence = None] \in RunRow
             /\ [runs[s] EXCEPT !.evidence = None].status = runs[s].status
             /\ [runs[s] EXCEPT !.evidence = None].evidence = None
  BY <1>1 DEF RunRow
<1>7. runs' = [s \in RunIds |->
             IF s = r THEN row
             ELSE IF job.proc /\ s \notin Retained THEN [runs[s] EXCEPT !.evidence = None]
             ELSE runs[s]]
  BY DEF Capture
<1> HIDE DEF row
<1>8. runs' \in [RunIds -> RunRow]
  BY <1>5, <1>6, <1>7
<1>9. \A s \in RunIds \ {r} : runs'[s] \in {runs[s], [runs[s] EXCEPT !.evidence = None]}
  BY <1>7
<1>10. runs'[r] = row
  BY <1>7
<1>11. QED
  BY <1>3, <1>5, <1>6, <1>8, <1>9, <1>10

\* The start of a Run, which captures what it will be told.
LEMMA StartKeeps ==
  ASSUME IInv, NEW r \in RunIds, StartOccurrence(r) PROVE IInv'
<1>1. /\ ctx = None /\ runs[r].status = "none"
      /\ \A s \in 1..(r-1) : runs[s].status \in Ended
      /\ UNCHANGED <<job, seen, accepted, given>>
  BY DEF StartOccurrence, AtRest
<1>2. PICK status \in {"running", "stopped", "pending"} :
        /\ Capture(r, status)
        /\ \/ ctx' = None
           \/ /\ status = "running"
              /\ ctx' = [run |-> r, task |-> "running", stage |-> "idle", proposal |-> None,
                         told |-> {}, under |-> None,
                         focusDef |-> IF job.carry THEN job.def ELSE None,
                         focus |-> IF job.carry THEN CapturedFocus ELSE None,
                         proc |-> IF job.proc
                                  THEN [def |-> job.def, snapshot |-> Captured.snapshot] ELSE None]
  BY <1>1 DEF StartOccurrence
<1>3. status \in Statuses /\ status # "none" /\ ~(status = "completed")
  BY DEF Statuses, Live, Ended
<1>4. /\ runs' \in [RunIds -> RunRow] /\ Captured \in Evidence
      /\ Captured.feedback = 0 /\ Captured.disposition = "none" /\ ~Captured.supplied
      /\ runs'[r].status = status /\ runs'[r].evidence = IF job.proc THEN Captured ELSE None
      /\ \A s \in RunIds \ {r} :
           /\ runs'[s].status = runs[s].status
           /\ runs'[s].evidence = None \/ runs'[s].evidence = runs[s].evidence
  BY <1>2, <1>3, CaptureEffect
<1>5. \A s \in RunIds : Completed(s) => s # r /\ Completed(s)'
  BY <1>1, <1>4 DEF Completed
<1>6. InOrder'
  <2> SUFFICES ASSUME NEW t \in RunIds, NEW s \in 1..(t-1), runs'[t].status # "none"
               PROVE  runs'[s].status # "none"
    BY DEF InOrder
  <2>1. s \in RunIds /\ s # t
    BY RunIdsNat
  <2>2. CASE t = r
    BY <1>1, <1>4, <2>1, <2>2 DEF Ended
  <2>3. CASE t # r
    <3>1. runs[t].status # "none"
      BY <1>4, <2>3
    <3>2. runs[s].status # "none"
      BY <3>1 DEF IInv, InOrder
    <3>3. QED
      BY <1>1, <1>4, <2>1, <3>2
  <2>4. QED
    BY <2>2, <2>3
<1>7. KnowledgeWithOutcome'
  <2>1. \A k \in {job.focus, job.active, job.pending} \ {None} : k.source # None => Completed(k.source)'
    <3>1. \A k \in {job.focus, job.active, job.pending} \ {None} :
            k.source # None => Completed(k.source) /\ k.source \in RunIds
      BY DEF IInv, KnowledgeWithOutcome, TypeInv, JobRow, Focus, Procedure
    <3>2. QED
      BY <1>5, <3>1
  <2>2. \A s \in WithEvidence' :
          /\ runs'[s].evidence.disposition # "none" => Completed(s)'
          /\ runs'[s].evidence.feedback # 0 => /\ runs'[s].status \in {"completed", "failed"}
                                              /\ [run |-> s, of |-> runs'[s].evidence.feedback] \in given
    <3> SUFFICES ASSUME NEW s \in RunIds, runs'[s].evidence # None
                 PROVE  /\ runs'[s].evidence.disposition # "none" => Completed(s)'
                        /\ runs'[s].evidence.feedback # 0 =>
                             /\ runs'[s].status \in {"completed", "failed"}
                             /\ [run |-> s, of |-> runs'[s].evidence.feedback] \in given
      BY DEF WithEvidence
    <3>1. CASE s = r
      BY <1>4, <3>1
    <3>2. CASE s # r
      <4>1. runs'[s].evidence = runs[s].evidence /\ runs'[s].status = runs[s].status /\ s \in WithEvidence
        BY <1>4, <3>2 DEF WithEvidence
      <4>2. QED
        BY <1>5, <4>1 DEF IInv, KnowledgeWithOutcome
    <3>3. QED
      BY <3>1, <3>2
  <2>3. QED
    BY <1>1, <2>1, <2>2 DEF KnowledgeWithOutcome
<1>8. job \in JobRow
  BY DEF IInv, TypeInv
<1>9. CASE ctx' = None
  <2>1. TypeInv' /\ LiveContext' /\ Checked' /\ Supplied' /\ Activated' /\ Carried' /\ ToldFits'
    BY <1>1, <1>4, <1>8, <1>9
       DEF IInv, TypeInv, LiveContext, Checked, Supplied, Activated, Carried, ToldFits
  <2>2. QED
    BY <1>6, <1>7, <2>1 DEF IInv
<1>10. CASE ctx' # None
  <2>1. /\ status = "running"
        /\ ctx' = [run |-> r, task |-> "running", stage |-> "idle", proposal |-> None,
                   told |-> {}, under |-> None,
                   focusDef |-> IF job.carry THEN job.def ELSE None,
                   focus |-> IF job.carry THEN CapturedFocus ELSE None,
                   proc |-> IF job.proc
                            THEN [def |-> job.def, snapshot |-> Captured.snapshot] ELSE None]
    BY <1>2, <1>10
  <2>2. CapturedFocus \in {None} \cup Focus
        /\ (CapturedFocus # None => CapturedFocus = job.focus /\ job.focus.def = job.def)
    BY <1>8 DEF CapturedFocus, JobRow
  <2>3. Captured.snapshot \in Nat /\ job.def \in Definitions
    BY <1>4, <1>8 DEF Evidence, JobRow
  <2>4. ctx' \in Context
    BY <2>1, <2>2, <2>3 DEF Context
  <2>5. TypeInv' /\ LiveContext' /\ Checked'
    BY <1>1, <1>4, <1>8, <2>1, <2>4 DEF TypeInv, LiveContext, Checked
  <2>6. Supplied'
    <3>1. ctx'.proc # None => job.proc
      BY <2>1
    <3>2. QED
      BY <1>4, <2>1, <3>1 DEF Supplied
  <2>7. Activated'
    <3>1. ctx'.proc # None => job.proc /\ ctx'.proc.snapshot = Captured.snapshot /\ ctx'.proc.def = job.def
      BY <2>1
    <3>2. Captured.snapshot # 0 =>
            job.active # None /\ job.active.def = job.def /\ Captured.snapshot = job.active.version
      BY DEF Captured
    <3>3. QED
      BY <1>1, <3>1, <3>2 DEF IInv, Activated
  <2>8. Carried'
    <3> SUFFICES ASSUME ctx'.focus # None
                 PROVE  /\ job'.carry /\ ctx'.focus \in Focus /\ ctx'.focus.def = ctx'.focusDef
                        /\ ctx'.focus.source < ctx'.run
                        /\ runs'[ctx'.focus.source].status = "completed"
      BY DEF Carried, Completed
    <3>1. job.carry /\ ctx'.focus = job.focus /\ job.focus.def = job.def /\ ctx'.focusDef = job.def
          /\ ctx'.run = r /\ job.focus # None
      BY <2>1, <2>2
    <3>2. job.focus \in Focus
      BY <1>8, <3>1 DEF JobRow
    <3> DEFINE q == job.focus.source
    <3>3. q \in RunIds /\ (q # None => Completed(q))
      BY <3>1, <3>2 DEF Focus, IInv, KnowledgeWithOutcome
    <3>0. q # None
      BY <3>3, KnowledgeAssumption DEF RunIds
    <3>4. Completed(q)
      BY <3>0, <3>3
    <3>5. ~(r < q)
      <4> SUFFICES ASSUME r < q PROVE FALSE
        OBVIOUS
      <4>1. r \in 1..(q-1)
        BY <3>3, RunIdsNat DEF RunIds
      <4>2. runs[q].status # "none"
        BY <3>4 DEF Completed
      <4>3. QED
        BY <1>1, <3>3, <4>1, <4>2 DEF IInv, InOrder
    <3>6. q < r
      BY <1>5, <3>3, <3>4, <3>5, RunIdsNat
    <3>7. QED
      BY <1>1, <1>5, <3>1, <3>2, <3>3, <3>4, <3>6 DEF Completed
  <2>9. ToldFits'
    BY <2>1 DEF ToldFits
  <2>10. QED
    BY <1>6, <1>7, <2>5, <2>6, <2>7, <2>8, <2>9 DEF IInv
<1>11. QED
  BY <1>9, <1>10

-----------------------------------------------------------------------------
\* Statuses that stay, evidence that stays or is as it has to be.
LEMMA KnowledgeKept ==
  ASSUME IInv, given \subseteq given',
         \A k \in {job'.focus, job'.active, job'.pending} \ {None} :
           k.source # None => \/ k.source \in RunIds /\ Completed(k.source)
                              \/ runs'[k.source].status = "completed",
         \A s \in RunIds :
           /\ Completed(s) => runs'[s].status = "completed"
           /\ runs'[s].evidence # None =>
                \/ runs'[s].evidence = runs[s].evidence
                   /\ (runs'[s].status = runs[s].status \/ runs[s].status \in Live)
                \/ /\ runs'[s].evidence.disposition # "none" => runs'[s].status = "completed"
                   /\ runs'[s].evidence.feedback # 0 =>
                        /\ runs'[s].status \in {"completed", "failed"}
                        /\ [run |-> s, of |-> runs'[s].evidence.feedback] \in given'
  PROVE  KnowledgeWithOutcome'
<1>1. \A k \in {job'.focus, job'.active, job'.pending} \ {None} :
        k.source # None => runs'[k.source].status = "completed"
  OBVIOUS
<1>2. ASSUME NEW s \in RunIds, runs'[s].evidence # None
      PROVE  /\ runs'[s].evidence.disposition # "none" => runs'[s].status = "completed"
             /\ runs'[s].evidence.feedback # 0 =>
                  /\ runs'[s].status \in {"completed", "failed"}
                  /\ [run |-> s, of |-> runs'[s].evidence.feedback] \in given'
  <2>1. CASE /\ runs'[s].evidence = runs[s].evidence
             /\ (runs'[s].status = runs[s].status \/ runs[s].status \in Live)
    <3>1. /\ runs[s].evidence.disposition # "none" => runs[s].status = "completed"
          /\ runs[s].evidence.feedback # 0 =>
               /\ runs[s].status \in {"completed", "failed"}
               /\ [run |-> s, of |-> runs[s].evidence.feedback] \in given
      BY <1>2, <2>1 DEF IInv, KnowledgeWithOutcome, WithEvidence, Completed
    <3>2. QED
      BY <2>1, <3>1 DEF Live
  <2>2. QED
    BY <1>2, <2>1
<1>3. QED
  BY <1>1, <1>2 DEF KnowledgeWithOutcome, WithEvidence, Completed

\* Whatever names the Run it came from names a completed one.
LEMMA SourcesAreRuns ==
  ASSUME IInv
  PROVE  \A k \in {job.focus, job.active, job.pending} \ {None} :
           k.source # None => k.source \in RunIds /\ Completed(k.source)
BY DEF IInv, KnowledgeWithOutcome, TypeInv, JobRow, Focus, Procedure

\* A restart fails the Run that was interrupted.
LEMMA RestartKeeps == ASSUME IInv, Restart PROVE IInv'
<1> DEFINE row(r) == IF runs[r].status \in Live THEN [runs[r] EXCEPT !.status = "interrupted"] ELSE runs[r]
<1>1. /\ runs' = [r \in RunIds |-> row(r)] /\ ctx' = None /\ UNCHANGED <<job, seen, accepted, given>>
  BY DEF Restart
<1>2. \A r \in RunIds :
        /\ row(r) \in RunRow /\ row(r).evidence = runs[r].evidence
        /\ row(r).status = IF runs[r].status \in Live THEN "interrupted" ELSE runs[r].status
  BY DEF IInv, TypeInv, RunRow, Statuses, Ended
<1> HIDE DEF row
<1>3. \A r \in RunIds : runs'[r] = row(r)
  BY <1>1
<1>4. TypeInv' /\ LiveContext' /\ Checked' /\ Supplied' /\ Carried' /\ Activated' /\ ToldFits'
  BY <1>1, <1>2 DEF IInv, TypeInv, LiveContext, Checked, Supplied, Carried, Activated, ToldFits
<1>5. InOrder'
  BY <1>2, <1>3, RunIdsNat DEF IInv, InOrder, Live
<1>6. KnowledgeWithOutcome'
  BY <1>1, <1>2, <1>3, SourcesAreRuns, KnowledgeKept DEF Completed, Live
<1>7. QED
  BY <1>4, <1>5, <1>6 DEF IInv

\* A step inside of an episode: the Run goes on, its evidence may be marked as supplied.
LEMMA EpisodeStepKeeps ==
  ASSUME IInv, ctx # None, UNCHANGED <<job, accepted>>, given \subseteq given',
         runs' \in [RunIds -> RunRow], ctx' \in Context,
         ctx'.run = ctx.run, ctx'.proc = ctx.proc, ctx'.focus = ctx.focus, ctx'.focusDef = ctx.focusDef,
         \A s \in RunIds : runs'[s].status = runs[s].status,
         \A s \in RunIds \ {ctx.run} : runs'[s].evidence = runs[s].evidence,
         \/ runs'[ctx.run].evidence = runs[ctx.run].evidence
         \/ /\ ctx.proc # None
            /\ runs'[ctx.run].evidence = [runs[ctx.run].evidence EXCEPT !.supplied = TRUE]
            /\ [run |-> ctx.run, of |-> ctx.proc.snapshot] \in given',
         Checked', ToldFits'
  PROVE  IInv'
<1>1. ctx \in Context /\ ctx.run \in RunIds
  BY DEF IInv, TypeInv, Context
<1>0. ctx.proc # None =>
        /\ runs[ctx.run].evidence \in Evidence
        /\ runs[ctx.run].evidence.feedback = 0 /\ runs[ctx.run].evidence.disposition = "none"
  BY DEF IInv, Supplied
<1>2. \/ runs'[ctx.run].evidence = runs[ctx.run].evidence
      \/ /\ ctx.proc # None /\ runs'[ctx.run].evidence \in Evidence
         /\ runs'[ctx.run].evidence.feedback = 0 /\ runs'[ctx.run].evidence.disposition = "none"
         /\ [run |-> ctx.run, of |-> ctx.proc.snapshot] \in given'
  BY <1>0 DEF Evidence
<1>3. TypeInv' /\ LiveContext' /\ Carried' /\ Activated'
  BY <1>1 DEF IInv, TypeInv, LiveContext, Carried, Activated, Completed, Focus
<1>4. InOrder'
  BY RunIdsNat DEF IInv, InOrder
<1>5. Supplied'
  BY <1>0, <1>1, <1>2 DEF IInv, Supplied
<1>6. KnowledgeWithOutcome'
  BY <1>1, <1>2, SourcesAreRuns, KnowledgeKept DEF Completed
<1>7. QED
  BY <1>3, <1>4, <1>5, <1>6 DEF IInv

\* A Run that works has its context and a running row.
LEMMA WorkingFacts ==
  ASSUME IInv, Working
  PROVE  /\ ctx # None /\ ctx \in Context /\ ctx.run \in RunIds
         /\ runs \in [RunIds -> RunRow] /\ runs[ctx.run] \in RunRow
         /\ runs[ctx.run].status = "running"
BY DEF Working, IInv, TypeInv, Context

\* A request of an episode, with texts that fit the Job as it is and with a proposal that
\* was found acceptable, if there is one: the Run goes on, its evidence is marked.
LEMMA SendsKeeps ==
  ASSUME IInv, Working, NEW told \in SUBSET Guidance, NEW stage \in {"working", "evaluating", "answered"},
         NEW proposal \in {None} \cup Proposals, Sends(told, stage, proposal),
         \A g \in told : FitsUnder(g, stage, job.def, job.proc),
         proposal # None => Acceptable(proposal)
  PROVE  IInv'
<1> DEFINE methods == {g \in told : g.kind = "procedure"}
<1>1. /\ given' = given \cup {[run |-> ctx.run, of |-> g.of] : g \in methods}
      /\ runs' = IF methods = {} THEN runs ELSE [runs EXCEPT ![ctx.run].evidence.supplied = TRUE]
      /\ ctx' = [ctx EXCEPT !.stage = stage, !.proposal = proposal, !.told = told,
                            !.under = [def |-> job.def, proc |-> job.proc]]
      /\ UNCHANGED <<job, seen, accepted>>
  BY DEF Sends
<1>2. job.def \in Definitions /\ job.proc \in BOOLEAN
  BY DEF IInv, TypeInv, JobRow
<1>3. /\ ctx' \in Context /\ ctx'.run = ctx.run /\ ctx'.proc = ctx.proc /\ ctx'.focus = ctx.focus
      /\ ctx'.focusDef = ctx.focusDef /\ ctx'.proposal = proposal /\ ctx'.stage = stage
      /\ ctx'.told = told /\ ctx'.under.def = job.def /\ ctx'.under.proc = job.proc
  BY <1>1, <1>2, WorkingFacts DEF Context
<1>4. ToldFits'
  BY <1>3 DEF ToldFits, FitsUnder
<1>5. \A g \in methods : ctx.proc # None /\ g.of = ctx.proc.snapshot
  BY DEF FitsUnder
<1>6. proposal # None =>
        /\ proposal.focus # "keep" \/ proposal.candidate => proposal.status = "completed"
        /\ proposal.feedback # 0 => /\ runs[ctx.run].evidence.supplied
                                    /\ ctx.proc.snapshot = proposal.feedback
  BY DEF Acceptable
<1> HIDE DEF methods
<1>7. CASE methods = {}
  <2>1. runs' = runs
    BY <1>1, <1>7
  <2>2. Checked'
    BY <1>3, <1>6, <2>1 DEF Checked
  <2>3. QED
    BY <1>1, <1>3, <1>4, <2>1, <2>2, WorkingFacts, EpisodeStepKeeps
<1>8. CASE methods # {}
  <2>1. PICK g \in methods : ctx.proc # None /\ g.of = ctx.proc.snapshot
    BY <1>5, <1>8
  <2>2. [run |-> ctx.run, of |-> ctx.proc.snapshot] \in given'
    BY <1>1, <2>1
  <2>3. runs[ctx.run].evidence \in Evidence
    BY <2>1, WorkingFacts DEF IInv, Supplied
  <2> DEFINE marked == [runs[ctx.run].evidence EXCEPT !.supplied = TRUE]
             row == [runs[ctx.run] EXCEPT !.evidence = marked]
  <2>4. marked \in Evidence
    BY <2>3 DEF Evidence
  <2>5. row \in RunRow /\ row.evidence = marked /\ row.status = runs[ctx.run].status
    BY <2>4, WorkingFacts DEF RunRow
  <2>6. runs' = [runs EXCEPT ![ctx.run] = row]
    BY <1>1, <1>8, WorkingFacts
  <2>7. marked.supplied
    BY <2>3 DEF Evidence
  <2> HIDE DEF row, marked
  <2>8. /\ runs' \in [RunIds -> RunRow]
        /\ \A s \in RunIds : runs'[s].status = runs[s].status
        /\ \A s \in RunIds \ {ctx.run} : runs'[s].evidence = runs[s].evidence
        /\ runs'[ctx.run].evidence = marked
    BY <2>5, <2>6, WorkingFacts
  <2>9. Checked'
    BY <1>3, <1>6, <2>7, <2>8 DEF Checked
  <2>10. QED
    BY <1>1, <1>3, <1>4, <2>1, <2>2, <2>8, <2>9, WorkingFacts, EpisodeStepKeeps DEF marked
<1>9. QED
  BY <1>7, <1>8

\* Instructions composed now say what fits the Job as it is now.
LEMMA ComposedFits ==
  ASSUME IInv, Working, NEW stage
  PROVE  /\ Composed \in SUBSET Guidance
         /\ \A g \in Composed : FitsUnder(g, stage, job.def, job.proc)
<1> DEFINE focus == [kind |-> "focus", of |-> ctx.focus.source, def |-> ctx.focus.def]
           method == [kind |-> "procedure", of |-> ctx.proc.snapshot, def |-> ctx.proc.def]
<1>1. ctx \in Context
  BY WorkingFacts
<1>2. ASSUME FocusPolicy, ctx.focus # None
      PROVE  focus \in Guidance /\ FitsUnder(focus, stage, job.def, job.proc)
  BY <1>1, <1>2, RunIdsNat, WorkingFacts DEF Guidance, FocusPolicy, FitsUnder, IInv, Carried, Focus
<1>3. ASSUME ProcedurePolicy, ctx.proc.snapshot # 0
      PROVE  method \in Guidance /\ FitsUnder(method, stage, job.def, job.proc)
  BY <1>1, <1>3 DEF Guidance, ProcedurePolicy, FitsUnder, Context
<1>4. ASSUME NEW g \in Composed
      PROVE  \/ FocusPolicy /\ ctx.focus # None /\ g = focus
             \/ ProcedurePolicy /\ ctx.proc.snapshot # 0 /\ g = method
  BY DEF Composed
<1> HIDE DEF focus, method
<1>5. QED
  BY <1>2, <1>3, <1>4

\* The requests of the work and the one for its outcome.
LEMMA ComposeKeeps == ASSUME IInv, Compose \/ BeginEvaluation PROVE IInv'
<1>1. PICK stage \in {"working", "evaluating"} : Working /\ Sends(Composed, stage, None)
  BY DEF Compose, BeginEvaluation
<1>2. QED
  BY <1>1, ComposedFits, SendsKeeps

\* The answer to a reported outcome: composed again, or repeated by an occurrence that has
\* no procedure snapshot and so was told of a focus at most.
LEMMA AnswerKeeps ==
  ASSUME IInv, NEW proposal \in {None} \cup Proposals, Answer(proposal),
         proposal # None => Acceptable(proposal)
  PROVE  IInv'
<1>1. Working /\ Sends(IF ctx.proc # None THEN Composed ELSE ctx.told, "answered", proposal)
  BY DEF Answer
<1>2. CASE ctx.proc # None
  BY <1>1, <1>2, ComposedFits, SendsKeeps
<1>3. CASE ctx.proc = None
  <2>1. ctx.told \in SUBSET Guidance
    BY <1>1, WorkingFacts DEF Context
  <2>2. \A g \in ctx.told : FitsUnder(g, "answered", job.def, job.proc)
    BY <1>1, <1>3, WorkingFacts DEF IInv, ToldFits, FitsUnder
  <2>3. QED
    BY <1>1, <1>3, <2>1, <2>2, SendsKeeps
<1>4. QED
  BY <1>2, <1>3

\* A finding that is published while the Run works.
LEMMA PublishKeeps == ASSUME IInv, PublishFinding PROVE IInv'
<1>0. Working /\ runs' = [runs EXCEPT ![ctx.run].finding = TRUE] /\ UNCHANGED <<job, ctx, seen, accepted, given>>
  BY DEF PublishFinding
<1>1. /\ runs' \in [RunIds -> RunRow]
      /\ \A s \in RunIds : runs'[s].status = runs[s].status /\ runs'[s].evidence = runs[s].evidence
  BY <1>0, WorkingFacts DEF RunRow
<1>2. Checked'
  BY <1>0, <1>1, WorkingFacts DEF IInv, Checked
<1>3. ToldFits'
  BY <1>0 DEF IInv, ToldFits, FitsUnder
<1>4. QED
  BY <1>0, <1>1, <1>2, <1>3, WorkingFacts, EpisodeStepKeeps

\* An ending without knowledge: a Run that is live gets another status.
LEMMA EndedKeeps ==
  ASSUME IInv, ctx # None, ctx' = None, UNCHANGED <<job, accepted, given>>,
         NEW status \in Ended, runs' = [runs EXCEPT ![ctx.run].status = status]
  PROVE  IInv'
<1>1. ctx \in Context /\ ctx.run \in RunIds /\ runs \in [RunIds -> RunRow] /\ runs[ctx.run].status = "running"
  BY DEF IInv, TypeInv, Context, LiveContext
<1> DEFINE row == [runs[ctx.run] EXCEPT !.status = status]
<1>2. row \in RunRow /\ row.status = status /\ row.evidence = runs[ctx.run].evidence
  BY <1>1 DEF RunRow, Statuses
<1>3. runs' = [runs EXCEPT ![ctx.run] = row]
  BY <1>1
<1> HIDE DEF row
<1>4. TypeInv' /\ LiveContext' /\ Checked' /\ Supplied' /\ Carried' /\ Activated' /\ ToldFits'
  BY <1>1, <1>2, <1>3 DEF IInv, TypeInv, LiveContext, Checked, Supplied, Carried, Activated, ToldFits
<1>5. InOrder'
  BY <1>1, <1>2, <1>3, RunIdsNat DEF IInv, InOrder, Ended
<1>6. KnowledgeWithOutcome'
  BY <1>1, <1>2, <1>3, SourcesAreRuns, KnowledgeKept DEF Completed, Live
<1>7. QED
  BY <1>4, <1>5, <1>6 DEF IInv

\* Between two episodes nothing is proposed and nothing was told yet.
LEMMA EpisodeOverFacts ==
  ASSUME IInv, ctx # None, NEW task \in {"running", "completed", "failed", "stopped"},
         ctx' = EpisodeOver(task)
  PROVE  /\ ctx' \in Context /\ ctx'.run = ctx.run /\ ctx'.proc = ctx.proc
         /\ ctx'.focus = ctx.focus /\ ctx'.focusDef = ctx.focusDef
         /\ Checked' /\ ToldFits'
<1>1. ctx \in Context
  BY DEF IInv, TypeInv
<1>2. /\ ctx' \in Context /\ ctx'.run = ctx.run /\ ctx'.proc = ctx.proc
      /\ ctx'.focus = ctx.focus /\ ctx'.focusDef = ctx.focusDef
      /\ ctx'.proposal = None /\ ctx'.told = {}
  BY <1>1 DEF EpisodeOver, Context
<1>3. QED
  BY <1>2 DEF Checked, ToldFits

\* The end of a Run, in one transaction with what it taught.
LEMMA FinishRunKeeps ==
  ASSUME IInv, NEW status \in {"completed", "failed", "stopped"}, FinishJobRun(status) PROVE IInv'
<1>1. ctx # None /\ ctx \in Context /\ UNCHANGED <<job, seen, accepted, given>> /\ status \in Ended
  BY DEF FinishJobRun, IInv, TypeInv, Ended
<1>2. CASE runs' = [runs EXCEPT ![ctx.run].status = status] /\ ctx' = None
  BY <1>1, <1>2, EndedKeeps
<1>3. CASE ctx' = EpisodeOver(status) /\ UNCHANGED runs
  <2>1. runs \in [RunIds -> RunRow]
    BY DEF IInv, TypeInv
  <2>2. QED
    BY <1>1, <1>3, <2>1, EpisodeOverFacts, EpisodeStepKeeps
<1>4. QED
  BY <1>2, <1>3 DEF FinishJobRun

\* The end of an episode: nothing, a failed transaction, or the outcome with all it brings.
LEMMA EndKeeps == ASSUME IInv, EndEpisode PROVE IInv'
<1> DEFINE p == ctx.proposal
           r == ctx.run
<1>0. Working /\ ctx # None /\ ctx \in Context /\ UNCHANGED <<seen, accepted, given>>
  BY WorkingFacts DEF EndEpisode
<1>1. CASE /\ ctx' = EpisodeOver(ctx.task) \/ (p # None /\ ctx' = EpisodeOver(p.status))
           /\ UNCHANGED <<job, runs>>
  <2>1. PICK task \in {"running", "completed", "failed", "stopped"} : ctx' = EpisodeOver(task)
    BY <1>0, <1>1 DEF Context, Proposals
  <2>2. QED
    BY <1>0, <1>1, <2>1, WorkingFacts, EpisodeOverFacts, EpisodeStepKeeps
<1>2. CASE p # None /\ StillAcceptable(p) /\ Outcome(p) /\ ctx' = None
  <2>1. /\ p \in Proposals /\ p.status \in {"completed", "failed"} /\ p.feedback \in Nat
        /\ job \in JobRow /\ runs \in [RunIds -> RunRow] /\ r \in RunIds /\ runs[r] \in RunRow
        /\ runs[r].status = "running"
    BY <1>0, <1>2, WorkingFacts, KnowledgeAssumption DEF Context, Proposals, IInv, TypeInv
  <2>2. /\ p.focus # "keep" \/ p.candidate => p.status = "completed"
        /\ p.feedback # 0 => runs[r].evidence.supplied /\ ctx.proc.snapshot = p.feedback
    BY <1>0, <1>2 DEF IInv, Checked
  <2>3. p.candidate \/ p.feedback # 0 => ctx.proc # None
    BY <1>2 DEF StillAcceptable, ProcedurePolicy
  <2> DEFINE plain == ~p.candidate /\ p.feedback = 0
             evidence == Learnt(runs[r].evidence, p)
             row == [runs[r] EXCEPT !.status = p.status, !.evidence = evidence]
  <2>4. ~plain => /\ runs[r].evidence \in Evidence /\ evidence \in Evidence
                  /\ evidence.feedback = p.feedback
                  /\ evidence.disposition # "none" => p.candidate
                  /\ p.feedback # 0 => [run |-> r, of |-> p.feedback] \in given
    BY <1>0, <2>1, <2>2, <2>3 DEF IInv, Supplied, Evidence, Learnt
  <2>5. evidence \in {None} \cup Evidence
    BY <2>1, <2>4 DEF RunRow, Learnt
  <2>6. runs' = [runs EXCEPT ![r] = row]
    BY <1>2, <2>1 DEF Outcome
  <2> HIDE DEF evidence, plain
  <2>7. row \in RunRow /\ row.status = p.status /\ row.evidence = evidence
    BY <2>1, <2>5 DEF RunRow, Statuses, Ended
  <2> HIDE DEF row
  <2>8. /\ runs' \in [RunIds -> RunRow] /\ runs'[r] = row
        /\ \A s \in RunIds \ {r} : runs'[s] = runs[s]
    BY <2>1, <2>6, <2>7
  <2> DEFINE nominated == IF p.candidate THEN Nominated(r) ELSE job
             focus == CASE p.focus = "set" -> [source |-> r, def |-> job.def]
                        [] p.focus = "clear" -> None
                        [] OTHER -> nominated.focus
  <2>9. /\ nominated \in JobRow /\ nominated.focus = job.focus /\ nominated.active = job.active
        /\ \/ nominated.pending = job.pending
           \/ p.candidate /\ nominated.pending.source = r
    BY <2>1, NominatedKeeps
  <2>10. job' = [nominated EXCEPT !.focus = focus]
    BY <1>2 DEF Outcome
  <2>11. /\ focus \in {None} \cup Focus
         /\ \/ focus \in {None, job.focus}
            \/ p.focus = "set" /\ focus.source = r
    BY <2>1, <2>9 DEF Focus, JobRow
  <2> HIDE DEF nominated, focus
  <2>12. /\ job' \in JobRow /\ job'.focus = focus /\ job'.active = job.active
         /\ job'.pending = nominated.pending
    BY <2>9, <2>10, <2>11 DEF JobRow
  <2>13. TypeInv' /\ LiveContext' /\ Checked' /\ Supplied' /\ Carried' /\ Activated' /\ ToldFits'
    BY <1>0, <1>2, <2>8, <2>12
       DEF IInv, TypeInv, LiveContext, Checked, Supplied, Carried, Activated, ToldFits
  <2>14. InOrder'
    BY <2>1, <2>7, <2>8, RunIdsNat DEF IInv, InOrder
  <2>15. KnowledgeWithOutcome'
    <3>1. \A k \in {job'.focus, job'.active, job'.pending} \ {None} :
            k.source # None => \/ k.source \in RunIds /\ Completed(k.source)
                               \/ runs'[k.source].status = "completed"
      BY <2>1, <2>2, <2>7, <2>8, <2>9, <2>11, <2>12, SourcesAreRuns
    <3>2. \A s \in RunIds : Completed(s) => runs'[s].status = "completed"
      BY <2>1, <2>8 DEF Completed
    <3>3. CASE plain
      <4>1. runs'[r].evidence = runs[r].evidence
        BY <2>7, <2>8, <3>3 DEF evidence, plain, Learnt
      <4>2. QED
        BY <1>0, <2>1, <2>8, <3>1, <3>2, <4>1, KnowledgeKept DEF Live
    <3>4. CASE ~plain
      <4>1. /\ runs'[r].evidence = evidence /\ runs'[r].status = p.status
            /\ evidence.disposition # "none" => p.status = "completed"
            /\ evidence.feedback # 0 => [run |-> r, of |-> evidence.feedback] \in given
        BY <2>2, <2>4, <2>7, <2>8, <3>4
      <4>2. QED
        BY <1>0, <2>1, <2>8, <3>1, <3>2, <4>1, KnowledgeKept
    <3>5. QED
      BY <3>3, <3>4
  <2>16. QED
    BY <2>13, <2>14, <2>15 DEF IInv
<1>3. QED
  BY <1>1, <1>2 DEF EndEpisode, RolledBack

-----------------------------------------------------------------------------
\* Every step of the store and its callers.
LEMMA InvStep == IInv /\ [Next]_vars => IInv'
<1> SUFFICES ASSUME IInv, [Next]_vars PROVE IInv'
  OBVIOUS
<1>1. CASE UNCHANGED vars
  BY <1>1 DEF vars, IInv, TypeInv, LiveContext, InOrder, KnowledgeWithOutcome, WithEvidence, Completed,
     Checked, Supplied, Activated, Carried, ToldFits, FitsUnder
<1>2. ASSUME NEW p \in Proposals, Propose(p) PROVE IInv'
  BY <1>2, AnswerKeeps DEF Propose
<1>3. CASE Answer(None)
  BY <1>3, AnswerKeeps
<1>4. CASE Next
  BY <1>2, <1>3, <1>4, OperatorKeeps, StartKeeps, RestartKeeps, ComposeKeeps, PublishKeeps,
     EndKeeps, FinishRunKeeps DEF Next
<1>5. QED
  BY <1>1, <1>4

\* The inductive invariant of what Runs leave behind.
LEMMA InvHolds == Spec => []IInv
BY InitInv, InvStep, PTL DEF Spec

\* What a Run taught is durable only with the outcome it was reported with (sqlite_store.py,
\* transition_run), for any number of Runs, nominations and edits in between.
THEOREM KnowledgeNeedsOutcome == Spec => []KnowledgeWithOutcome
<1>1. IInv => KnowledgeWithOutcome
  BY DEF IInv
<1>2. QED
  BY <1>1, InvHolds, PTL

\* Whatever the model was last told in an occurrence fitted the Job when it was sent, but
\* for the focus that the answer to a reported outcome repeats (app.py, _attention_instructions
\* and _request_job_outcome), for any order of edits, reviews and starts.
THEOREM GuidanceIsReviewed == Spec => []GuidanceReviewed
<1>1. IInv => GuidanceReviewed
  <2> SUFFICES ASSUME IInv, ctx # None, NEW g \in ctx.told
               PROVE  IF g.kind = "procedure"
                      THEN /\ ctx.under.proc /\ g.def = ctx.under.def
                           /\ [version |-> g.of, def |-> g.def] \in accepted
                      ELSE /\ job.carry /\ g.of < ctx.run /\ Completed(g.of)
                           /\ g.def = ctx.under.def \/ (ctx.stage = "answered" /\ ctx.proc = None)
    BY DEF GuidanceReviewed
  <2>1. FitsUnder(g, ctx.stage, ctx.under.def, ctx.under.proc)
    BY DEF IInv, ToldFits
  <2>2. CASE g.kind = "procedure"
    BY <2>1, <2>2 DEF FitsUnder, IInv, Activated
  <2>3. CASE g.kind # "procedure"
    BY <2>1, <2>3 DEF FitsUnder, IInv, Carried
  <2>4. QED
    BY <2>2, <2>3
<1>2. QED
  BY <1>1, InvHolds, PTL

\* An ending is final.
LEMMA EndedStays ==
  ASSUME IInv, [Next]_vars, NEW r \in RunIds, runs[r].status \in Ended
  PROVE  runs'[r].status = runs[r].status
<1>1. runs[r].status \notin Live \cup {"none"} /\ runs \in [RunIds -> RunRow]
  BY DEF Ended, Live, IInv, TypeInv
<1>2. ASSUME NEW s \in RunIds, StartOccurrence(s) PROVE runs'[r].status = runs[r].status
  <2>1. PICK status \in {"running", "stopped", "pending"} : Capture(s, status)
    BY <1>2 DEF StartOccurrence
  <2>2. status \in Statuses /\ s # r
    BY <1>1, <1>2 DEF Statuses, Live, Ended, StartOccurrence
  <2>3. QED
    BY <2>1, <2>2, CaptureEffect
<1>3. CASE Restart
  BY <1>1, <1>3 DEF Restart
<1>4. ASSUME ctx # None PROVE ctx.run # r /\ ctx.run \in RunIds
  BY <1>1, <1>4 DEF IInv, LiveContext, TypeInv, Context, Live
<1>5. CASE \/ Compose \/ PublishFinding \/ BeginEvaluation \/ Answer(None)
           \/ \E p \in Proposals : Propose(p)
  BY <1>1, <1>4, <1>5 DEF Compose, PublishFinding, BeginEvaluation, Propose, Answer, Sends, Working
<1>6. CASE EndEpisode \/ \E status \in {"completed", "failed", "stopped"} : FinishJobRun(status)
  BY <1>1, <1>4, <1>6 DEF EndEpisode, Outcome, RolledBack, FinishJobRun, Working
<1>7. CASE UNCHANGED runs
  BY <1>7
<1>8. QED
  BY <1>2, <1>3, <1>5, <1>6, <1>7 DEF Next, vars, SetCarryForward, ShowProcedure, AdministerFocus,
     SeedProcedure, SetProcedureEnabled, EditDefinition, ReviewProcedure

\* What a reader may be shown of a Run never turns out to belong to another outcome
\* (app.py, the Job tools that show results, reports and Findings).
THEOREM ShownIsFinal == Spec => ShownStays
<1> DEFINE A == \A r \in RunIds :
       ResultShown(r) \/ ReportShown(r) \/ LatestCompleted(r) \/ FindingShown(r)
         => runs'[r].status = runs[r].status
<1>1. IInv /\ [Next]_vars => [A]_vars
  <2>1. \A r \in RunIds :
          ResultShown(r) \/ ReportShown(r) \/ LatestCompleted(r) \/ FindingShown(r) => runs[r].status \in Ended
    BY DEF ResultShown, ReportShown, LatestCompleted, FindingShown, Completed, Ended
  <2>2. QED
    BY <2>1, EndedStays
<1>2. QED
  BY <1>1, InvHolds, PTL DEF Spec, ShownStays
=============================================================================
