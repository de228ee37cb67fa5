----------------------------- MODULE JobLedger -----------------------------
(***************************************************************************)
(* The durable side of Jobs: the catalog and the occurrences (Runs) that   *)
(* SQLiteJobStore keeps.  Every operation is one BEGIN IMMEDIATE           *)
(* transaction, so every operation is one action, and what the database    *)
(* holds after any prefix of them is what a crash leaves behind.           *)
(***************************************************************************)
EXTENDS Naturals

CONSTANTS
  Jobs,      \* the Job identities of the catalog
  RunIds     \* the row identities job_runs can hand out

Unowned == "unowned"

ASSUME RunIdsAssumption == RunIds \subseteq Nat \ {0}
ASSUME JobsAssumption == Unowned \notin Jobs

VARIABLES
  enabled,   \* jobs.enabled
  job,       \* job_runs.job_id
  status     \* job_runs.status, "absent" for a row that does not exist

ledgerVars == <<enabled, job, status>>

LiveStatuses == {"pending", "running"}
TerminalStatuses == {"completed", "failed", "stopped", "interrupted"}
Statuses == {"absent"} \cup LiveStatuses \cup TerminalStatuses

\* RUN_TRANSITIONS
RunTransitions ==
  [s \in Statuses |->
     CASE s = "pending" -> {"running", "stopped", "interrupted"}
       [] s = "running" -> TerminalStatuses
       [] OTHER -> {}]

LedgerTypeOK ==
  /\ enabled \in [Jobs -> BOOLEAN]
  /\ job \in [RunIds -> Jobs \cup {Unowned}]
  /\ status \in [RunIds -> Statuses]
  /\ \A r \in RunIds : job[r] = Unowned <=> status[r] = "absent"

LedgerInit ==
  /\ enabled \in [Jobs -> BOOLEAN]
  /\ job = [r \in RunIds |-> Unowned]
  /\ status = [r \in RunIds |-> "absent"]

LiveRuns(j) == {r \in RunIds : job[r] = j /\ status[r] \in LiveStatuses}

\* job_runs.id is an INTEGER PRIMARY KEY and no row is ever deleted.
NextRow(r) == status[r] = "absent" /\ \A q \in RunIds : q < r => status[q] # "absent"

SetJobEnabled(j, b) ==
  /\ enabled' = [enabled EXCEPT ![j] = b]
  /\ UNCHANGED <<job, status>>

\* create_triggered_run, which create_run(require_idle=True) and the schedules
\* share: the check for a live occurrence and the insert are one transaction.
CreateRun(j, r) ==
  /\ enabled[j]
  /\ LiveRuns(j) = {}
  /\ NextRow(r)
  /\ job' = [job EXCEPT ![r] = j]
  /\ status' = [status EXCEPT ![r] = "pending"]
  /\ UNCHANGED enabled

TransitionRun(r, s) ==
  /\ s \in RunTransitions[status[r]]
  /\ status' = [status EXCEPT ![r] = s]
  /\ UNCHANGED <<enabled, job>>

\* interrupt_nonterminal_runs, the reconciliation of a starting process.
InterruptNonterminalRuns ==
  /\ status' = [r \in RunIds |->
                  IF status[r] \in LiveStatuses THEN "interrupted" ELSE status[r]]
  /\ UNCHANGED <<enabled, job>>

LedgerNext ==
  \/ \E j \in Jobs, b \in BOOLEAN : SetJobEnabled(j, b)
  \/ \E j \in Jobs, r \in RunIds : CreateRun(j, r)
  \/ \E r \in RunIds, s \in Statuses : TransitionRun(r, s)
  \/ InterruptNonterminalRuns

LedgerSpec == LedgerInit /\ [][LedgerNext]_ledgerVars

-----------------------------------------------------------------------------
\* A Job never has two live occurrences: the admission of create_triggered_run
\* and the transition table of transition_run together keep it so.
OneLiveRunPerJob ==
  \A j \in Jobs : \A q, r \in LiveRuns(j) : q = r

\* A recorded result is immutable and keeps its owner: no transition, no
\* reconciliation and no later occurrence rewrites a terminal row.
TerminalForever ==
  [][\A r \in RunIds : status[r] \in TerminalStatuses
       => status'[r] = status[r] /\ job'[r] = job[r]]_ledgerVars
=============================================================================
