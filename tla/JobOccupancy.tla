---------------------------- MODULE JobOccupancy ----------------------------
(***************************************************************************)
(* What the store promises whoever asks only whether a Job may run and     *)
(* whether it does: a Job is occupied by at most one occurrence at a time, *)
(* which begins while the Job is enabled and outlives its disabling.  Two  *)
(* modules see the store this way: JobLedger has it in rows, JobAdmission  *)
(* as the set of Jobs that are live.                                       *)
(***************************************************************************)

CONSTANT Jobs

VARIABLES
  admitted,   \* Jobs that are enabled
  occupied    \* Jobs with a live occurrence

occupancyVars == <<admitted, occupied>>

OccupancyInit == admitted \subseteq Jobs /\ occupied = {}

\* Configuration, of one Job at a time.
Admit(j) == admitted' = admitted \cup {j} /\ UNCHANGED occupied
Exclude(j) == admitted' = admitted \ {j} /\ UNCHANGED occupied

Occupy(j) ==
  /\ j \in admitted \ occupied
  /\ occupied' = occupied \cup {j}
  /\ UNCHANGED admitted

\* An occurrence ends; a starting process ends all that were left.
Vacate(j) == occupied' = occupied \ {j} /\ UNCHANGED admitted
VacateAll == occupied' = {} /\ UNCHANGED admitted

OccupancyNext ==
  \/ \E j \in Jobs : Admit(j) \/ Exclude(j) \/ Occupy(j) \/ Vacate(j)
  \/ VacateAll

OccupancySpec == OccupancyInit /\ [][OccupancyNext]_occupancyVars
=============================================================================
