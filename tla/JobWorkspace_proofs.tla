------------------------- MODULE JobWorkspace_proofs -------------------------
(***************************************************************************)
(* The workspace's promises for any files, any limits and any number of    *)
(* writes, edits and losses of power.  Three strengthenings are needed:    *)
(* Fresh, a write has a number no stored version has before its rename;    *)
(* Standing, a write in progress stands on directories that exist; and     *)
(* Accounted, an unsynced directory is either about to be synced or on     *)
(* record as left behind.                                                  *)
(***************************************************************************)
EXTENDS WorkspaceReading, TLAPS

Statuses == {"none", "refused", "raised", "applied", "indeterminate"}
Version == [kind : {"none", "unsafe", "text", "image"}, size : Nat, by : Nat, edit : Nat]

Stages == {"opening", "syncing job", "walking", "syncing dir", "reading", "filling",
           "checking", "publishing", "syncing"}

Ops == [at : Stages, file : Files, mode : Modes, kind : Kinds, size : Nat, by : Nat,
        madeJob : BOOLEAN, madeDir : BOOLEAN, old : Version, late : BOOLEAN]

TypeInv ==
  /\ disk \in [job : BOOLEAN, dir : BOOLEAN, file : [Files -> Version]]
  /\ after \in [job : SUBSET BOOLEAN, dir : SUBSET BOOLEAN, file : [Files -> SUBSET Version]]
  /\ op \in Ops \cup {Idle}
  /\ result \in [by : Nat, status : Statuses, published : BOOLEAN, durable : BOOLEAN]
  /\ confirmed \in [Files -> Version]
  /\ count \in [writes : Nat, edits : Nat, losses : Nat]

\* What the process sees is among what may remain.
Present ==
  /\ disk.job \in after.job /\ disk.dir \in after.dir
  /\ \A f \in Files : disk.file[f] \in after.file[f]

Unpublished == op # Idle /\ op.at # "syncing"

Fresh ==
  /\ result.by <= count.writes
  /\ op # Idle => op.by = count.writes /\ result.by < op.by
  /\ \A f \in Files : \A v \in after.file[f] :
       /\ v.by <= count.writes
       /\ Unpublished => v.by # op.by
       /\ result.by # 0 /\ ~result.published => v.by # result.by

Standing ==
  /\ \A f \in Files : Here(f) => disk.job /\ (f \in Nested => disk.dir)
  /\ op # Idle /\ op.at # "opening" => disk.job
  /\ op # Idle /\ op.at \notin {"opening", "syncing job", "walking"} =>
       (op.file \in Nested => disk.dir)

Accounted ==
  /\ disk.job /\ FALSE \in after.job => op.at = "syncing job" \/ "job" \in left
  /\ disk.dir /\ FALSE \in after.dir => op.at = "syncing dir" \/ "dir" \in left

\* A replacement about to be renamed stands over what was read, unless an edit came late.
Looked ==
  op.at = "publishing" /\ op.old # Absent /\ ~op.late => disk.file[op.file] = op.old

IInv == TypeInv /\ Present /\ Fresh /\ Standing /\ Accounted /\ Looked

-----------------------------------------------------------------------------
\* The versions that an edit or a rewrite makes.
LEMMA VersionTypes ==
  /\ Absent \in Version /\ Unsafe \in Version
  /\ \A n \in Nat : Edited(n) \in Version
  /\ \A v \in Version, n \in Nat : Rewritten(v, n) \in Version
BY DEF Version, Absent, Unsafe, Edited, Rewritten

\* No write is idle.
LEMMA IdleIsNoWrite == Idle \notin Ops /\ Idle.at = "idle" /\ Idle.at \notin Stages
BY DEF Idle, Ops, Stages

\* It holds of the first directory tree.
LEMMA InitInv == Init => IInv
<1> SUFFICES ASSUME Init PROVE IInv
  OBVIOUS
<1> USE DEF Init
<1>1. TypeInv
  BY VersionTypes DEF TypeInv, Statuses
<1>2. Present /\ Standing /\ Accounted
  BY IdleIsNoWrite DEF Present, Standing, Accounted, Here
<1>3. Fresh
  BY DEF Fresh, Unpublished, Absent
<1>4. Looked
  BY IdleIsNoWrite DEF Looked
<1>5. QED
  BY <1>1, <1>2, <1>3, <1>4 DEF IInv

-----------------------------------------------------------------------------
\* A failure touches no artifact; the directories it takes away are empty.
LEMMA FailKeeps ==
  ASSUME IInv, op # Idle, op.at # "syncing", NEW status \in {"refused", "raised"}, Fail(status)
  PROVE  IInv'
<1>1. PICK kept, dirGone, jobGone \in BOOLEAN :
         /\ dirGone => \A f \in Nested : ~Here(f)
         /\ jobGone => (dirGone \/ ~disk.dir) /\ \A f \in Files : ~Here(f)
         /\ disk' = [disk EXCEPT !.dir = @ /\ ~dirGone, !.job = @ /\ ~jobGone]
         /\ after' = [after EXCEPT !.dir = IF dirGone THEN @ \cup {FALSE} ELSE @,
                                   !.job = IF jobGone THEN @ \cup {FALSE} ELSE @]
         /\ left' = left \cup Unsynced(disk', after')
         /\ End(status, FALSE, FALSE)
         /\ UNCHANGED <<confirmed, count>>
  BY DEF Fail
<1>2. /\ disk'.file = disk.file /\ after'.file = after.file
      /\ disk'.dir = (disk.dir /\ ~dirGone) /\ disk'.job = (disk.job /\ ~jobGone)
      /\ after'.dir = IF dirGone THEN after.dir \cup {FALSE} ELSE after.dir
      /\ after'.job = IF jobGone THEN after.job \cup {FALSE} ELSE after.job
  BY <1>1 DEF IInv, TypeInv
<1>3. /\ op' = Idle /\ op \in Ops
      /\ result' = [by |-> op.by, status |-> status, published |-> FALSE, durable |-> FALSE]
      /\ UNCHANGED <<confirmed, count>>
  BY <1>1 DEF End, IInv, TypeInv
<1>4. TypeInv'
  <2>1. disk' \in [job : BOOLEAN, dir : BOOLEAN, file : [Files -> Version]]
    BY <1>1, <1>2 DEF IInv, TypeInv
  <2>2. after' \in [job : SUBSET BOOLEAN, dir : SUBSET BOOLEAN, file : [Files -> SUBSET Version]]
    BY <1>1, <1>2 DEF IInv, TypeInv
  <2>3. result' \in [by : Nat, status : Statuses, published : BOOLEAN, durable : BOOLEAN]
    BY <1>3 DEF Ops, Statuses
  <2>4. QED
    BY <1>3, <2>1, <2>2, <2>3 DEF IInv, TypeInv
<1>5. Present'
  BY <1>2 DEF IInv, TypeInv, Present
<1>6. Fresh'
  BY <1>2, <1>3, IdleIsNoWrite DEF IInv, TypeInv, Fresh, Unpublished, Ops
<1>7. Standing'
  BY <1>1, <1>2, <1>3 DEF IInv, Standing, Here
<1>8. Accounted'
  BY <1>1, <1>2 DEF Accounted, Unsynced
<1>9. Looked'
  BY <1>3, IdleIsNoWrite DEF Looked
<1>10. QED
  BY <1>4, <1>5, <1>6, <1>7, <1>8, <1>9 DEF IInv

\* Going on to a next stage, short of the rename, with the same disk.
LEMMA StageKeeps ==
  ASSUME IInv, op # Idle, op.at # "syncing",
         UNCHANGED <<disk, after, result, left, count, confirmed>>,
         op' \in Ops, op'.by = op.by, op'.file = op.file, op'.at # "syncing",
         op'.at # "opening" => disk.job,
         op'.at \notin {"opening", "syncing job", "walking"} => (op.file \in Nested => disk.dir),
         op.at \notin {"syncing job", "syncing dir"},
         op'.at = "publishing" /\ op'.old # Absent => disk.file[op.file] = op'.old
  PROVE  IInv'
<1>1. TypeInv' /\ Present'
  BY DEF IInv, TypeInv, Present
<1>2. Fresh'
  BY IdleIsNoWrite DEF IInv, Fresh, Unpublished
<1>3. Standing'
  BY DEF IInv, Standing, Here
<1>4. Accounted' /\ Looked'
  BY DEF IInv, Accounted, Looked
<1>5. QED
  BY <1>1, <1>2, <1>3, <1>4 DEF IInv

-----------------------------------------------------------------------------
\* The operations of a write.
LEMMA ArrivesKeeps ==
  ASSUME IInv, NEW f \in Files, NEW m \in Modes, NEW k \in Kinds, NEW s \in Nat, WriteArrives(f, m, k, s)
  PROVE  IInv'
<1> USE DEF WriteArrives
<1>1. /\ op = Idle /\ UNCHANGED <<disk, after, litter, result, confirmed, left>>
      /\ count' = [count EXCEPT !.writes = @ + 1]
      /\ op' = [at |-> "opening", file |-> f, mode |-> m, kind |-> k, size |-> s,
                by |-> count'.writes, madeJob |-> FALSE, madeDir |-> FALSE, old |-> Absent,
                late |-> FALSE]
  OBVIOUS
<1>2. count' \in [writes : Nat, edits : Nat, losses : Nat] /\ count'.writes = count.writes + 1
  BY <1>1 DEF IInv, TypeInv
<1>3. op' \in Ops /\ op'.by = count.writes + 1 /\ op'.at = "opening" /\ op'.old = Absent /\ op' # Idle
  <2>1. count.writes + 1 \in Nat /\ count'.writes = count.writes + 1 /\ Absent \in Version
    BY <1>2, VersionTypes DEF IInv, TypeInv
  <2>2. op' \in Ops
    BY <1>1, <2>1 DEF Ops, Stages
  <2>3. QED
    BY <1>1, <2>1, <2>2, IdleIsNoWrite
<1>4. TypeInv' /\ Present'
  BY <1>1, <1>2, <1>3 DEF IInv, TypeInv, Present
<1>5. Fresh'
  <2>1. result.by <= count.writes /\ count.writes \in Nat /\ result.by \in Nat
    BY DEF IInv, Fresh, TypeInv
  <2>2. \A g \in Files : \A v \in after.file[g] :
          v.by \in Nat /\ v.by <= count.writes
          /\ (result.by # 0 /\ ~result.published => v.by # result.by)
    BY DEF IInv, Fresh, TypeInv, Version
  <2>3. QED
    BY <1>1, <1>2, <1>3, <2>1, <2>2 DEF Fresh
<1>6. Standing' /\ Looked'
  BY <1>1, <1>3 DEF IInv, Standing, Here, Looked
<1>7. Accounted'
  BY <1>1, IdleIsNoWrite DEF IInv, Accounted
<1>8. QED
  BY <1>4, <1>5, <1>6, <1>7 DEF IInv

\* A directory is made, or synced, for the write.
LEMMA OpenJobKeeps == ASSUME IInv, OpenJob PROVE IInv'
<1>1. op.at = "opening" /\ op # Idle /\ op \in Ops
  BY IdleIsNoWrite DEF OpenJob, IInv, TypeInv
<1>2. CASE disk.job /\ Stage("walking") /\ UNCHANGED <<disk, after, litter, result, confirmed, left, count>>
  <2>1. op' = [op EXCEPT !.at = "walking"] /\ op' \in Ops
    BY <1>1, <1>2 DEF Stage, Ops, Stages
  <2>2. op'.at = "walking" /\ op'.by = op.by /\ op'.file = op.file
    BY <1>1, <2>1 DEF Ops
  <2>3. QED
    BY <1>1, <1>2, <2>1, <2>2, StageKeeps
<1>3. CASE Fail("refused") \/ Fail("raised")
  BY <1>1, <1>3, FailKeeps
<1>4. CASE /\ ~disk.job
           /\ disk' = [disk EXCEPT !.job = TRUE]
           /\ after' = [after EXCEPT !.job = @ \cup {TRUE}]
           /\ op' = [op EXCEPT !.at = "syncing job", !.madeJob = TRUE]
           /\ UNCHANGED <<litter, result, confirmed, left, count>>
  <2>1. /\ op' \in Ops /\ op'.at = "syncing job" /\ op'.by = op.by /\ op'.file = op.file
        /\ op' # Idle
    BY <1>1, <1>4, IdleIsNoWrite DEF Ops, Stages
  <2>2. /\ disk'.job = TRUE /\ disk'.dir = disk.dir /\ disk'.file = disk.file
        /\ after'.job = after.job \cup {TRUE} /\ after'.dir = after.dir /\ after'.file = after.file
    BY <1>4 DEF IInv, TypeInv
  <2>3. TypeInv'
    BY <1>4, <2>1, <2>2 DEF IInv, TypeInv
  <2>4. Present' /\ Fresh'
    BY <1>1, <1>4, <2>1, <2>2 DEF IInv, Present, Fresh, Unpublished
  <2>5. Standing' /\ Accounted' /\ Looked'
    BY <1>1, <1>4, <2>1, <2>2 DEF IInv, Standing, Here, Accounted, Looked
  <2>6. QED
    BY <2>3, <2>4, <2>5 DEF IInv
<1>5. QED
  BY <1>2, <1>3, <1>4 DEF OpenJob

\* The fsync of the Job's directory.
LEMMA SyncJobKeeps == ASSUME IInv, SyncJob PROVE IInv'
<1>1. op.at = "syncing job" /\ op # Idle /\ op \in Ops
  BY IdleIsNoWrite DEF SyncJob, IInv, TypeInv
<1>2. CASE Fail("raised")
  BY <1>1, <1>2, FailKeeps
<1>3. CASE /\ after' = [after EXCEPT !.job = {TRUE}] /\ left' = left \ {"job"}
           /\ Stage("walking")
           /\ UNCHANGED <<disk, litter, result, confirmed, count>>
  <2>1. /\ op' \in Ops /\ op'.at = "walking" /\ op'.by = op.by /\ op'.file = op.file /\ op' # Idle
    BY <1>1, <1>3, IdleIsNoWrite DEF Stage, Ops, Stages
  <2>2. after'.job = {TRUE} /\ after'.dir = after.dir /\ after'.file = after.file /\ disk.job
    BY <1>1, <1>3 DEF IInv, TypeInv, Standing
  <2>3. TypeInv'
    BY <1>3, <2>1, <2>2 DEF IInv, TypeInv
  <2>4. Present' /\ Fresh'
    BY <1>1, <1>3, <2>1, <2>2 DEF IInv, Present, Fresh, Unpublished
  <2>5. Standing' /\ Accounted' /\ Looked'
    BY <1>1, <1>3, <2>1, <2>2 DEF IInv, Standing, Here, Accounted, Looked
  <2>6. QED
    BY <2>3, <2>4, <2>5 DEF IInv
<1>4. QED
  BY <1>2, <1>3 DEF SyncJob

\* The directory of a nested artifact: found, or made.
LEMMA WalkKeeps == ASSUME IInv, Walk PROVE IInv'
<1>1. op.at = "walking" /\ op # Idle /\ op \in Ops /\ disk.job
  BY IdleIsNoWrite DEF Walk, IInv, TypeInv, Standing
<1>2. CASE Fail("refused")
  BY <1>1, <1>2, FailKeeps
<1>3. CASE /\ op.file \in Nested => disk.dir
           /\ Stage("reading")
           /\ UNCHANGED <<disk, after, litter, result, confirmed, left, count>>
  <2>1. op' \in Ops /\ op'.at = "reading" /\ op'.by = op.by /\ op'.file = op.file
    BY <1>1, <1>3 DEF Stage, Ops, Stages
  <2>2. QED
    BY <1>1, <1>3, <2>1, StageKeeps
<1>4. CASE /\ ~disk.dir
           /\ disk' = [disk EXCEPT !.dir = TRUE]
           /\ after' = [after EXCEPT !.dir = @ \cup {TRUE}]
           /\ op' = [op EXCEPT !.at = "syncing dir", !.madeDir = TRUE]
           /\ UNCHANGED <<litter, result, confirmed, left, count>>
  <2>1. /\ op' \in Ops /\ op'.at = "syncing dir" /\ op'.by = op.by /\ op'.file = op.file /\ op' # Idle
    BY <1>1, <1>4, IdleIsNoWrite DEF Ops, Stages
  <2>2. /\ disk'.dir = TRUE /\ disk'.job = disk.job /\ disk'.file = disk.file
        /\ after'.dir = after.dir \cup {TRUE} /\ after'.job = after.job /\ after'.file = after.file
    BY <1>4 DEF IInv, TypeInv
  <2>3. TypeInv'
    BY <1>4, <2>1, <2>2 DEF IInv, TypeInv
  <2>4. Present' /\ Fresh'
    BY <1>1, <1>4, <2>1, <2>2 DEF IInv, Present, Fresh, Unpublished
  <2>5. Standing' /\ Accounted' /\ Looked'
    BY <1>1, <1>4, <2>1, <2>2 DEF IInv, Standing, Here, Accounted, Looked
  <2>6. QED
    BY <2>3, <2>4, <2>5 DEF IInv
<1>5. QED
  BY <1>2, <1>3, <1>4 DEF Walk

\* What a sync of a directory leaves among what may remain.
LEMMA SyncedTypes ==
  ASSUME IInv, NEW nested \in BOOLEAN
  PROVE  /\ Synced(nested) \in [job : SUBSET BOOLEAN, dir : SUBSET BOOLEAN, file : [Files -> SUBSET Version]]
         /\ Synced(nested).job = after.job
         /\ Synced(nested).dir = IF nested THEN after.dir ELSE {disk.dir}
         /\ \A f \in Files : /\ Synced(nested).file[f] \subseteq after.file[f]
                             /\ disk.file[f] \in Synced(nested).file[f]
                             /\ (f \in Nested) = nested => Synced(nested).file[f] = {disk.file[f]}
<1> DEFINE files == [f \in Files |-> IF (f \in Nested) = nested THEN {disk.file[f]} ELSE after.file[f]]
<1>1. files \in [Files -> SUBSET Version]
  BY DEF IInv, TypeInv
<1>2. Synced(nested).file = files
  BY DEF Synced, IInv, TypeInv
<1>3. \A f \in Files : files[f] = IF (f \in Nested) = nested THEN {disk.file[f]} ELSE after.file[f]
  OBVIOUS
<1>4. \A f \in Files : disk.file[f] \in after.file[f]
  BY DEF IInv, Present
<1>5. /\ Synced(nested).job = after.job
      /\ Synced(nested).dir = IF nested THEN after.dir ELSE {disk.dir}
  BY DEF Synced, IInv, TypeInv
<1>6. Synced(nested) \in [job : SUBSET BOOLEAN, dir : SUBSET BOOLEAN, file : [Files -> SUBSET Version]]
  BY <1>1 DEF Synced, IInv, TypeInv
<1>7. QED
  BY <1>2, <1>3, <1>4, <1>5, <1>6

\* The fsync that follows when that directory was made.
LEMMA SyncDirKeeps == ASSUME IInv, SyncDir PROVE IInv'
<1>1. op.at = "syncing dir" /\ op # Idle /\ op \in Ops
  BY IdleIsNoWrite DEF SyncDir, IInv, TypeInv
<1>2. CASE Fail("refused")
  BY <1>1, <1>2, FailKeeps
<1>3. CASE /\ after' = Synced(FALSE) /\ left' = left \ {"dir"}
           /\ Stage("reading")
           /\ UNCHANGED <<disk, litter, result, confirmed, count>>
  <2>1. /\ op' \in Ops /\ op'.at = "reading" /\ op'.by = op.by /\ op'.file = op.file /\ op' # Idle
    BY <1>1, <1>3, IdleIsNoWrite DEF Stage, Ops, Stages
  <2>2. /\ after' \in [job : SUBSET BOOLEAN, dir : SUBSET BOOLEAN, file : [Files -> SUBSET Version]]
        /\ after'.job = after.job /\ after'.dir = {disk.dir}
        /\ \A f \in Files : after'.file[f] \subseteq after.file[f] /\ disk.file[f] \in after'.file[f]
    BY <1>3, SyncedTypes
  <2>3. TypeInv' /\ Present'
    BY <1>3, <2>1, <2>2 DEF IInv, TypeInv, Present
  <2>4. Fresh'
    BY <1>1, <1>3, <2>1, <2>2 DEF IInv, Fresh, Unpublished
  <2>5. Standing' /\ Accounted' /\ Looked'
    BY <1>1, <1>3, <2>1, <2>2 DEF IInv, Standing, Here, Accounted, Looked
  <2>6. QED
    BY <2>3, <2>4, <2>5 DEF IInv
<1>4. QED
  BY <1>2, <1>3 DEF SyncDir

\* The look at the version that is to be replaced, and all refusals.
LEMMA ReadKeeps == ASSUME IInv, Read PROVE IInv'
<1>1. op.at = "reading" /\ op # Idle /\ op \in Ops /\ disk.job /\ (op.file \in Nested => disk.dir)
  BY IdleIsNoWrite DEF Read, IInv, TypeInv, Standing
<1>2. CASE Fail("refused")
  BY <1>1, <1>2, FailKeeps
<1>3. CASE /\ op' = [op EXCEPT !.at = "filling", !.old = disk.file[op.file],
                              !.size = NewSize(disk.file[op.file])]
           /\ UNCHANGED <<disk, after, litter, result, confirmed, left, count>>
  <2>1. disk.file[op.file] \in Version /\ op.size \in Nat
    BY <1>1 DEF IInv, TypeInv, Ops
  <2>2. NewSize(disk.file[op.file]) \in Nat
    BY <2>1 DEF NewSize, Version
  <2>3. op' \in Ops /\ op'.at = "filling" /\ op'.by = op.by /\ op'.file = op.file
    BY <1>1, <1>3, <2>1, <2>2 DEF Ops, Stages
  <2>4. QED
    BY <1>1, <1>3, <2>3, StageKeeps
<1>4. QED
  BY <1>2, <1>3 DEF Read

\* The writing of the temporary file.
LEMMA FillKeeps == ASSUME IInv, Fill PROVE IInv'
<1>1. op.at = "filling" /\ op # Idle /\ op \in Ops /\ disk.job /\ (op.file \in Nested => disk.dir)
  BY IdleIsNoWrite DEF Fill, IInv, TypeInv, Standing
<1>2. CASE Fail("refused")
  BY <1>1, <1>2, FailKeeps
<1>3. CASE /\ Stage(IF op.old = Absent THEN "publishing" ELSE "checking")
           /\ UNCHANGED <<disk, after, litter, result, confirmed, left, count>>
  <2>1. /\ op' \in Ops /\ op'.by = op.by /\ op'.file = op.file /\ op'.old = op.old
        /\ op'.at = IF op.old = Absent THEN "publishing" ELSE "checking"
    BY <1>1, <1>3 DEF Stage, Ops, Stages
  <2>2. QED
    BY <1>1, <1>3, <2>1, StageKeeps
<1>4. QED
  BY <1>2, <1>3 DEF Fill

\* The last look at the version that is to be replaced.
LEMMA RevalidateKeeps == ASSUME IInv, Revalidate PROVE IInv'
<1>1. op.at = "checking" /\ op # Idle /\ op \in Ops /\ disk.job /\ (op.file \in Nested => disk.dir)
  BY IdleIsNoWrite DEF Revalidate, IInv, TypeInv, Standing
<1>2. CASE disk.file[op.file] = op.old
  <2>1. Stage("publishing") /\ UNCHANGED <<disk, after, litter, result, confirmed, left, count>>
    BY <1>2 DEF Revalidate
  <2>2. op' \in Ops /\ op'.at = "publishing" /\ op'.by = op.by /\ op'.file = op.file /\ op'.old = op.old
    BY <1>1, <2>1 DEF Stage, Ops, Stages
  <2>3. QED
    BY <1>1, <1>2, <2>1, <2>2, StageKeeps
<1>3. CASE disk.file[op.file] # op.old
  BY <1>1, <1>3, FailKeeps DEF Revalidate
<1>4. QED
  BY <1>2, <1>3

\* The rename puts the write's number on the disk for the first time.
LEMMA PublishKeeps == ASSUME IInv, Publish PROVE IInv'
<1>1. /\ op.at = "publishing" /\ op # Idle /\ op \in Ops /\ op.file \in Files
      /\ disk.job /\ (op.file \in Nested => disk.dir)
  BY IdleIsNoWrite DEF Publish, IInv, TypeInv, Standing, Ops
<1>2. CASE Fail("refused")
  BY <1>1, <1>2, FailKeeps
<1>3. CASE /\ disk' = [disk EXCEPT !.file[op.file] = New]
           /\ after' = [after EXCEPT !.file[op.file] = @ \cup {New}]
           /\ confirmed' = [confirmed EXCEPT ![op.file] = Absent]
           /\ Stage("syncing")
           /\ UNCHANGED <<litter, result, left, count>>
  <2>1. New \in Version /\ New.by = op.by
    BY <1>1 DEF New, Version, Ops, Kinds
  <2>2. /\ op' \in Ops /\ op'.at = "syncing" /\ op'.by = op.by /\ op'.file = op.file /\ op' # Idle
    BY <1>1, <1>3, IdleIsNoWrite DEF Stage, Ops, Stages
  <2>3. /\ disk'.job = disk.job /\ disk'.dir = disk.dir /\ after'.job = after.job /\ after'.dir = after.dir
        /\ disk'.file = [disk.file EXCEPT ![op.file] = New]
        /\ after'.file = [after.file EXCEPT ![op.file] = @ \cup {New}]
    BY <1>3 DEF IInv, TypeInv
  <2>4. TypeInv'
    <3>1. disk' \in [job : BOOLEAN, dir : BOOLEAN, file : [Files -> Version]]
      BY <1>1, <1>3, <2>1 DEF IInv, TypeInv
    <3>2. after' \in [job : SUBSET BOOLEAN, dir : SUBSET BOOLEAN, file : [Files -> SUBSET Version]]
      BY <1>1, <1>3, <2>1 DEF IInv, TypeInv
    <3>3. confirmed' \in [Files -> Version]
      BY <1>1, <1>3, VersionTypes DEF IInv, TypeInv
    <3>4. QED
      BY <1>3, <2>2, <3>1, <3>2, <3>3 DEF IInv, TypeInv
  <2>5. Present'
    <3>1. \A f \in Files : /\ disk'.file[f] = IF f = op.file THEN New ELSE disk.file[f]
                           /\ after'.file[f] = IF f = op.file THEN after.file[f] \cup {New} ELSE after.file[f]
      <4>1. disk.file \in [Files -> Version] /\ after.file \in [Files -> SUBSET Version]
        BY DEF IInv, TypeInv
      <4>2. QED
        BY <1>1, <2>3, <4>1
    <3>2. /\ disk.job \in after.job /\ disk.dir \in after.dir
          /\ \A f \in Files : disk.file[f] \in after.file[f]
      BY DEF IInv, Present
    <3>3. QED
      BY <2>3, <3>1, <3>2 DEF Present
  <2>6. Fresh'
    <3>1. op.by = count.writes /\ result.by < op.by /\ result.by \in Nat /\ op.by \in Nat
      BY <1>1 DEF IInv, Fresh, TypeInv, Ops
    <3>2. \A f \in Files : \A v \in after'.file[f] : v \in after.file[f] \/ v = New
      BY <1>1, <2>3 DEF IInv, TypeInv
    <3>3. QED
      BY <1>1, <1>3, <2>1, <2>2, <3>1, <3>2 DEF IInv, Fresh, Unpublished
  <2>7. Standing' /\ Accounted' /\ Looked'
    BY <1>1, <1>3, <2>2, <2>3 DEF IInv, TypeInv, Standing, Here, Accounted, Looked
  <2>8. QED
    BY <2>4, <2>5, <2>6, <2>7 DEF IInv
<1>4. QED
  BY <1>2, <1>3 DEF Publish

\* The fsync after the replacement, which makes a write durable or leaves it unconfirmed.
LEMMA SyncKeeps == ASSUME IInv, Sync PROVE IInv'
<1>1. op.at = "syncing" /\ op # Idle /\ op \in Ops /\ op.file \in Files /\ disk.job
  BY IdleIsNoWrite DEF Sync, IInv, TypeInv, Standing, Ops
<1>2. PICK status \in {"applied", "indeterminate"}, durable \in BOOLEAN :
        End(status, TRUE, durable)
  BY DEF Sync
<1>3. /\ op' = Idle
      /\ result' = [by |-> op.by, status |-> status, published |-> TRUE, durable |-> durable]
      /\ result' \in [by : Nat, status : Statuses, published : BOOLEAN, durable : BOOLEAN]
  BY <1>1, <1>2 DEF End, Ops, Statuses
<1>4. /\ after' \in [job : SUBSET BOOLEAN, dir : SUBSET BOOLEAN, file : [Files -> SUBSET Version]]
      /\ after'.job = after.job
      /\ (after'.dir = after.dir /\ left' = left)
         \/ (after'.dir = {disk.dir} /\ left' = left \ {"dir"})
      /\ \A f \in Files : after'.file[f] \subseteq after.file[f] /\ disk.file[f] \in after'.file[f]
  <2>1. CASE after' = Synced(op.file \in Nested)
             /\ left' = IF op.file \in Nested THEN left ELSE left \ {"dir"}
    <3>1. CASE op.file \in Nested
      <4>1. after' = Synced(TRUE)
        BY <2>1, <3>1 DEF Synced
      <4>2. QED
        BY <2>1, <3>1, <4>1, SyncedTypes
    <3>2. CASE op.file \notin Nested
      <4>1. (op.file \in Nested) = FALSE
        BY <3>2
      <4>2. after' = Synced(FALSE)
        BY <2>1, <4>1 DEF Synced
      <4>3. QED
        BY <2>1, <3>2, <4>2, SyncedTypes
    <3>3. QED
      BY <3>1, <3>2
  <2>2. CASE UNCHANGED <<after, left>>
    BY <2>2 DEF IInv, TypeInv, Present
  <2>3. QED
    BY <2>1, <2>2 DEF Sync
<1>5. confirmed' \in [Files -> Version] /\ UNCHANGED <<disk, count>>
  <2>1. New \in Version
    BY <1>1 DEF New, Version, Ops, Kinds
  <2>2. QED
    BY <2>1 DEF Sync, IInv, TypeInv
<1>6. TypeInv' /\ Present'
  BY <1>3, <1>4, <1>5 DEF IInv, TypeInv, Present
<1>7. Fresh'
  <2>1. \A f \in Files : \A v \in after'.file[f] : v \in after.file[f]
    BY <1>4
  <2>2. op.by = count.writes /\ op.by \in Nat
    BY <1>1 DEF IInv, Fresh, Ops
  <2>3. QED
    BY <1>3, <1>5, <2>1, <2>2 DEF IInv, Fresh, Unpublished
<1>8. Standing' /\ Accounted' /\ Looked'
  BY <1>1, <1>3, <1>4, <1>5, IdleIsNoWrite DEF IInv, Standing, Here, Accounted, Looked
<1>9. QED
  BY <1>6, <1>7, <1>8 DEF IInv

-----------------------------------------------------------------------------
\* An edit by someone else brings no write's number where it was not.
LEMMA EditKeeps == ASSUME IInv, NEW f \in Files, Edit(f) PROVE IInv'
<1>1. PICK new \in {Absent, Unsafe, Edited(count'.edits)} \cup
              (IF disk.file[f] \in {Absent, Unsafe} THEN {} ELSE {Rewritten(disk.file[f], count'.edits)}) :
        /\ disk' = [disk EXCEPT !.file[f] = new]
        /\ after' = [after EXCEPT !.file[f] = @ \cup {new}]
  BY DEF Edit
<1>2. /\ disk.job /\ (f \in Nested => disk.dir)
      /\ count' = [count EXCEPT !.edits = @ + 1]
      /\ confirmed' = [confirmed EXCEPT ![f] = Absent]
      /\ op' = IF op.at = "publishing" /\ op.file = f THEN [op EXCEPT !.late = TRUE] ELSE op
      /\ UNCHANGED <<litter, result, left>>
  BY DEF Edit
<1>3. count' \in [writes : Nat, edits : Nat, losses : Nat] /\ count'.writes = count.writes
  BY <1>2 DEF IInv, TypeInv
<1>4. new \in Version /\ (new.by = 0 \/ new.by = disk.file[f].by)
  <2>1. disk.file[f] \in Version /\ count'.edits \in Nat
    BY <1>3 DEF IInv, TypeInv
  <2>2. Absent.by = 0 /\ Unsafe.by = 0 /\ Edited(count'.edits).by = 0
        /\ Rewritten(disk.file[f], count'.edits).by = disk.file[f].by
    BY DEF Absent, Unsafe, Edited, Rewritten
  <2>3. QED
    BY <1>1, <2>1, <2>2, VersionTypes
<1>5. /\ disk'.job = disk.job /\ disk'.dir = disk.dir /\ after'.job = after.job /\ after'.dir = after.dir
      /\ disk'.file = [disk.file EXCEPT ![f] = new]
      /\ after'.file = [after.file EXCEPT ![f] = @ \cup {new}]
  BY <1>1 DEF IInv, TypeInv
<1>6. /\ op # Idle => op \in Ops /\ op' \in Ops /\ op' # Idle
      /\ op = Idle => op' = Idle
      /\ op'.at = op.at /\ op'.by = op.by /\ op'.file = op.file /\ op'.old = op.old
  <2>1. CASE op = Idle
    BY <1>2, <2>1, IdleIsNoWrite DEF Stages
  <2>2. CASE op # Idle
    BY <1>2, <2>2, IdleIsNoWrite DEF IInv, TypeInv, Ops
  <2>3. QED
    BY <2>1, <2>2
<1>7. TypeInv'
  <2>1. disk' \in [job : BOOLEAN, dir : BOOLEAN, file : [Files -> Version]]
    BY <1>1, <1>4 DEF IInv, TypeInv
  <2>2. after' \in [job : SUBSET BOOLEAN, dir : SUBSET BOOLEAN, file : [Files -> SUBSET Version]]
    BY <1>1, <1>4 DEF IInv, TypeInv
  <2>3. confirmed' \in [Files -> Version]
    BY <1>2, VersionTypes DEF IInv, TypeInv
  <2>4. QED
    BY <1>2, <1>3, <1>6, <2>1, <2>2, <2>3 DEF IInv, TypeInv
<1>8. Present'
  BY <1>5 DEF IInv, TypeInv, Present
<1>9. Fresh'
  <2>1. \A g \in Files : \A v \in after'.file[g] : (\E h \in Files : \E w \in after.file[h] : w.by = v.by) \/ v.by = 0
    BY <1>4, <1>5 DEF IInv, TypeInv, Present
  <2>2. op # Idle => op.by > 0
    BY DEF IInv, Fresh, TypeInv, Ops
  <2>3. QED
    BY <1>2, <1>3, <1>6, <2>1, <2>2 DEF IInv, Fresh, Unpublished, TypeInv
<1>10. Standing' /\ Accounted'
  BY <1>2, <1>5, <1>6 DEF IInv, TypeInv, Standing, Here, Accounted
<1>11. Looked'
  <2>1. CASE op.at = "publishing" /\ op.file = f
    <3>1. op \in Ops
      BY <2>1, IdleIsNoWrite DEF IInv, TypeInv
    <3>2. op'.late
      BY <1>2, <2>1, <3>1 DEF Ops
    <3>3. QED
      BY <3>2 DEF Looked
  <2>2. CASE ~(op.at = "publishing" /\ op.file = f)
    BY <1>2, <1>5, <2>2 DEF IInv, Looked
  <2>3. QED
    BY <2>1, <2>2
<1>12. QED
  BY <1>7, <1>8, <1>9, <1>10, <1>11 DEF IInv

\* The death of the process.
LEMMA KillKeeps == ASSUME IInv, Kill PROVE IInv'
<1>1. /\ op # Idle /\ op' = Idle /\ UNCHANGED <<disk, after, result, confirmed, count>>
      /\ left' = left \cup Unsynced(disk, after)
  BY DEF Kill
<1>2. TypeInv' /\ Present'
  BY <1>1 DEF IInv, TypeInv, Present
<1>3. Fresh' /\ Standing'
  BY <1>1 DEF IInv, Fresh, Unpublished, Standing, Here
<1>4. Accounted' /\ Looked'
  BY <1>1, IdleIsNoWrite DEF Accounted, Unsynced, Looked
<1>5. QED
  BY <1>2, <1>3, <1>4 DEF IInv

\* A loss of power: what was not durable may be gone.
LEMMA PowerLossKeeps == ASSUME IInv, PowerLoss PROVE IInv'
<1>1. PICK job \in after.job, dir \in after.dir,
           file \in [Files -> UNION {after.file[f] : f \in Files}] :
        /\ \A f \in Files : file[f] \in after.file[f]
        /\ disk' = [job |-> job, dir |-> job /\ dir,
                    file |-> [f \in Files |->
                      IF job /\ (f \in Nested => dir) THEN file[f] ELSE Absent]]
  BY DEF PowerLoss
<1>2. /\ count' = [count EXCEPT !.losses = @ + 1]
      /\ after' = [job |-> {disk'.job}, dir |-> {disk'.dir}, file |-> [f \in Files |-> {disk'.file[f]}]]
      /\ op' = Idle /\ left' = {}
      /\ confirmed' = [f \in Files |-> IF disk'.file[f] = confirmed[f] THEN confirmed[f] ELSE Absent]
      /\ UNCHANGED result
  BY DEF PowerLoss
<1>3. /\ job \in BOOLEAN /\ dir \in BOOLEAN /\ disk'.job = job /\ disk'.dir = (job /\ dir)
      /\ \A f \in Files : /\ file[f] \in Version
                          /\ disk'.file[f] \in Version
                          /\ disk'.file[f] = IF job /\ (f \in Nested => dir) THEN file[f] ELSE Absent
  BY <1>1, VersionTypes DEF IInv, TypeInv
<1>4. TypeInv'
  <2>1. disk' \in [job : BOOLEAN, dir : BOOLEAN, file : [Files -> Version]]
    BY <1>1, <1>3
  <2>2. after' \in [job : SUBSET BOOLEAN, dir : SUBSET BOOLEAN, file : [Files -> SUBSET Version]]
    BY <1>2, <1>3
  <2>3. confirmed' \in [Files -> Version]
    BY <1>2, VersionTypes DEF IInv, TypeInv
  <2>4. count' \in [writes : Nat, edits : Nat, losses : Nat]
    BY <1>2 DEF IInv, TypeInv
  <2>5. QED
    BY <1>2, <2>1, <2>2, <2>3, <2>4 DEF IInv, TypeInv
<1>5. /\ after'.job = {disk'.job} /\ after'.dir = {disk'.dir}
      /\ \A f \in Files : after'.file[f] = {disk'.file[f]}
  BY <1>2
<1>6. Present' /\ Accounted' /\ Looked'
  BY <1>2, <1>5, IdleIsNoWrite DEF Present, Accounted, Looked
<1>7. Standing'
  BY <1>2, <1>3 DEF Standing, Here
<1>8. Fresh'
  <2>1. \A f \in Files : \A v \in after'.file[f] : v \in after.file[f] \/ v = Absent
    BY <1>1, <1>3, <1>5
  <2>2. count'.writes = count.writes /\ Absent.by = 0 /\ count.writes \in Nat
    BY <1>2 DEF IInv, TypeInv, Absent
  <2>3. QED
    BY <1>2, <2>1, <2>2 DEF IInv, Fresh, Unpublished
<1>9. QED
  BY <1>4, <1>6, <1>7, <1>8 DEF IInv

\* The inductive step.
LEMMA InvStep == IInv /\ [Next]_vars => IInv'
<1> SUFFICES ASSUME IInv, [Next]_vars PROVE IInv'
  OBVIOUS
<1>1. CASE UNCHANGED vars
  BY <1>1 DEF vars, IInv, TypeInv, Present, Fresh, Unpublished, Standing, Here, Accounted, Looked
<1>2. CASE StoreStep
  <2>1. ASSUME NEW f \in Files, NEW m \in Modes, NEW k \in Kinds,
               NEW s \in 1 .. Max({MaxRequest, MaxImage}), WriteArrives(f, m, k, s)
        PROVE  IInv'
    <3>1. s \in Nat
      OBVIOUS
    <3>2. QED
      BY <2>1, <3>1, ArrivesKeeps
  <2>2. QED
    BY <1>2, <2>1, OpenJobKeeps, SyncJobKeeps, WalkKeeps, SyncDirKeeps, ReadKeeps, FillKeeps,
       RevalidateKeeps, PublishKeeps, SyncKeeps DEF StoreStep
<1>3. CASE \E f \in Files : Edit(f)
  BY <1>3, EditKeeps
<1>4. CASE Kill \/ PowerLoss
  BY <1>4, KillKeeps, PowerLossKeeps
<1>5. QED
  BY <1>1, <1>2, <1>3, <1>4 DEF Next

\* The inductive invariant of the store.
LEMMA InvHolds == Spec => []IInv
<1>1. QED
  BY InitInv, InvStep, PTL DEF Spec

\* A result that says nothing was published is true, whatever failed, whoever edited the
\* files and however often the process or the power was lost (workspace.py, the status of
\* WorkspaceWriteResult).
THEOREM ResultsTrue == Spec => []ResultTrue
<1>1. IInv => ResultTrue
  BY DEF IInv, TypeInv, Present, Fresh, ResultTrue
<1>2. QED
  BY <1>1, InvHolds, PTL

-----------------------------------------------------------------------------
\* The steps that can put a write's version on the disk.
LEMMA OnlyPublishes ==
  ASSUME IInv, Next, count' = count, NEW f \in Files, disk'.file[f] # disk.file[f]
  PROVE  /\ op.at = "publishing" /\ f = op.file
         /\ op.old = Absent => ~Here(op.file)
<1>1. ASSUME NEW status, Fail(status) PROVE FALSE
  BY <1>1 DEF Fail, IInv, TypeInv
<1>2. CASE StoreStep
  <2>1. CASE \E g \in Files, m \in Modes, k \in Kinds, s \in 1 .. Max({MaxRequest, MaxImage}) :
               WriteArrives(g, m, k, s)
    BY <2>1 DEF WriteArrives
  <2>2. CASE OpenJob \/ SyncJob
    BY <1>1, <2>2 DEF OpenJob, SyncJob, IInv, TypeInv
  <2>3. CASE Walk \/ SyncDir
    BY <1>1, <2>3 DEF Walk, SyncDir, IInv, TypeInv
  <2>4. CASE Read \/ Fill \/ Revalidate \/ Sync
    BY <1>1, <2>4 DEF Read, Fill, Revalidate, Sync
  <2>5. CASE Publish
    <3>1. /\ op.at = "publishing"
          /\ op.old = Absent => ~Here(op.file)
          /\ disk' = [disk EXCEPT !.file[op.file] = New]
      BY <1>1, <2>5 DEF Publish
    <3>2. op \in Ops
      BY <3>1, IdleIsNoWrite DEF IInv, TypeInv
    <3>3. f = op.file
      BY <3>1, <3>2 DEF IInv, TypeInv, Ops
    <3>4. QED
      BY <3>1, <3>3
  <2>6. QED
    BY <1>2, <2>1, <2>2, <2>3, <2>4, <2>5 DEF StoreStep
<1>3. CASE \E g \in Files : Edit(g)
  <2>1. count'.edits = count.edits + 1 /\ count.edits \in Nat
    BY <1>3 DEF Edit, IInv, TypeInv
  <2>2. QED
    BY <2>1
<1>4. CASE Kill
  BY <1>4 DEF Kill
<1>5. CASE PowerLoss
  <2>1. count'.losses = count.losses + 1 /\ count.losses \in Nat
    BY <1>5 DEF PowerLoss, IInv, TypeInv
  <2>2. QED
    BY <2>1
<1>6. QED
  BY <1>2, <1>3, <1>4, <1>5 DEF Next

\* A write takes away only what it has read; only an edit between its last look and its
\* rename can be lost, and none to a creation.
THEOREM NothingClobbered == Spec => Unclobbered
<1> DEFINE A == \A f \in Files : disk'.file[f].by > 0 /\ disk'.file[f] # disk.file[f] /\ count' = count =>
                   disk.file[f] = op.old \/ (op.late /\ op.old # Absent)
<1>1. IInv /\ [Next]_vars => [A]_vars
  <2> SUFFICES ASSUME IInv, Next, count' = count, NEW f \in Files, disk'.file[f] # disk.file[f]
               PROVE  disk.file[f] = op.old \/ (op.late /\ op.old # Absent)
    BY DEF vars
  <2>1. /\ op.at = "publishing" /\ f = op.file
        /\ op.old = Absent => ~Here(op.file)
    BY OnlyPublishes
  <2>2. op \in Ops
    BY <2>1, IdleIsNoWrite DEF IInv, TypeInv
  <2>3. QED
    BY <2>1, <2>2 DEF IInv, Looked, Here, Ops
<1>2. QED
  BY <1>1, InvHolds, PTL DEF Spec, Unclobbered

-----------------------------------------------------------------------------
\* What was confirmed durable stands on the disk, on directories that stand.
LEMMA ConfirmedStands ==
  ASSUME IInv, Survives, NEW f \in Files, confirmed[f] # Absent
  PROVE  disk.file[f] = confirmed[f] /\ Here(f) /\ disk.job /\ (f \in Nested => disk.dir)
BY DEF IInv, Present, Standing, Survives, Here

\* A write that fails takes nothing from the disk.
LEMMA FailSurvives ==
  ASSUME IInv, Survives, NEW status, Fail(status) PROVE Survives'
<1>1. PICK kept, dirGone, jobGone \in BOOLEAN :
         /\ dirGone => \A f \in Nested : ~Here(f)
         /\ jobGone => \A f \in Files : ~Here(f)
         /\ after' = [after EXCEPT !.dir = IF dirGone THEN @ \cup {FALSE} ELSE @,
                                   !.job = IF jobGone THEN @ \cup {FALSE} ELSE @]
         /\ left' = left \cup Unsynced(disk', after')
         /\ confirmed' = confirmed
  BY DEF Fail
<1>2. /\ after'.file = after.file
      /\ ~dirGone => after'.dir = after.dir
      /\ ~jobGone => after'.job = after.job
  BY <1>1 DEF IInv, TypeInv
<1>3. QED
  BY <1>1, <1>2, ConfirmedStands DEF Survives

\* What is on the disk stays there through an fsync, with either outcome.
LEMMA SyncSurvives ==
  ASSUME IInv, Survives, op.at = "syncing", NEW nested \in BOOLEAN, nested = (op.file \in Nested),
         after' = Synced(nested),
         confirmed' = IF disk.file[op.file] = New THEN [confirmed EXCEPT ![op.file] = New] ELSE confirmed,
         left' = IF nested THEN left ELSE left \ {"dir"},
         disk' = disk
  PROVE  Survives'
<1>1. op \in Ops /\ op # Idle /\ op.file \in Files
  BY IdleIsNoWrite DEF IInv, TypeInv, Ops
<1>2. disk.job /\ (op.file \in Nested => disk.dir)
  BY <1>1 DEF IInv, Standing
<1>3. /\ after'.job = after.job
      /\ after'.dir = IF nested THEN after.dir ELSE {disk.dir}
      /\ \A f \in Files : /\ after'.file[f] \subseteq after.file[f]
                          /\ disk.file[f] \in after'.file[f]
                          /\ (f \in Nested) = nested => after'.file[f] = {disk.file[f]}
  BY SyncedTypes
<1>4. after.job = {TRUE} \/ "job" \in left
  <2>1. disk.job \in BOOLEAN /\ after.job \subseteq BOOLEAN /\ disk.job \in after.job
    BY DEF IInv, TypeInv, Present
  <2>2. FALSE \in after.job => "job" \in left
    BY <1>2 DEF IInv, Accounted
  <2>3. QED
    BY <1>2, <2>1, <2>2
<1>5. op.file \in Nested => after.dir = {TRUE} \/ "dir" \in left
  <2>1. disk.dir \in BOOLEAN /\ after.dir \subseteq BOOLEAN /\ disk.dir \in after.dir
    BY DEF IInv, TypeInv, Present
  <2>2. disk.dir /\ FALSE \in after.dir => "dir" \in left
    BY DEF IInv, Accounted
  <2>3. QED
    BY <1>2, <2>1, <2>2
<1>6. SUFFICES ASSUME NEW f \in Files, confirmed'[f] # Absent
               PROVE  /\ after'.file[f] = {confirmed'[f]}
                      /\ after'.job = {TRUE} \/ "job" \in left'
                      /\ f \in Nested => after'.dir = {TRUE} \/ "dir" \in left'
  BY DEF Survives
<1>7. CASE disk.file[op.file] = New /\ f = op.file
  <2>1. confirmed'[f] = New
    BY <1>1, <1>7 DEF IInv, TypeInv
  <2>2. after'.file[f] = {New}
    BY <1>1, <1>3, <1>7
  <2>3. QED
    BY <1>3, <1>4, <1>5, <1>7, <2>1, <2>2
<1>8. CASE ~(disk.file[op.file] = New /\ f = op.file)
  <2>1. confirmed'[f] = confirmed[f]
    BY <1>1, <1>8 DEF IInv, TypeInv
  <2>2. /\ after.file[f] = {confirmed[f]} /\ disk.file[f] = confirmed[f]
        /\ f \in Nested => disk.dir = TRUE
        /\ f \in Nested => after.dir = {TRUE} \/ "dir" \in left
    BY <1>6, <2>1, ConfirmedStands DEF Survives, IInv, TypeInv
  <2>3. after'.file[f] = {confirmed[f]}
    BY <1>3, <2>2
  <2>4. QED
    BY <1>3, <1>4, <2>1, <2>2, <2>3
<1>9. QED
  BY <1>7, <1>8

\* The step of every action.
LEMMA SurvivesStep == IInv /\ Survives /\ [Next]_vars => Survives'
<1> SUFFICES ASSUME IInv, Survives, [Next]_vars PROVE Survives'
  OBVIOUS
<1> DEFINE Same == UNCHANGED <<after, left, confirmed>>
<1>0. ASSUME Same PROVE Survives'
  BY <1>0 DEF Survives
<1>1. CASE UNCHANGED vars
  BY <1>0, <1>1 DEF vars
<1>2. ASSUME NEW g \in Files, NEW m \in Modes, NEW k \in Kinds,
             NEW s \in 1 .. Max({MaxRequest, MaxImage}), WriteArrives(g, m, k, s)
      PROVE  Survives'
  BY <1>0, <1>2 DEF WriteArrives
<1>3. CASE OpenJob
  <2>1. CASE after' = [after EXCEPT !.job = @ \cup {TRUE}] /\ UNCHANGED <<confirmed, left>>
    <3>1. after'.job = after.job \cup {TRUE} /\ after'.dir = after.dir /\ after'.file = after.file
      BY <2>1 DEF IInv, TypeInv
    <3>2. QED
      BY <2>1, <3>1 DEF Survives
  <2>2. QED
    BY <1>0, <1>3, <2>1, FailSurvives DEF OpenJob
<1>4. CASE SyncJob
  <2>1. CASE after' = [after EXCEPT !.job = {TRUE}] /\ left' = left \ {"job"} /\ confirmed' = confirmed
    <3>1. after'.job = {TRUE} /\ after'.dir = after.dir /\ after'.file = after.file
      BY <2>1 DEF IInv, TypeInv
    <3>2. QED
      BY <2>1, <3>1 DEF Survives
  <2>2. QED
    BY <1>4, <2>1, FailSurvives DEF SyncJob
<1>5. CASE Walk
  <2>1. CASE after' = [after EXCEPT !.dir = @ \cup {TRUE}] /\ UNCHANGED <<confirmed, left>>
    <3>1. after'.job = after.job /\ after'.dir = after.dir \cup {TRUE} /\ after'.file = after.file
      BY <2>1 DEF IInv, TypeInv
    <3>2. QED
      BY <2>1, <3>1 DEF Survives
  <2>2. QED
    BY <1>0, <1>5, <2>1, FailSurvives DEF Walk
<1>6. CASE SyncDir
  <2>1. CASE after' = Synced(FALSE) /\ left' = left \ {"dir"} /\ confirmed' = confirmed
    <3>1. /\ after'.job = after.job /\ after'.dir = {disk.dir}
          /\ \A f \in Files : after'.file[f] \subseteq after.file[f] /\ disk.file[f] \in after'.file[f]
      BY <2>1, SyncedTypes
    <3>2. ASSUME NEW f \in Files, confirmed[f] # Absent
          PROVE  /\ after'.file[f] = {confirmed[f]}
                 /\ after'.job = {TRUE} \/ "job" \in left'
                 /\ f \in Nested => after'.dir = {TRUE}
      <4>1. /\ after.file[f] = {confirmed[f]} /\ disk.file[f] = confirmed[f]
            /\ f \in Nested => disk.dir = TRUE
            /\ after.job = {TRUE} \/ "job" \in left
        BY <3>2, ConfirmedStands DEF Survives, IInv, TypeInv
      <4>2. QED
        BY <2>1, <3>1, <4>1
    <3>3. QED
      BY <2>1, <3>2 DEF Survives
  <2>2. QED
    BY <1>6, <2>1, FailSurvives DEF SyncDir
<1>7. CASE Read \/ Fill \/ Revalidate
  BY <1>0, <1>7, FailSurvives DEF Read, Fill, Revalidate
<1>8. CASE Publish
  <2>1. CASE /\ after' = [after EXCEPT !.file[op.file] = @ \cup {New}]
             /\ confirmed' = [confirmed EXCEPT ![op.file] = Absent]
             /\ UNCHANGED left
    <3>1. /\ after'.job = after.job /\ after'.dir = after.dir
          /\ \A f \in Files \ {op.file} : after'.file[f] = after.file[f] /\ confirmed'[f] = confirmed[f]
          /\ op.file \in Files => confirmed'[op.file] = Absent
      BY <2>1 DEF IInv, TypeInv
    <3>2. QED
      BY <2>1, <3>1 DEF Survives
  <2>2. QED
    BY <1>8, <2>1, FailSurvives DEF Publish
<1>9. CASE Sync
  <2>1. CASE UNCHANGED <<after, confirmed, left>>
    BY <1>0, <2>1
  <2>2. CASE /\ after' = Synced(op.file \in Nested)
             /\ confirmed' = IF disk.file[op.file] = New THEN [confirmed EXCEPT ![op.file] = New] ELSE confirmed
             /\ left' = IF op.file \in Nested THEN left ELSE left \ {"dir"}
    <3>1. op.at = "syncing" /\ disk' = disk
      BY <1>9 DEF Sync
    <3>2. CASE op.file \in Nested
      <4>1. TRUE = (op.file \in Nested) /\ after' = Synced(TRUE)
        BY <2>2, <3>2 DEF Synced
      <4>2. QED
        BY <2>2, <3>1, <3>2, <4>1, SyncSurvives
    <3>3. CASE op.file \notin Nested
      <4>1. FALSE = (op.file \in Nested)
        BY <3>3
      <4>2. after' = Synced(FALSE)
        BY <2>2, <4>1 DEF Synced
      <4>3. QED
        BY <2>2, <3>1, <3>3, <4>1, <4>2, SyncSurvives
    <3>4. QED
      BY <3>2, <3>3
  <2>3. QED
    BY <1>9, <2>1, <2>2 DEF Sync
<1>10. ASSUME NEW g \in Files, Edit(g) PROVE Survives'
  <2>1. PICK new : after' = [after EXCEPT !.file[g] = @ \cup {new}]
    BY <1>10 DEF Edit
  <2>2. confirmed' = [confirmed EXCEPT ![g] = Absent] /\ left' = left
    BY <1>10 DEF Edit
  <2>3. /\ after'.job = after.job /\ after'.dir = after.dir
        /\ \A f \in Files \ {g} : after'.file[f] = after.file[f] /\ confirmed'[f] = confirmed[f]
        /\ confirmed'[g] = Absent
    BY <2>1, <2>2 DEF IInv, TypeInv
  <2>4. QED
    BY <2>2, <2>3 DEF Survives
<1>11. CASE Kill
  BY <1>11 DEF Kill, Survives
<1>12. CASE PowerLoss
  <2>1. PICK job \in after.job, dir \in after.dir,
             file \in [Files -> UNION {after.file[f] : f \in Files}] :
          disk' = [job |-> job, dir |-> job /\ dir,
                   file |-> [f \in Files |->
                     IF job /\ (f \in Nested => dir) THEN file[f] ELSE Absent]]
    BY <1>12 DEF PowerLoss
  <2>2. /\ after' = [job |-> {disk'.job}, dir |-> {disk'.dir}, file |-> [f \in Files |-> {disk'.file[f]}]]
        /\ confirmed' = [f \in Files |-> IF disk'.file[f] = confirmed[f] THEN confirmed[f] ELSE Absent]
    BY <1>12 DEF PowerLoss
  <2>3. job \in BOOLEAN /\ dir \in BOOLEAN
    BY DEF IInv, TypeInv
  <2>4. ASSUME NEW f \in Files, confirmed'[f] # Absent
        PROVE  /\ after'.file[f] = {confirmed'[f]} /\ after'.job = {TRUE}
               /\ f \in Nested => after'.dir = {TRUE}
    <3>1. disk'.file[f] = confirmed[f] /\ confirmed'[f] = confirmed[f]
      BY <2>2, <2>4
    <3>2. job /\ (f \in Nested => dir)
      BY <2>1, <2>4, <3>1
    <3>3. QED
      BY <2>1, <2>2, <2>3, <3>1, <3>2
  <2>5. QED
    BY <2>4 DEF Survives
<1>13. QED
  BY <1>1, <1>2, <1>3, <1>4, <1>5, <1>6, <1>7, <1>8, <1>9, <1>10, <1>11, <1>12 DEF Next, StoreStep

\* What a write reports durable survives every loss of power, unless an earlier write that
\* was cut short had left its directory unsynced (workspace.py, _fsync_directory).
THEOREM DurableSurvives == Spec => []Survives
<1>1. Init => Survives
  BY DEF Init, Survives
<1>2. QED
  BY <1>1, SurvivesStep, InvHolds, PTL DEF Spec

-----------------------------------------------------------------------------
(***************************************************************************)
(* Reading leaves the store's promises alone, and tells no mixture of two  *)
(* versions.  The second rests on Moved: an edit in place gives the open   *)
(* file a version it never had before, so a file that looks at its end as  *)
(* it did at the beginning has been the same all the time.                 *)
(***************************************************************************)

\* Every step of reading is a step of the store or leaves it alone (app.py calls the
\* workspace only through its read operations).
LEMMA ReadingStep == [ReadingNext]_readingVars => [Next]_vars
<1> SUFFICES ASSUME ReadingNext PROVE [Next]_vars
  BY DEF readingVars
<1>1. CASE Reads
  BY <1>1 DEF Reads, EpisodeBegins, EpisodeEnds, RunEnds, Ask, Open, ReadRest, Finish, Capture,
     Interpret, DeliverImage, DeliverReport, Deliver, Answered
<1>2. CASE Stores
  BY <1>2 DEF Stores, Next
<1>3. CASE \E f \in Files : EditUnder(f)
  BY <1>3 DEF EditUnder, Next
<1>4. CASE Dies
  BY <1>4 DEF Dies, Next
<1>5. QED
  BY <1>1, <1>2, <1>3, <1>4 DEF ReadingNext

\* Reading, listing, keeping and reporting are stutters of the store, and writes through
\* the episode's tools are its writes (workspace.py, app.py's workspace tools).
THEOREM ReadingImplementsStore == ReadingSpec => Spec
<1>1. ReadingInit => Init
  BY DEF ReadingInit
<1>2. QED
  BY <1>1, ReadingStep, PTL DEF ReadingSpec, Spec

\* Hence the store's promises hold while episodes read, for any number of requests.
THEOREM StorePromisesWhileRead == ReadingSpec => []ResultTrue /\ []Survives /\ Unclobbered
BY ReadingImplementsStore, ResultsTrue, DurableSurvives, NothingClobbered, PTL

-----------------------------------------------------------------------------
\* No stored version has an edit that is still to come.
EditsPast == \A f \in Files : \A v \in after.file[f] : v.edit <= count.edits

\* A write that fails leaves every artifact as it was.
LEMMA FailLeavesFiles ==
  ASSUME IInv, NEW status, Fail(status) PROVE after'.file = after.file /\ count' = count
BY DEF Fail, IInv, TypeInv

\* No later edit takes an earlier number.
LEMMA EditsPastStep == IInv /\ EditsPast /\ [Next]_vars => EditsPast'
<1> SUFFICES ASSUME IInv, EditsPast, [Next]_vars PROVE EditsPast'
  OBVIOUS
<1>0. count.edits \in Nat
  BY DEF IInv, TypeInv
<1>1. ASSUME after'.file = after.file, count'.edits = count.edits PROVE EditsPast'
  BY <1>1 DEF EditsPast
<1>2. CASE UNCHANGED vars
  BY <1>1, <1>2 DEF vars
<1>3. ASSUME NEW g \in Files, NEW m \in Modes, NEW k \in Kinds,
             NEW s \in 1 .. Max({MaxRequest, MaxImage}), WriteArrives(g, m, k, s)
      PROVE  EditsPast'
  BY <1>1, <1>3 DEF WriteArrives, IInv, TypeInv
<1>4. CASE OpenJob \/ SyncJob \/ Walk
  BY <1>1, <1>4, FailLeavesFiles DEF OpenJob, SyncJob, Walk, IInv, TypeInv
<1>5. ASSUME NEW nested \in BOOLEAN, after' = Synced(nested), count' = count PROVE EditsPast'
  BY <1>5, SyncedTypes DEF EditsPast
<1>6. CASE SyncDir
  BY <1>1, <1>5, <1>6, FailLeavesFiles DEF SyncDir
<1>7. CASE Read \/ Fill \/ Revalidate
  BY <1>1, <1>7, FailLeavesFiles DEF Read, Fill, Revalidate
<1>8. CASE Publish
  <2>1. CASE after' = [after EXCEPT !.file[op.file] = @ \cup {New}] /\ count' = count
    <3>1. \A f \in Files : \A v \in after'.file[f] : v \in after.file[f] \/ v.edit = 0
      BY <2>1 DEF IInv, TypeInv, New
    <3>2. QED
      BY <1>0, <2>1, <3>1 DEF EditsPast
  <2>2. QED
    BY <1>1, <1>8, <2>1, FailLeavesFiles DEF Publish
<1>9. CASE Sync
  <2>1. CASE after' = Synced(op.file \in Nested) /\ count' = count
    <3>1. CASE op.file \in Nested
      <4>1. after' = Synced(TRUE)
        BY <2>1, <3>1 DEF Synced
      <4>2. QED
        BY <1>5, <2>1, <4>1
    <3>2. CASE op.file \notin Nested
      <4>1. (op.file \in Nested) = FALSE
        BY <3>2
      <4>2. after' = Synced(FALSE)
        BY <2>1, <4>1 DEF Synced
      <4>3. QED
        BY <1>5, <2>1, <4>2
    <3>3. QED
      BY <3>1, <3>2
  <2>2. QED
    BY <1>1, <1>9, <2>1 DEF Sync
<1>10. ASSUME NEW g \in Files, Edit(g) PROVE EditsPast'
  <2>1. count'.edits = count.edits + 1
    BY <1>10 DEF Edit, IInv, TypeInv
  <2>2. PICK new \in {Absent, Unsafe, Edited(count'.edits), Rewritten(disk.file[g], count'.edits)} :
          after' = [after EXCEPT !.file[g] = @ \cup {new}]
    BY <1>10 DEF Edit
  <2>3. new.edit \in {0, count'.edits}
    BY DEF Absent, Unsafe, Edited, Rewritten
  <2>4. \A f \in Files : \A v \in after'.file[f] : v \in after.file[f] \/ v = new
    BY <2>2 DEF IInv, TypeInv
  <2>5. \A f \in Files : \A v \in after.file[f] : v.edit \in Nat
    BY DEF IInv, TypeInv, Version
  <2>6. QED
    BY <1>0, <2>1, <2>3, <2>4, <2>5 DEF EditsPast
<1>11. CASE Kill
  BY <1>1, <1>11 DEF Kill
<1>12. CASE PowerLoss
  <2>1. count'.edits = count.edits
    BY <1>12 DEF PowerLoss, IInv, TypeInv
  <2>2. PICK job \in after.job, dir \in after.dir,
             file \in [Files -> UNION {after.file[f] : f \in Files}] :
          /\ \A f \in Files : file[f] \in after.file[f]
          /\ disk' = [job |-> job, dir |-> job /\ dir,
                      file |-> [f \in Files |->
                        IF job /\ (f \in Nested => dir) THEN file[f] ELSE Absent]]
    BY <1>12 DEF PowerLoss
  <2>3. \A f \in Files : after'.file[f] = {disk'.file[f]}
    BY <1>12 DEF PowerLoss
  <2>4. \A f \in Files : disk'.file[f] \in after.file[f] \/ disk'.file[f] = Absent
    BY <2>2
  <2>5. Absent.edit = 0
    BY DEF Absent
  <2>6. QED
    BY <1>0, <2>1, <2>3, <2>4, <2>5 DEF EditsPast
<1>13. QED
  BY <1>2, <1>3, <1>4, <1>6, <1>7, <1>8, <1>9, <1>10, <1>11, <1>12 DEF Next, StoreStep

-----------------------------------------------------------------------------
Whole(g) == g.head = g.tail /\ (g.mark # 0 => g.head.by = g.mark /\ g.head.edit = 0)

Entries == [file : Files \cup {"none", "camera"}, head : Version, tail : Version, mark : Nat]

Descriptors == [file : Files \cup {"none"}, info : Version, now : Version, head : Version, tail : Version]

Readers ==
  [by : {"operator", "job"}, current : BOOLEAN,
   at : {"thinking", "opening", "reading", "checking", "asking"},
   want : {"none", "text", "report", "image", "entries", "analysis"},
   todo : SUBSET Files, fd : Descriptors, batch : SUBSET Entries, got : SUBSET Entries]

\* The open file is as it was found, or has been edited since.
Moved(fd) == fd.info.edit <= count.edits /\ (fd.now = fd.info \/ fd.now.edit > fd.info.edit)

ReaderInv ==
  /\ reader \in Readers \cup {Away}
  /\ Busy => Authority
  /\ reader # Away => \A g \in reader.batch \cup reader.got : Whole(g)
  /\ reader.at \in {"reading", "checking"} =>
       reader.fd.head = reader.fd.info /\ Moved(reader.fd)
  /\ reader.at = "checking" /\ Unchanged => reader.fd.tail = reader.fd.info

ToldInv ==
  /\ told \in [got : SUBSET Entries, current : BOOLEAN]
  /\ ReadWhole

RInv == ReaderInv /\ ToldInv

\* The closed descriptor and the camera's image are of their types.
LEMMA ClosedTypes == Closed \in Descriptors /\ Shot \in Version
BY VersionTypes DEF Closed, Descriptors, Shot, Version

\* No episode is away.
LEMMA AwayIsNoEpisode == Away \notin Readers /\ Away.at = "away"
BY DEF Away, Readers

\* Nobody is told anything, whatever the reader does.
LEMMA NothingTold == ASSUME told' = Nothing PROVE ToldInv'
BY DEF Nothing, ToldInv, ReadWhole

\* A read or a request that fails leaves the episode thinking.
LEMMA GiveUpKeeps ==
  ASSUME RInv, reader \in Readers, GiveUp PROVE RInv'
<1>1. /\ reader' \in Readers /\ reader'.at = "thinking" /\ reader'.batch = {} /\ reader'.got = reader.got
      /\ reader' # Away
  BY ClosedTypes, AwayIsNoEpisode DEF GiveUp, Readers
<1>2. ReaderInv'
  BY <1>1, AwayIsNoEpisode DEF RInv, ReaderInv, Busy
<1>3. QED
  BY <1>2, NothingTold DEF GiveUp, RInv

\* While thinking or asking, only what is kept and what is asked about matters.
LEMMA QuietKeeps ==
  ASSUME reader' \in Readers, reader'.at \in {"thinking", "asking"},
         \A g \in reader'.batch \cup reader'.got : Whole(g)
  PROVE  ReaderInv'
BY DEF ReaderInv, Busy

\* Episodes begin and end, and Runs end.
LEMMA EpisodeKeeps ==
  ASSUME RInv,
         \/ \E by \in {"operator", "job"} : EpisodeBegins(by)
         \/ EpisodeEnds \/ RunEnds
  PROVE  RInv'
<1>1. ASSUME NEW by \in {"operator", "job"}, EpisodeBegins(by) PROVE RInv'
  <2>1. reader' \in Readers /\ reader'.at = "thinking" /\ reader'.batch = {} /\ reader'.got = {}
    BY <1>1, ClosedTypes DEF EpisodeBegins, Readers
  <2>2. UNCHANGED told
    BY <1>1 DEF EpisodeBegins
  <2>3. QED
    BY <2>1, <2>2, QuietKeeps DEF RInv, ToldInv, ReadWhole
<1>2. CASE EpisodeEnds
  BY <1>2, AwayIsNoEpisode, NothingTold DEF EpisodeEnds, RInv, ReaderInv, Busy
<1>3. CASE RunEnds
  <2>1. reader \in Readers
    BY <1>3, AwayIsNoEpisode DEF RunEnds, RInv, ReaderInv
  <2>2. /\ reader' \in Readers /\ reader'.at = reader.at
        /\ reader'.batch = reader.batch /\ reader'.got = reader.got
    BY <1>3, <2>1 DEF RunEnds, Readers
  <2>3. \A g \in reader.batch \cup reader.got : Whole(g)
    BY <2>1, AwayIsNoEpisode DEF RInv, ReaderInv
  <2>4. UNCHANGED told /\ reader.at \in {"thinking", "asking"}
    BY <1>3 DEF RunEnds
  <2>5. QED
    BY <2>2, <2>3, <2>4, QuietKeeps DEF RInv, ToldInv, ReadWhole
<1>4. QED
  BY <1>1, <1>2, <1>3

\* A request for an artifact, a listing or an analysis.
LEMMA AskKeeps ==
  ASSUME RInv, NEW want \in {"text", "report", "image", "entries", "analysis"}, NEW fs \in SUBSET Files,
         Ask(want, fs)
  PROVE  RInv'
<1>1. reader \in Readers /\ reader # Away /\ Authority
  BY AwayIsNoEpisode DEF Ask, RInv, ReaderInv
<1>2. /\ reader' \in Readers /\ reader'.at = "opening" /\ reader'.batch = {} /\ reader'.got = reader.got
      /\ reader'.by = reader.by /\ reader'.current = reader.current
  BY <1>1 DEF Ask, Readers
<1>3. ReaderInv'
  BY <1>1, <1>2 DEF RInv, ReaderInv, Authority
<1>4. QED
  BY <1>3, NothingTold DEF Ask, RInv

\* The opening of an artifact or directory.
LEMMA OpenKeeps == ASSUME IInv, EditsPast, RInv, Open PROVE RInv'
<1>1. reader \in Readers /\ reader # Away /\ reader.at = "opening" /\ Authority
  BY AwayIsNoEpisode DEF Open, RInv, ReaderInv, Busy
<1>2. CASE GiveUp
  BY <1>1, <1>2, GiveUpKeeps
<1>3. ASSUME NEW f \in reader.todo,
             reader' = [reader EXCEPT !.at = "reading",
                          !.fd = [file |-> f, info |-> disk.file[f], now |-> disk.file[f],
                                  head |-> disk.file[f], tail |-> Absent]],
             UNCHANGED told
      PROVE  RInv'
  <2>1. f \in Files /\ disk.file[f] \in Version
    BY <1>1 DEF Readers, IInv, TypeInv
  <2>2. disk.file[f].edit <= count.edits /\ UNCHANGED count
    BY <2>1 DEF IInv, Present, EditsPast, Open, vars
  <2>3. reader'.fd = [file |-> f, info |-> disk.file[f], now |-> disk.file[f],
                      head |-> disk.file[f], tail |-> Absent]
    BY <1>1, <1>3 DEF Readers
  <2>4. reader'.fd \in Descriptors
    BY <2>1, <2>3, VersionTypes DEF Descriptors
  <2>5. /\ reader' \in Readers /\ reader'.at = "reading"
        /\ reader'.batch = reader.batch /\ reader'.got = reader.got
        /\ reader'.by = reader.by /\ reader'.current = reader.current
    BY <1>1, <1>3, <2>3, <2>4 DEF Readers
  <2>6. ReaderInv'
    <3>1. /\ reader'.fd.head = reader'.fd.info /\ reader'.fd.now = reader'.fd.info
          /\ reader'.fd.info.edit <= count'.edits
      BY <2>2, <2>3
    <3>2. \A g \in reader'.batch \cup reader'.got : Whole(g)
      BY <1>1, <2>5 DEF RInv, ReaderInv
    <3>3. QED
      BY <1>1, <2>5, <3>1, <3>2 DEF ReaderInv, Busy, Authority, Moved
  <2>7. QED
    BY <1>3, <2>6 DEF RInv, ToldInv, ReadWhole
<1>4. QED
  BY <1>2, <1>3 DEF Open

\* The last chunk, after which the artifact is looked at again.
LEMMA ReadRestKeeps == ASSUME RInv, ReadRest PROVE RInv'
<1>1. reader \in Readers /\ reader # Away /\ reader.at = "reading" /\ Authority
  BY AwayIsNoEpisode DEF ReadRest, RInv, ReaderInv, Busy
<1>2. CASE GiveUp
  BY <1>1, <1>2, GiveUpKeeps
<1>3. CASE reader' = [reader EXCEPT !.at = "checking", !.fd.tail = reader.fd.now] /\ UNCHANGED told
  <2>1. reader.fd \in Descriptors /\ reader.fd.now \in Version
    BY <1>1 DEF Readers, Descriptors
  <2>2. /\ reader'.fd = [reader.fd EXCEPT !.tail = reader.fd.now]
        /\ reader'.at = "checking"
        /\ reader'.batch = reader.batch /\ reader'.got = reader.got
        /\ reader'.by = reader.by /\ reader'.current = reader.current
    BY <1>1, <1>3 DEF Readers
  <2>3. /\ reader'.fd \in Descriptors /\ reader'.fd.tail = reader.fd.now
        /\ reader'.fd.head = reader.fd.head /\ reader'.fd.info = reader.fd.info
        /\ reader'.fd.now = reader.fd.now
    BY <2>1, <2>2 DEF Descriptors
  <2>4. reader' \in Readers
    BY <1>1, <1>3, <2>2, <2>3 DEF Readers
  <2>5. UNCHANGED count
    BY DEF ReadRest, vars
  <2>6. ReaderInv'
    BY <1>1, <2>2, <2>3, <2>4, <2>5 DEF RInv, ReaderInv, Busy, Authority, Moved, Unchanged
  <2>7. QED
    BY <1>3, <2>6 DEF RInv, ToldInv, ReadWhole
<1>4. QED
  BY <1>2, <1>3 DEF ReadRest

\* A file that is kept or told has been looked at again: it is whole.
LEMMA FinishKeeps == ASSUME RInv, Finish PROVE RInv'
<1>1. reader \in Readers /\ reader # Away /\ reader.at = "checking" /\ Authority
  BY AwayIsNoEpisode DEF Finish, RInv, ReaderInv, Busy
<1>2. CASE GiveUp
  BY <1>1, <1>2, GiveUpKeeps
<1>3. CASE ~GiveUp
  <2> DEFINE todo == reader.todo \ {reader.fd.file}
  <2>1. PICK mark \in IF WantsImage THEN Provenance ELSE {0} :
          LET entry == [file |-> reader.fd.file, head |-> reader.fd.head, tail |-> reader.fd.tail, mark |-> mark]
              batch == reader.batch \cup {entry}
          IN  /\ Unchanged
              /\ reader' = [reader EXCEPT
                   !.todo = todo, !.fd = Closed, !.want = IF todo # {} THEN @ ELSE "none",
                   !.batch = IF todo # {} \/ reader.want = "analysis" THEN batch ELSE {},
                   !.got = IF Keeps THEN @ \cup {entry} ELSE @,
                   !.at = IF todo # {} THEN "opening"
                          ELSE IF reader.want = "analysis" THEN "asking" ELSE "thinking"]
              /\ IF todo # {} \/ reader.want = "analysis" THEN UNCHANGED told ELSE Tell(batch)
    BY <1>3 DEF Finish
  <2> DEFINE entry == [file |-> reader.fd.file, head |-> reader.fd.head, tail |-> reader.fd.tail, mark |-> mark]
             batch == reader.batch \cup {entry}
  <2>2. reader.fd \in Descriptors /\ reader.fd.head \in Version /\ reader.fd.tail \in Version
        /\ reader.fd.file \in Files \cup {"none"}
    BY <1>1 DEF Readers, Descriptors
  <2>3. mark \in Nat /\ (mark # 0 => reader.fd.head.by = mark /\ reader.fd.head.edit = 0)
    BY <2>2 DEF Provenance, Version
  <2>4. entry \in Entries
    BY <2>2, <2>3 DEF Entries
  <2>5. Whole(entry)
    BY <1>1, <2>1, <2>3 DEF RInv, ReaderInv, Whole
  <2>6. /\ batch \in SUBSET Entries /\ reader.got \in SUBSET Entries
        /\ \A g \in batch \cup reader.got : Whole(g)
    BY <1>1, <2>4, <2>5 DEF RInv, ReaderInv, Readers
  <2> HIDE DEF entry, batch, todo
  <2>7. /\ reader'.at = IF todo # {} THEN "opening"
                        ELSE IF reader.want = "analysis" THEN "asking" ELSE "thinking"
        /\ reader'.batch = IF todo # {} \/ reader.want = "analysis" THEN batch ELSE {}
        /\ reader'.got = IF Keeps THEN reader.got \cup {entry} ELSE reader.got
        /\ reader'.by = reader.by /\ reader'.current = reader.current
    BY <1>1, <2>1 DEF Readers, entry, batch, todo
  <2>8. reader'.batch \in SUBSET Entries /\ reader'.got \in SUBSET Entries
    BY <2>4, <2>6, <2>7
  <2>9. reader' \in Readers
    <3>1. todo \in SUBSET Files
      BY <1>1 DEF todo, Readers
    <3>2. /\ reader' = [reader EXCEPT
                   !.todo = todo, !.fd = Closed, !.want = IF todo # {} THEN @ ELSE "none",
                   !.batch = reader'.batch, !.got = reader'.got, !.at = reader'.at]
          /\ reader'.at \in {"opening", "asking", "thinking"}
      BY <1>1, <2>1, <2>7 DEF batch, entry, todo
    <3>3. QED
      BY <1>1, <2>8, <3>1, <3>2, ClosedTypes DEF Readers
  <2>10. \A g \in reader'.batch \cup reader'.got : Whole(g)
    BY <2>5, <2>6, <2>7
  <2>11. ReaderInv'
    BY <1>1, <2>7, <2>9, <2>10 DEF ReaderInv, Busy, Authority
  <2>12. ToldInv'
    <3>1. CASE UNCHANGED told
      BY <3>1 DEF RInv, ToldInv, ReadWhole
    <3>2. CASE told' = [got |-> batch, current |-> Authority]
      <4>1. Authority = TRUE
        BY <1>1 DEF Authority, Readers
      <4>2. told' = [got |-> batch, current |-> TRUE]
        BY <3>2, <4>1
      <4>3. QED
        BY <2>6, <4>2 DEF ToldInv, ReadWhole, Whole
    <3>3. QED
      BY <2>1, <3>1, <3>2 DEF Tell, batch, entry
  <2>13. QED
    BY <2>11, <2>12 DEF RInv
<1>4. QED
  BY <1>2, <1>3

\* What an episode keeps, interprets, delivers and answers.
LEMMA KeptKeeps ==
  ASSUME RInv, Capture \/ (\E images \in SUBSET reader.got : Interpret(images))
               \/ (\E g \in reader.got : DeliverImage(g) \/ DeliverReport(g)) \/ Answered
  PROVE  RInv'
<1>1. reader \in Readers /\ reader # Away /\ reader.at \in {"thinking", "asking"}
  BY AwayIsNoEpisode DEF RInv, ReaderInv, Capture, Interpret, DeliverImage, DeliverReport, Deliver, Answered
<1>2. CASE GiveUp
  BY <1>1, <1>2, GiveUpKeeps
<1>3. \A g \in reader.batch \cup reader.got : g \in Entries /\ Whole(g)
  BY <1>1 DEF RInv, ReaderInv, Readers
<1>4. CASE Capture /\ ~GiveUp
  <2> DEFINE shot == [file |-> "camera", head |-> Shot, tail |-> Shot, mark |-> 0]
  <2>1. reader' = [reader EXCEPT !.got = @ \cup {shot}] /\ Tell({})
    BY <1>4 DEF Capture
  <2>2. shot \in Entries /\ Whole(shot)
    BY ClosedTypes DEF Entries, Whole
  <2> HIDE DEF shot
  <2>3. /\ reader' \in Readers /\ reader'.at = reader.at /\ reader'.batch = reader.batch
        /\ reader'.got = reader.got \cup {shot}
    BY <1>1, <2>1, <2>2 DEF Readers
  <2>4. ReaderInv'
    BY <1>1, <1>3, <2>2, <2>3, QuietKeeps
  <2>5. Authority \in BOOLEAN
    BY <1>1 DEF Authority, Readers
  <2>6. ToldInv'
    BY <2>1, <2>5 DEF Tell, ToldInv, ReadWhole
  <2>7. QED
    BY <2>4, <2>6 DEF RInv
<1>5. ASSUME NEW batch \in SUBSET reader.got, reader' = [reader EXCEPT !.at = "asking", !.batch = batch],
             told' = Nothing
      PROVE  RInv'
  <2>1. /\ reader' \in Readers /\ reader'.at = "asking" /\ reader'.batch = batch /\ reader'.got = reader.got
    BY <1>1, <1>3, <1>5 DEF Readers
  <2>2. QED
    BY <1>3, <1>5, <2>1, QuietKeeps, NothingTold DEF RInv
<1>6. CASE Answered /\ ~GiveUp
  <2>1. Authority /\ Tell(reader.batch) /\ reader' = [reader EXCEPT !.at = "thinking", !.batch = {}]
    BY <1>6 DEF Answered
  <2>2. /\ reader' \in Readers /\ reader'.at = "thinking" /\ reader'.batch = {} /\ reader'.got = reader.got
    BY <1>1, <2>1 DEF Readers
  <2>3. ReaderInv'
    BY <1>3, <2>2, QuietKeeps
  <2>4. Authority = TRUE
    BY <1>1, <2>1 DEF Authority, Readers
  <2>5. told' = [got |-> reader.batch, current |-> TRUE]
    BY <2>1, <2>4 DEF Tell
  <2>6. ToldInv'
    BY <1>1, <1>3, <2>5 DEF ToldInv, ReadWhole, Whole, Readers
  <2>7. QED
    BY <2>3, <2>6 DEF RInv
<1>7. ASSUME NEW images \in SUBSET reader.got, Interpret(images) PROVE RInv'
  BY <1>5, <1>7 DEF Interpret
<1>8. ASSUME NEW g \in reader.got, DeliverImage(g) \/ DeliverReport(g) PROVE RInv'
  <2>1. {g} \in SUBSET reader.got
    OBVIOUS
  <2>2. reader' = [reader EXCEPT !.at = "asking", !.batch = {g}] /\ told' = Nothing
    BY <1>8 DEF DeliverImage, DeliverReport, Deliver
  <2>3. QED
    BY <1>5, <2>1, <2>2
<1>9. QED
  BY <1>2, <1>4, <1>6, <1>7, <1>8 DEF Capture, Answered

\* Someone edits an artifact while it is being read.
LEMMA EditUnderKeeps ==
  ASSUME IInv, RInv, NEW f \in Files, EditUnder(f) PROVE RInv'
<1>1. Edit(f) /\ UNCHANGED <<told, asked>>
  BY DEF EditUnder
<1>2. count'.edits = count.edits + 1 /\ count.edits \in Nat
  BY <1>1 DEF Edit, IInv, TypeInv
<1>3. ToldInv'
  BY <1>1 DEF RInv, ToldInv, ReadWhole
<1>4. reader \in Readers => /\ reader.fd \in Descriptors /\ reader.fd.info.edit \in Nat
  BY DEF Readers, Descriptors, Version
<1>5. CASE reader' = reader
  <2>1. CASE reader = Away
    BY <1>3, <1>5, <2>1, AwayIsNoEpisode DEF RInv, ReaderInv, Busy
  <2>2. CASE reader # Away
    BY <1>2, <1>3, <1>4, <1>5, <2>2 DEF RInv, ReaderInv, Busy, Authority, Moved, Unchanged
  <2>3. QED
    BY <2>1, <2>2
<1>6. CASE /\ Busy /\ reader.at # "opening"
           /\ disk'.file[f] = Rewritten(disk.file[f], count'.edits)
           /\ reader' = [reader EXCEPT !.fd.now = disk'.file[f]]
  <2>1. reader \in Readers /\ reader # Away
    BY <1>6, AwayIsNoEpisode DEF RInv, ReaderInv, Busy
  <2>2. disk'.file[f] \in Version /\ disk'.file[f].edit = count.edits + 1
    BY <1>1, <1>2, <1>6, EditKeeps DEF IInv, TypeInv, Rewritten
  <2>3. /\ reader'.fd = [reader.fd EXCEPT !.now = disk'.file[f]]
        /\ reader'.at = reader.at /\ reader'.by = reader.by /\ reader'.current = reader.current
        /\ reader'.batch = reader.batch /\ reader'.got = reader.got
    BY <1>6, <2>1 DEF Readers
  <2>4. /\ reader'.fd \in Descriptors /\ reader'.fd.now = disk'.file[f]
        /\ reader'.fd.head = reader.fd.head /\ reader'.fd.info = reader.fd.info
        /\ reader'.fd.tail = reader.fd.tail
    BY <1>4, <2>1, <2>2, <2>3 DEF Descriptors
  <2>5. reader' \in Readers
    BY <1>6, <2>1, <2>3, <2>4 DEF Readers
  <2>6. reader.fd.info.edit <= count.edits
    BY <1>6 DEF RInv, ReaderInv, Busy, Moved
  <2>7. reader'.fd.now.edit > reader'.fd.info.edit
    BY <1>2, <1>4, <2>1, <2>2, <2>4, <2>6
  <2>8. reader'.fd.now # reader'.fd.info
    BY <1>4, <2>1, <2>4, <2>7
  <2>9. ReaderInv'
    BY <1>2, <1>4, <2>1, <2>3, <2>4, <2>5, <2>6, <2>7, <2>8
       DEF RInv, ReaderInv, Busy, Authority, Moved, Unchanged
  <2>10. QED
    BY <1>3, <2>9 DEF RInv
<1>7. QED
  BY <1>5, <1>6 DEF EditUnder

\* The inductive step.
LEMMA ReaderStep == IInv /\ EditsPast /\ RInv /\ [ReadingNext]_readingVars => RInv'
<1> SUFFICES ASSUME IInv, EditsPast, RInv, [ReadingNext]_readingVars PROVE RInv'
  OBVIOUS
<1>1. CASE UNCHANGED readingVars
  BY <1>1 DEF readingVars, vars, RInv, ReaderInv, ToldInv, ReadWhole, Busy, Authority, Moved, Unchanged
<1>2. CASE Reads
  BY <1>2, EpisodeKeeps, AskKeeps, OpenKeeps, ReadRestKeeps, FinishKeeps, KeptKeeps DEF Reads
<1>3. CASE Stores
  <2>1. UNCHANGED <<reader, told>> /\ ~Busy
    BY <1>3 DEF Stores
  <2>2. QED
    BY <2>1 DEF RInv, ReaderInv, ToldInv, ReadWhole, Busy
<1>4. CASE \E f \in Files : EditUnder(f)
  BY <1>4, EditUnderKeeps
<1>5. CASE Dies
  BY <1>5, AwayIsNoEpisode, NothingTold DEF Dies, RInv, ReaderInv, Busy
<1>6. QED
  BY <1>1, <1>2, <1>3, <1>4, <1>5 DEF ReadingNext

\* What an episode is told, keeps, has interpreted or delivers is one version of the file,
\* whole; an image is ascribed only to the write that stored these bytes; and Job work is
\* told nothing after its Run has ended (workspace.py, read and list; app.py, the episode's
\* images and reports), for any number of requests and edits.
THEOREM AnswersWhole == ReadingSpec => []ReadWhole
<1>1. ReadingInit => EditsPast /\ RInv
  BY AwayIsNoEpisode
     DEF ReadingInit, Init, EditsPast, Absent, RInv, ReaderInv, ToldInv, ReadWhole, Nothing, Busy
<1>2. RInv => ReadWhole
  BY DEF RInv, ToldInv
<1>3. QED
  BY <1>1, <1>2, ReadingImplementsStore, InvHolds, ReadingStep, EditsPastStep, ReaderStep, PTL
     DEF ReadingSpec
=============================================================================
