---------------------------- MODULE JobWorkspace ----------------------------
(***************************************************************************)
(* The workspace of one Job: how a write reaches the file system, call by  *)
(* call, while calls fail, the process is killed, the power is lost and    *)
(* somebody edits the same files; and what its result tells the model.     *)
(***************************************************************************)
EXTENDS Integers, FiniteSets, FiniteSetsExt

CONSTANTS
  Files,        \* artifacts, by logical path
  Nested,       \* the ones in a directory of the workspace
  MaxRequest,   \* MAX_WRITE_REQUEST_BYTES, of a text
  MaxText, MaxImage,    \* MAX_ARTIFACT_BYTES, MAX_IMAGE_BYTES
  MaxFiles, MaxTotal,   \* MAX_WORKSPACE_FILES, MAX_WORKSPACE_CONTENT_BYTES
  MaxNames,     \* _MAX_LIST_NAMESPACE
  MaxWrites, MaxEdits, MaxLosses   \* bounds of a behaviour

ASSUME FilesAssumption == Nested \subseteq Files
ASSUME LimitsAssumption ==
  {MaxRequest, MaxText, MaxImage, MaxFiles, MaxTotal, MaxNames, MaxWrites, MaxEdits, MaxLosses} \subseteq Nat

VARIABLES
  disk,      \* what the process sees: [job, dir, file]
  after,     \* what a power loss may leave of each
  litter,    \* temporary files no write owns
  op,        \* the write under way
  result,    \* of the last write: [by, status, published, durable]
  confirmed, \* history: the artifact confirmed durable under a path, unless changed since
  left,      \* history: directories a cut short write left unsynced
  count      \* writes, edits and losses so far

vars == <<disk, after, litter, op, result, confirmed, left, count>>

Kinds == {"text", "image"}
Modes == {"create", "replace", "append", "upsert"}
Limit(k) == IF k = "text" THEN MaxText ELSE MaxImage

\* A version of a file: the write that stored it, and the edit that has changed it since.
Absent == [kind |-> "none", size |-> 0, by |-> 0, edit |-> 0]
Unsafe == [kind |-> "unsafe", size |-> 0, by |-> 0, edit |-> 0]     \* a link, a pipe, a huge file
Edited(n) == [kind |-> "text", size |-> 1, by |-> 0, edit |-> n]
Rewritten(v, n) == [kind |-> v.kind, size |-> v.size, by |-> v.by, edit |-> n]     \* in place
Idle   == [at |-> "idle"]
Here(f) == disk.file[f] # Absent

Init ==
  /\ disk = [job |-> FALSE, dir |-> FALSE, file |-> [f \in Files |-> Absent]]
  /\ after = [job |-> {FALSE}, dir |-> {FALSE}, file |-> [f \in Files |-> {Absent}]]
  /\ litter = 0 /\ op = Idle /\ left = {}
  /\ result = [by |-> 0, status |-> "none", published |-> FALSE, durable |-> FALSE]
  /\ confirmed = [f \in Files |-> Absent]
  /\ count = [writes |-> 0, edits |-> 0, losses |-> 0]

-----------------------------------------------------------------------------
\* How a write ends.  What failed before publication takes its temporary file and the
\* empty directories it made away, as far as that succeeds.
End(status, published, durable) ==
  /\ op' = Idle
  /\ result' = [by |-> op.by, status |-> status, published |-> published, durable |-> durable]

HasTemp == op.at \in {"filling", "checking", "publishing"}
Unsynced(d, a) ==
  {x \in {"job", "dir"} : d[x] /\ FALSE \in a[x]}

Fail(status) ==
  \E kept, dirGone, jobGone \in BOOLEAN :
    /\ kept => HasTemp
    /\ dirGone => op.madeDir /\ ~kept /\ \A f \in Nested : ~Here(f)
    /\ jobGone => op.madeJob /\ ~kept /\ (dirGone \/ ~disk.dir) /\ \A f \in Files : ~Here(f)
    /\ litter' = litter + IF kept THEN 1 ELSE 0
    /\ disk' = [disk EXCEPT !.dir = @ /\ ~dirGone, !.job = @ /\ ~jobGone]
    /\ after' = [after EXCEPT !.dir = IF dirGone THEN @ \cup {FALSE} ELSE @,
                              !.job = IF jobGone THEN @ \cup {FALSE} ELSE @]
    /\ left' = left \cup Unsynced(disk', after')
    /\ End(status, FALSE, FALSE)
    /\ UNCHANGED <<confirmed, count>>

-----------------------------------------------------------------------------
\* One write, call by call.
Making == op.mode \in {"create", "upsert"}

WriteArrives(f, mode, kind, size) ==
  /\ op = Idle /\ count.writes < MaxWrites
  /\ kind = "image" => mode # "append"
  /\ size <= IF kind = "text" THEN MaxRequest ELSE MaxImage
  /\ count' = [count EXCEPT !.writes = @ + 1]
  /\ op' = [at |-> "opening", file |-> f, mode |-> mode, kind |-> kind, size |-> size,
            by |-> count'.writes, madeJob |-> FALSE, madeDir |-> FALSE, old |-> Absent, late |-> FALSE]
  /\ UNCHANGED <<disk, after, litter, result, confirmed, left>>

Stage(at) == op' = [op EXCEPT !.at = at]

\* The Job's directory: found, or made and its parent synced.  A system call that fails
\* here ends the write with the bare OSError.
OpenJob ==
  /\ op.at = "opening"
  /\ \/ /\ disk.job /\ Stage("walking")
        /\ UNCHANGED <<disk, after, litter, result, confirmed, left, count>>
     \/ ~disk.job /\ ~Making /\ Fail("refused")
     \/ ~disk.job /\ Making /\ Fail("raised")
     \/ /\ ~disk.job /\ Making
        /\ disk' = [disk EXCEPT !.job = TRUE]
        /\ after' = [after EXCEPT !.job = @ \cup {TRUE}]
        /\ op' = [op EXCEPT !.at = "syncing job", !.madeJob = TRUE]
        /\ UNCHANGED <<litter, result, confirmed, left, count>>

SyncJob ==
  /\ op.at = "syncing job"
  /\ \/ /\ after' = [after EXCEPT !.job = {TRUE}] /\ left' = left \ {"job"}
        /\ Stage("walking")
        /\ UNCHANGED <<disk, litter, result, confirmed, count>>
     \/ Fail("raised")

Walk ==
  /\ op.at = "walking"
  /\ \/ /\ op.file \in Nested => disk.dir
        /\ Stage("reading")
        /\ UNCHANGED <<disk, after, litter, result, confirmed, left, count>>
     \/ op.file \in Nested /\ ~disk.dir /\ Fail("refused")
     \/ /\ op.file \in Nested /\ ~disk.dir /\ Making
        /\ disk' = [disk EXCEPT !.dir = TRUE]
        /\ after' = [after EXCEPT !.dir = @ \cup {TRUE}]
        /\ op' = [op EXCEPT !.at = "syncing dir", !.madeDir = TRUE]
        /\ UNCHANGED <<litter, result, confirmed, left, count>>

\* fsync of the workspace makes its other entries durable too.
Synced(nested) ==
  [after EXCEPT !.dir = IF nested THEN @ ELSE {disk.dir},
                !.file = [f \in Files |-> IF (f \in Nested) = nested THEN {disk.file[f]} ELSE @[f]]]

\* Mutant of SyncDir: a directory just made is not synced.
SyncDirForgotten ==
  op.at = "syncing dir" /\ Stage("reading")
  /\ UNCHANGED <<disk, after, litter, result, confirmed, left, count>>

SyncDir ==
  /\ op.at = "syncing dir"
  /\ \/ /\ after' = Synced(FALSE) /\ left' = left \ {"dir"}
        /\ Stage("reading")
        /\ UNCHANGED <<disk, litter, result, confirmed, count>>
     \/ Fail("refused")

\* _usage and the projected quota.
Artifacts == {f \in Files : Here(f)}
Used == FoldSet(LAMBDA f, s : disk.file[f].size + s, 0, Artifacts)
Names == litter + Cardinality(Artifacts) + IF disk.dir THEN 1 ELSE 0
NewSize(old) == op.size + IF op.mode = "append" THEN old.size ELSE 0

\* _usage's own refusal: the workspace is already beyond a limit.
Overfull == Names > MaxNames \/ Cardinality(Artifacts) > MaxFiles \/ Used > MaxTotal

OverQuota(old) ==
  \/ NewSize(old) > Limit(op.kind)
  \/ Overfull
  \/ Cardinality(Artifacts) + (IF old = Absent THEN 1 ELSE 0) > MaxFiles
  \/ Used - old.size + NewSize(old) > MaxTotal

Refused(old) ==
  \/ old = Unsafe
  \/ op.mode = "create" /\ old # Absent
  \/ op.mode \in {"replace", "append"} /\ old = Absent
  \/ old # Absent /\ old.kind # op.kind
  \/ \E f \in Files : disk.file[f] = Unsafe
  \/ OverQuota(old)

Read ==
  /\ op.at = "reading"
  /\ LET old == disk.file[op.file]
     IN  \/ Fail("refused")
         \/ /\ ~Refused(old)
            /\ op' = [op EXCEPT !.at = "filling", !.old = old, !.size = NewSize(old)]
            /\ UNCHANGED <<disk, after, litter, result, confirmed, left, count>>

\* The temporary file has all its bytes, its provenance and an fsync.
Fill ==
  /\ op.at = "filling"
  /\ \/ /\ Stage(IF op.old = Absent THEN "publishing" ELSE "checking")
        /\ UNCHANGED <<disk, after, litter, result, confirmed, left, count>>
     \/ Fail("refused")

Revalidate ==
  /\ op.at = "checking"
  /\ IF disk.file[op.file] = op.old
     THEN /\ Stage("publishing")
          /\ UNCHANGED <<disk, after, litter, result, confirmed, left, count>>
     ELSE Fail("refused")

\* The rename: over the artifact that was there, or only where there is none.
New == [kind |-> op.kind, size |-> op.size, by |-> op.by, edit |-> 0]

\* Mutant of Publish: a creation is published like a replacement.
PublishOver ==
  /\ op.at = "publishing"
  /\ \/ /\ disk' = [disk EXCEPT !.file[op.file] = New]
        /\ after' = [after EXCEPT !.file[op.file] = @ \cup {New}]
        /\ confirmed' = [confirmed EXCEPT ![op.file] = Absent]
        /\ Stage("syncing")
        /\ UNCHANGED <<litter, result, left, count>>
     \/ Fail("refused")

Publish ==
  /\ op.at = "publishing"
  /\ \/ /\ op.old = Absent => ~Here(op.file)
        /\ disk' = [disk EXCEPT !.file[op.file] = New]
        /\ after' = [after EXCEPT !.file[op.file] = @ \cup {New}]
        /\ confirmed' = [confirmed EXCEPT ![op.file] = Absent]
        /\ Stage("syncing")
        /\ UNCHANGED <<litter, result, left, count>>
     \/ Fail("refused")

\* Mutant of Sync: a failed sync is reported like any other failure.
SyncRefused ==
  /\ op.at = "syncing"
  /\ \/ /\ after' = Synced(op.file \in Nested)
        /\ confirmed' = IF disk.file[op.file] = New THEN [confirmed EXCEPT ![op.file] = New]
                        ELSE confirmed
        /\ left' = IF op.file \in Nested THEN left ELSE left \ {"dir"}
        /\ End("applied", TRUE, TRUE)
     \/ End("refused", FALSE, FALSE) /\ UNCHANGED <<after, confirmed, left>>
  /\ UNCHANGED <<disk, litter, count>>

Sync ==
  /\ op.at = "syncing"
  /\ \/ /\ after' = Synced(op.file \in Nested)
        /\ confirmed' = IF disk.file[op.file] = New THEN [confirmed EXCEPT ![op.file] = New]
                        ELSE confirmed
        /\ left' = IF op.file \in Nested THEN left ELSE left \ {"dir"}
        /\ End("applied", TRUE, TRUE)
     \/ End("indeterminate", TRUE, FALSE) /\ UNCHANGED <<after, confirmed, left>>
  /\ UNCHANGED <<disk, litter, count>>

-----------------------------------------------------------------------------
\* An edit by someone else, at any moment.
Edit(f) ==
  /\ count.edits < MaxEdits
  /\ disk.job /\ (f \in Nested => disk.dir)
  /\ count' = [count EXCEPT !.edits = @ + 1]
  /\ \E new \in {Absent, Unsafe, Edited(count'.edits)} \cup
                (IF disk.file[f] \in {Absent, Unsafe} THEN {} ELSE {Rewritten(disk.file[f], count'.edits)}) :
       /\ new # disk.file[f]
       /\ disk' = [disk EXCEPT !.file[f] = new]
       /\ after' = [after EXCEPT !.file[f] = @ \cup {new}]
  /\ confirmed' = [confirmed EXCEPT ![f] = Absent]
  /\ op' = IF op.at = "publishing" /\ op.file = f THEN [op EXCEPT !.late = TRUE] ELSE op
  /\ UNCHANGED <<litter, result, left>>

\* The process dies; its temporary file and directories stay.
Kill ==
  /\ op # Idle /\ op' = Idle
  /\ litter' = litter + IF HasTemp THEN 1 ELSE 0
  /\ left' = left \cup Unsynced(disk, after)
  /\ UNCHANGED <<disk, after, result, confirmed, count>>

\* The power is lost: of what was not synced any part may remain.
PowerLoss ==
  /\ count.losses < MaxLosses
  /\ count' = [count EXCEPT !.losses = @ + 1]
  /\ \E job \in after.job, dir \in after.dir :
       \E file \in [Files -> UNION {after.file[f] : f \in Files}] :
         /\ \A f \in Files : file[f] \in after.file[f]
         /\ disk' = [job |-> job, dir |-> job /\ dir,
                     file |-> [f \in Files |->
                       IF job /\ (f \in Nested => dir) THEN file[f] ELSE Absent]]
  /\ after' = [job |-> {disk'.job}, dir |-> {disk'.dir}, file |-> [f \in Files |-> {disk'.file[f]}]]
  /\ \E kept \in 0 .. 1 : litter' = IF disk'.job THEN litter + (IF op # Idle /\ HasTemp THEN kept ELSE 0) ELSE 0
  /\ op' = Idle /\ left' = {}
  /\ confirmed' = [f \in Files |-> IF disk'.file[f] = confirmed[f] THEN confirmed[f] ELSE Absent]
  /\ UNCHANGED result

StoreStep ==
  \/ \E f \in Files, m \in Modes, k \in Kinds, s \in 1 .. Max({MaxRequest, MaxImage}) : WriteArrives(f, m, k, s)
  \/ OpenJob \/ SyncJob \/ Walk \/ SyncDir \/ Read \/ Fill \/ Revalidate \/ Publish \/ Sync

Next == StoreStep \/ (\E f \in Files : Edit(f)) \/ Kill \/ PowerLoss

Spec == Init /\ [][Next]_vars

-----------------------------------------------------------------------------
\* No power loss takes an artifact whose write was reported durable, unless a write cut
\* short before that one had left its directory unsynced.
Survives ==
  \A f \in Files :
    confirmed[f] # Absent =>
      /\ after.file[f] = {confirmed[f]}
      /\ after.job = {TRUE} \/ "job" \in left
      /\ f \in Nested => after.dir = {TRUE} \/ "dir" \in left

\* A result that says nothing was published is true, however far the write had come.
ResultTrue ==
  result.by # 0 /\ ~result.published => \A f \in Files : disk.file[f].by # result.by

\* A write replaces what it has read and nothing else, except an edit in the instant
\* between its last look and its rename; a creation not even that.
Unclobbered ==
  [][\A f \in Files : disk'.file[f].by > 0 /\ disk'.file[f] # disk.file[f] /\ count' = count =>
       disk.file[f] = op.old \/ (op.late /\ op.old # Absent)]_vars
=============================================================================
