-------------------------- MODULE WorkspaceReading --------------------------
(***************************************************************************)
(* What an attention episode reads of a workspace and what becomes of it:  *)
(* artifacts and listings, read chunk by chunk while somebody edits the    *)
(* same files; images and reports kept for the episode, interpreted and    *)
(* delivered while other episodes write and the reader's Run may end.      *)
(***************************************************************************)
EXTENDS JobWorkspace

CONSTANT MaxReads      \* requests of a behaviour

ASSUME ReadsAssumption == MaxReads \in Nat

VARIABLES
  reader,    \* the episode that reads, and the read it is in
  told,      \* its last answer: [got, current]
  asked      \* requests so far

readingVars == <<vars, reader, told, asked>>

Away == [at |-> "away"]
Closed == [file |-> "none", info |-> Absent, now |-> Absent, head |-> Absent, tail |-> Absent]
Nothing == [got |-> {}, current |-> TRUE]
Busy == reader.at \in {"opening", "reading", "checking"}     \* in a call of the store, which never awaits

ReadingInit == Init /\ reader = Away /\ told = Nothing /\ asked = 0

-----------------------------------------------------------------------------
EpisodeBegins(by) ==
  /\ reader = Away /\ asked < MaxReads
  /\ reader' = [by |-> by, current |-> TRUE, at |-> "thinking", want |-> "none", todo |-> {},
                fd |-> Closed, batch |-> {}, got |-> {}]
  /\ UNCHANGED <<vars, told, asked>>

\* The episode ends, or dies with its process: what it kept is gone.
EpisodeEnds ==
  /\ reader # Away /\ reader' = Away /\ told' = Nothing
  /\ UNCHANGED <<vars, asked>>

\* The Run the Job work belongs to ends or is taken over by another binding.
RunEnds ==
  /\ reader.at \in {"thinking", "asking"} /\ reader.by = "job"
  /\ reader' = [reader EXCEPT !.current = FALSE]
  /\ UNCHANGED <<vars, told, asked>>

\* _current_job_workspace_authority; an operator's episode needs none.
Authority == reader.by = "operator" \/ reader.current

GiveUp ==
  /\ reader' = [reader EXCEPT !.at = "thinking", !.want = "none", !.todo = {}, !.fd = Closed, !.batch = {}]
  /\ told' = Nothing

Tell(what) == told' = [got |-> what, current |-> Authority]

-----------------------------------------------------------------------------
\* One request: a text, a report to keep, an image to keep, a directory, or the images of
\* an analysis.
Listed == {{f \in Files \ Nested : Here(f)}, {f \in Nested : Here(f)}}

Ask(want, files) ==
  /\ reader.at = "thinking" /\ op = Idle /\ asked < MaxReads
  /\ Authority
  /\ want = "report" => reader.by = "operator"
  /\ IF want = "entries" THEN files \in Listed
     ELSE want = "analysis" \/ Cardinality(files) = 1
  /\ files # {}
  /\ asked' = asked + 1 /\ told' = Nothing
  /\ reader' = [reader EXCEPT !.at = "opening", !.want = want, !.todo = files, !.batch = {}]
  /\ UNCHANGED vars

Keeps == reader.want \in {"image", "report", "analysis"}
WantsImage == reader.want \in {"image", "analysis"}

UsageKnown == ~Overfull /\ \A f \in Files : disk.file[f] # Unsafe

\* Open a file, look at it and read its first bytes.
Open ==
  /\ reader.at = "opening"
  /\ \/ \E f \in reader.todo :
          LET v == disk.file[f]
          IN  /\ v \notin {Absent, Unsafe}
              /\ ~WantsImage /\ reader.want # "entries" => v.size <= MaxText
              /\ WantsImage => UsageKnown
              /\ reader' = [reader EXCEPT !.at = "reading", !.fd = [file |-> f, info |-> v, now |-> v, head |-> v, tail |-> Absent]]
              /\ UNCHANGED told
     \/ GiveUp
  /\ UNCHANGED <<vars, asked>>

ReadRest ==
  /\ reader.at = "reading"
  /\ \/ reader' = [reader EXCEPT !.at = "checking", !.fd.tail = reader.fd.now] /\ UNCHANGED told
     \/ GiveUp
  /\ UNCHANGED <<vars, asked>>

\* Mutant of Unchanged: the file is not looked at again.
UnchangedSupposed == TRUE

Unchanged == reader.fd.now = reader.fd.info

\* The file's attribute names the write that stored it, and counts only for its bytes.
Provenance ==
  IF reader.fd.head = reader.fd.tail /\ reader.fd.head.by > 0 /\ reader.fd.head.edit = 0
     /\ reader.fd.head.by = reader.fd.now.by
  THEN {0, reader.fd.head.by} ELSE {0}

Suits(kind) ==
  CASE WantsImage -> kind = "image"
    [] reader.want = "entries" -> kind = "image" => UsageKnown
    [] OTHER -> kind = "text"

\* The last look at the file, and its bytes as what they are.
Finish ==
  /\ reader.at = "checking"
  /\ \/ \E mark \in IF WantsImage THEN Provenance ELSE {0} :
          LET entry == [file |-> reader.fd.file, head |-> reader.fd.head, tail |-> reader.fd.tail, mark |-> mark]
              todo == reader.todo \ {reader.fd.file}
              batch == reader.batch \cup {entry}
          IN  /\ Unchanged /\ Suits(reader.fd.head.kind)
              /\ reader' = [reader EXCEPT
                   !.todo = todo, !.fd = Closed, !.want = IF todo # {} THEN @ ELSE "none",
                   !.batch = IF todo # {} \/ reader.want = "analysis" THEN batch ELSE {},
                   !.got = IF Keeps THEN @ \cup {entry} ELSE @,
                   !.at = IF todo # {} THEN "opening"
                          ELSE IF reader.want = "analysis" THEN "asking" ELSE "thinking"]
              /\ IF todo # {} \/ reader.want = "analysis" THEN UNCHANGED told ELSE Tell(batch)
     \/ GiveUp
  /\ UNCHANGED <<vars, asked>>

-----------------------------------------------------------------------------
\* What is kept: a camera image joins it; images are interpreted by the provider, an image
\* or a report delivered by a route, both awaited.
Shot == [kind |-> "image", size |-> 1, by |-> 0, edit |-> 0]

Capture ==
  /\ reader.at = "thinking" /\ op = Idle /\ asked < MaxReads /\ Authority
  /\ asked' = asked + 1
  /\ \/ /\ reader' = [reader EXCEPT !.got = @ \cup {[file |-> "camera", head |-> Shot, tail |-> Shot, mark |-> 0]}]
        /\ Tell({})
     \/ GiveUp
  /\ UNCHANGED vars

Interpret(images) ==
  /\ reader.at = "thinking" /\ op = Idle /\ Authority
  /\ images # {} /\ \A g \in images : g.head.kind = "image"
  /\ reader' = [reader EXCEPT !.at = "asking", !.batch = images]
  /\ told' = Nothing
  /\ UNCHANGED <<vars, asked>>

Deliver(g) ==
  /\ reader.at = "thinking" /\ op = Idle /\ reader.by = "operator"
  /\ reader' = [reader EXCEPT !.at = "asking", !.batch = {g}]
  /\ told' = Nothing
  /\ UNCHANGED <<vars, asked>>

DeliverImage(g) == g.head.kind = "image" /\ Deliver(g)
DeliverReport(g) == g.head.kind = "text" /\ Deliver(g)

\* The provider or the route has answered.
Answered ==
  /\ reader.at = "asking"
  /\ \/ /\ Authority /\ Tell(reader.batch)
        /\ reader' = [reader EXCEPT !.at = "thinking", !.batch = {}]
     \/ GiveUp
  /\ UNCHANGED <<vars, asked>>

-----------------------------------------------------------------------------
\* The store's calls never meet, edits meet them all: one in place reaches the open file.
Reads ==
  \/ \E by \in {"operator", "job"} : EpisodeBegins(by)
  \/ EpisodeEnds \/ RunEnds
  \/ \E want \in {"text", "report", "image", "entries", "analysis"}, fs \in SUBSET Files : Ask(want, fs)
  \/ Open \/ ReadRest \/ Finish \/ Capture
  \/ reader # Away /\ (\E images \in SUBSET reader.got : Interpret(images))
  \/ reader # Away /\ (\E g \in reader.got : DeliverImage(g) \/ DeliverReport(g))
  \/ Answered

Stores == StoreStep /\ ~Busy /\ UNCHANGED <<reader, told, asked>>

EditUnder(f) ==
  /\ Edit(f)
  /\ LET inPlace == disk'.file[f] = Rewritten(disk.file[f], count'.edits)
         reached == Busy /\ reader.at # "opening" /\ reader.fd.file = f /\ reader.fd.now = disk.file[f]
     IN  reader' = IF inPlace /\ reached THEN [reader EXCEPT !.fd.now = disk'.file[f]] ELSE reader
  /\ UNCHANGED <<told, asked>>

Dies == (Kill \/ PowerLoss) /\ reader' = Away /\ told' = Nothing /\ UNCHANGED asked

ReadingNext == Reads \/ Stores \/ (\E f \in Files : EditUnder(f)) \/ Dies

ReadingSpec == ReadingInit /\ [][ReadingNext]_readingVars

-----------------------------------------------------------------------------
\* What an episode is told, keeps, has interpreted or delivers is one version of the file,
\* whole; an image is ascribed to a write only if it is what that write stored; and Job
\* work is told nothing once its Run is no longer its own.
ReadWhole ==
  /\ \A g \in told.got : g.head = g.tail /\ (g.mark # 0 => g.head.by = g.mark /\ g.head.edit = 0)
  /\ told.got # {} => told.current
=============================================================================
