----------------------------- MODULE SmsService -----------------------------
(***************************************************************************)
(* The Twilio transport: the webhook and its bounded inbox, the one worker *)
(* that takes a message through its attachments and cognition to a reply,  *)
(* the durable state of a message's ingestion, and what the runtime        *)
(* submits to the provider.  The process may die anywhere, the store may   *)
(* fail at any access, and Twilio repeats webhooks at will.                *)
(***************************************************************************)
EXTENDS Integers, Sequences, FiniteSets, SequencesExt

CONSTANTS
  Texts,         \* operator messages without attachments
  Media,         \* and with Attachments of them each
  Attachments,   \* how many: 1..4
  Images,        \* images the runtime may submit, each once
  Notices,       \* texts the runtime may submit, each once
  Loads,         \* bound: the messages and submissions of a behaviour, together
  InboxSize,     \* SMS_INBOX_SIZE
  DedupeSize,    \* SMS_DEDUPE_SIZE
  MaxItems,      \* OUTBOUND_MEDIA_MAX_ITEMS
  MaxPosts       \* bound: webhooks of a behaviour

ASSUME SizesAssumption ==
  /\ InboxSize \in Nat \ {0} /\ DedupeSize \in Nat /\ DedupeSize > InboxSize
  /\ Attachments \in Nat /\ MaxItems \in Nat

Messages == Texts \cup Media
Submissions == Messages \cup Images \cup Notices   \* a message stands for its reply

ASSUME KindsAssumption == Texts \cap Media = {} /\ Images \cap (Messages \cup Notices) = {}

Index == 1 .. Attachments

VARIABLES
  load,       \* the member of Loads, fixed
  service,    \* "off", "on", "stopping" (the listener closes), "joining" (the worker)
  posting,    \* messages whose webhook awaits its form
  posts,      \* webhooks sent so far
  inbox,      \* _inbox
  accepted,   \* _accepted_fifo
  worker,     \* _run_worker, between two of its awaits
  row,        \* media_ingestions.status
  saved,      \* media.status
  send,       \* a submission: the coroutine waits for the thread, or has left it
  atTwilio,   \* whether Twilio has taken the submission
  attempt,    \* delivery_attempts.status
  staged,     \* the outbound media store
  aged,       \* images staged longer than the TTL ago, or in an earlier process
  turns,      \* history: cognition begun in this process
  claims      \* history: cognition begun under a claim, ever

ingestion == <<row, saved>>
outbound == <<send, atTwilio, attempt, staged, aged>>
history == <<turns, claims>>
vars == <<load, service, posting, posts, inbox, accepted, worker, ingestion, outbound, history>>

Resting == [stage |-> "idle", message |-> "none", next |-> 0, tracking |-> FALSE]
Accepting == service = "on"

\* Other callbacks run only while the worker awaits.
Yielded == worker.stage \notin {"loading", "claiming"}

Init ==
  /\ load \in Loads
  /\ service = "off"
  /\ posting = {} /\ posts = 0
  /\ inbox = <<>> /\ accepted = <<>> /\ worker = Resting
  /\ row = [m \in Media |-> "none"]
  /\ saved = [m \in Media |-> [i \in Index |-> "none"]]
  /\ send = [d \in Submissions |-> "none"]
  /\ atTwilio = [d \in Submissions |-> FALSE]
  /\ attempt = [d \in Submissions |-> "none"]
  /\ staged = {} /\ aged = {}
  /\ turns = [m \in Messages |-> 0] /\ claims = [m \in Media |-> 0]

-----------------------------------------------------------------------------
\* The webhook.  Parsing the form yields; everything after it is one step.
PostArrives(m) ==
  /\ Yielded /\ Accepting
  /\ m \in load \ posting /\ posts < MaxPosts
  /\ posting' = posting \cup {m}
  /\ posts' = posts + 1
  /\ UNCHANGED <<load, service, inbox, accepted, worker, ingestion, outbound, history>>

\* _remember and _forget.
Remembered(m) ==
  LET all == Append(accepted, m)
  IN  IF Len(all) > DedupeSize THEN Tail(all) ELSE all
Forgotten(m) == RemoveFirst(accepted, m)   \* there once at most

\* The state of a partial intake, or none, lets a message in; so does a store that
\* cannot be read.
Duplicate(m, readable) ==
  m \in ToSet(accepted) \/ (m \in Media /\ readable /\ row[m] \notin {"none", "partial"})

Accept(m) ==
  /\ Yielded /\ m \in posting
  /\ posting' = posting \ {m}
  /\ \E readable \in BOOLEAN :
       IF Accepting /\ ~Duplicate(m, readable) /\ Len(inbox) < InboxSize
       THEN inbox' = Append(inbox, m) /\ accepted' = Remembered(m)
       ELSE UNCHANGED <<inbox, accepted>>
  /\ UNCHANGED <<load, service, posts, worker, ingestion, outbound, history>>

-----------------------------------------------------------------------------
\* The worker.  Between Take and the next await of each path it runs through.
WithCognition(m) ==
  /\ worker' = [worker EXCEPT !.stage = "cognition", !.message = m]
  /\ turns' = [turns EXCEPT ![m] = @ + 1]

AskForText ==
  /\ worker.stage = "idle" /\ Accepting /\ inbox # <<>> /\ Head(inbox) \in Texts
  /\ inbox' = Tail(inbox)
  /\ WithCognition(Head(inbox))
  /\ UNCHANGED <<load, service, posting, posts, accepted, ingestion, outbound, claims>>

BeginReplacing ==
  LET m == Head(inbox)
  IN  /\ worker.stage = "idle" /\ Accepting /\ inbox # <<>> /\ m \in Media
      /\ inbox' = Tail(inbox)
      /\ row' = [row EXCEPT ![m] = "partial"]
      /\ worker' = [stage |-> "loading", message |-> m, next |-> 1, tracking |-> TRUE]
      /\ UNCHANGED <<load, service, posting, posts, accepted, saved, outbound, history>>

\* begin_ingestion: the first intake makes the record, a later one finds it.  Without
\* the store the intake goes on untracked.
BeginIngestion ==
  LET m == Head(inbox)
      intake(tracking) == [stage |-> "loading", message |-> m, next |-> 1, tracking |-> tracking]
  IN  /\ worker.stage = "idle" /\ Accepting /\ inbox # <<>> /\ m \in Media
      /\ inbox' = Tail(inbox)
      /\ \/ row[m] = "none" /\ row' = [row EXCEPT ![m] = "partial"] /\ worker' = intake(TRUE)
         \/ row[m] = "partial" /\ worker' = intake(TRUE) /\ UNCHANGED row
         \/ row[m] \notin {"none", "partial"} /\ UNCHANGED <<row, worker>>
         \/ worker' = intake(FALSE) /\ UNCHANGED row
      /\ UNCHANGED <<load, service, posting, posts, accepted, saved, outbound, history>>

\* The store refuses a message whose number of attachments is not the recorded one:
\* the intake fails before it has begun, and the record stays as it was.
IngestionRefused ==
  LET m == Head(inbox)
  IN  /\ worker.stage = "idle" /\ Accepting /\ inbox # <<>> /\ m \in Media
      /\ inbox' = Tail(inbox)
      /\ worker' = [stage |-> "apology", message |-> m, next |-> 1, tracking |-> FALSE]
      /\ accepted' = Forgotten(m)
      /\ UNCHANGED <<load, service, posting, posts, ingestion, outbound, history>>

\* What is still queued when the service stops is dropped.
DropQueued ==
  /\ worker.stage = "idle" /\ ~Accepting /\ service # "off" /\ inbox # <<>>
  /\ inbox' = Tail(inbox)
  /\ UNCHANGED <<load, service, posting, posts, accepted, worker, ingestion, outbound, history>>

\* A saved attachment is used again, a deleted one is a failure, any other one (or
\* one the store cannot tell of) is downloaded.
LoadAttachment ==
  LET m == worker.message  i == worker.next
  IN  /\ worker.stage = "loading" /\ i \in Index
      /\ \/ /\ saved[m][i] = "available"
            /\ worker' = [worker EXCEPT !.next = i + 1]
            /\ UNCHANGED accepted
         \/ /\ saved[m][i] = "deleted"
            /\ worker' = [worker EXCEPT !.stage = "apology"]
            /\ accepted' = Forgotten(m)
         \/ /\ worker' = [worker EXCEPT !.stage = "downloading"]
            /\ UNCHANGED accepted
      /\ UNCHANGED <<load, service, posting, posts, inbox, ingestion, outbound, history>>

\* Each attachment is committed before the next download; failing to keep it does
\* not fail the intake.
DownloadEnds ==
  LET m == worker.message  i == worker.next
  IN  /\ worker.stage = "downloading"
      /\ worker' = [worker EXCEPT !.stage = "loading", !.next = i + 1]
      /\ \/ saved[m][i] = "none" /\ saved' = [saved EXCEPT ![m][i] = "available"]
         \/ UNCHANGED saved
      /\ UNCHANGED <<load, service, posting, posts, inbox, accepted, row, outbound, history>>

DownloadFailsFatally ==
  /\ worker.stage = "downloading"
  /\ worker' = [worker EXCEPT !.stage = "dead"]
  /\ accepted' = Forgotten(worker.message)
  /\ UNCHANGED <<load, service, posting, posts, inbox, ingestion, outbound, history>>

\* The operator is asked to send it again, and the message is forgotten for a retry.
DownloadFails ==
  /\ worker.stage = "downloading"
  /\ worker' = [worker EXCEPT !.stage = "apology"]
  /\ accepted' = Forgotten(worker.message)
  /\ UNCHANGED <<load, service, posting, posts, inbox, ingestion, outbound, history>>

ApologyEnds ==
  /\ worker.stage = "apology"
  /\ worker' = Resting
  /\ UNCHANGED <<load, service, posting, posts, inbox, accepted, ingestion, outbound, history>>

\* All attachments are there: the claim is durable before cognition begins, in a step
\* of its own since the process may die in between.
ClaimIngestion ==
  LET m == worker.message
  IN  /\ worker.stage = "loading" /\ worker.next > Attachments
      /\ \/ /\ worker.tracking /\ row[m] = "partial"
            /\ row' = [row EXCEPT ![m] = "processing"]
            /\ worker' = [worker EXCEPT !.stage = "claiming"]
         \/ /\ worker.tracking /\ row[m] # "partial"
            /\ worker' = Resting
            /\ UNCHANGED row
         \/ /\ worker' = [worker EXCEPT !.stage = "claiming", !.tracking = FALSE]
            /\ UNCHANGED row
      /\ UNCHANGED <<load, service, posting, posts, inbox, accepted, saved, outbound, history>>

AskForMedia ==
  LET m == worker.message
  IN  /\ worker.stage = "claiming"
      /\ WithCognition(m)
      /\ claims' = IF worker.tracking THEN [claims EXCEPT ![m] = @ + 1] ELSE claims
      /\ UNCHANGED <<load, service, posting, posts, inbox, accepted, ingestion, outbound>>

\* finish_ingestion, which may fail silently.
Finished(m, status) ==
  \/ worker.tracking /\ row[m] = "processing" /\ row' = [row EXCEPT ![m] = status]
  \/ UNCHANGED row

CognitionFails ==
  /\ worker.stage = "cognition"
  /\ Finished(worker.message, "failed")
  /\ worker' = Resting
  /\ UNCHANGED <<load, service, posting, posts, inbox, accepted, saved, outbound, history>>

\* An empty response is not submitted, a long one is replaced.
CognitionAnswers ==
  LET m == worker.message
  IN  /\ worker.stage = "cognition"
      /\ Finished(m, "completed")
      /\ \/ /\ worker' = Resting
            /\ UNCHANGED outbound
         \/ /\ worker' = [worker EXCEPT !.stage = "replying"]
            /\ send' = [send EXCEPT ![m] = "waiting"]
            /\ atTwilio' = [atTwilio EXCEPT ![m] = FALSE]
            /\ attempt' = [attempt EXCEPT ![m] = "submission_unconfirmed"]
            /\ UNCHANGED <<staged, aged>>
      /\ UNCHANGED <<load, service, posting, posts, inbox, accepted, saved, history>>

-----------------------------------------------------------------------------
\* Submissions.  The provider call runs in a thread of its own, once.
Fresh == {i \in staged : i \notin aged}

DeliverImage(i) ==
  /\ Yielded /\ Accepting /\ i \in load \cap Images /\ send[i] = "none"
  /\ Cardinality(Fresh) < MaxItems
  /\ staged' = Fresh \cup {i}
  /\ aged' = aged \ {i}
  /\ send' = [send EXCEPT ![i] = "waiting"]
  /\ attempt' = [attempt EXCEPT ![i] = "submission_unconfirmed"]
  /\ UNCHANGED <<load, service, posting, posts, inbox, accepted, worker, ingestion, atTwilio, history>>

Deliver(n) ==
  /\ Yielded /\ Accepting /\ n \in load \cap Notices /\ send[n] = "none"
  /\ send' = [send EXCEPT ![n] = "waiting"]
  /\ attempt' = [attempt EXCEPT ![n] = "submission_unconfirmed"]
  /\ UNCHANGED <<load, service, posting, posts, inbox, accepted, worker, ingestion, atTwilio,
                 staged, aged, history>>

EveryErrorRejects(answer) == IF answer = "accepted" THEN "provider_accepted" ELSE "provider_rejected"

\* _provider_failure_is_rejection: only a 4xx answer says that Twilio has not taken it.
Recorded(answer) ==
  CASE answer = "accepted" -> "provider_accepted"
    [] answer = "refused"  -> "provider_rejected"
    [] answer = "lost"     -> "submission_unconfirmed"

KeptUnlessFailed(d, answer) == IF answer = "accepted" THEN staged ELSE staged \ {d}

\* A rejected image is withdrawn; one that may have been taken stays to be fetched.
Kept(d, answer) == IF answer = "refused" THEN staged \ {d} ELSE staged

\* The call returns: taken, refused with 4xx, or lost with or without being taken.
\* Recording the outcome is best effort.
SendEnds(d) ==
  /\ Yielded /\ send[d] = "waiting"
  /\ \E answer \in {"accepted", "refused", "lost"} :
       /\ atTwilio' \in {[atTwilio EXCEPT ![d] = b] :
                           b \in CASE answer = "accepted" -> {TRUE}
                                   [] answer = "refused"  -> {FALSE}
                                   [] answer = "lost"     -> BOOLEAN}
       /\ attempt' \in {attempt, [attempt EXCEPT ![d] = Recorded(answer)]}
       /\ staged' = IF d \in Images THEN Kept(d, answer) ELSE staged
  /\ send' = [send EXCEPT ![d] = "ended"]
  /\ worker' = IF worker.stage = "replying" /\ worker.message = d THEN Resting ELSE worker
  /\ UNCHANGED <<load, service, posting, posts, inbox, accepted, ingestion, aged, history>>

\* The delivering turn is cancelled: the thread goes on by itself.
SendCancelled(d) ==
  /\ Yielded /\ send[d] = "waiting" /\ d \notin Messages
  /\ send' = [send EXCEPT ![d] = "left"]
  /\ UNCHANGED <<load, service, posting, posts, inbox, accepted, worker, ingestion, atTwilio,
                 attempt, staged, aged, history>>

LeftSendTaken(d) ==
  /\ send[d] = "left"
  /\ send' = [send EXCEPT ![d] = "ended"]
  /\ atTwilio' \in {atTwilio, [atTwilio EXCEPT ![d] = TRUE]}
  /\ UNCHANGED <<load, service, posting, posts, inbox, accepted, worker, ingestion, attempt,
                 staged, aged, history>>

TimeToLivePasses(i) ==
  /\ i \in Fresh
  /\ aged' = aged \cup {i}
  /\ UNCHANGED <<load, service, posting, posts, inbox, accepted, worker, ingestion, send, atTwilio,
                 attempt, staged, history>>

\* The reaper; a request for a bearer expires the store the same way.
Reap ==
  /\ Yielded /\ service # "off" /\ staged # Fresh
  /\ staged' = Fresh
  /\ UNCHANGED <<load, service, posting, posts, inbox, accepted, worker, ingestion, send, atTwilio,
                 attempt, aged, history>>

\* The operator deletes a retained image, or it expires.
DeleteMedia(m, i) ==
  /\ Yielded /\ saved[m][i] = "available"
  /\ saved' = [saved EXCEPT ![m][i] = "deleted"]
  /\ UNCHANGED <<load, service, posting, posts, inbox, accepted, worker, row, outbound, history>>

-----------------------------------------------------------------------------
\* The service's life.
Start ==
  /\ service = "off"
  /\ service' = "on"
  /\ UNCHANGED <<load, posting, posts, inbox, accepted, worker, ingestion, outbound, history>>

BeginStop ==
  /\ Yielded /\ service = "on"
  /\ service' = "stopping"
  /\ UNCHANGED <<load, posting, posts, inbox, accepted, worker, ingestion, outbound, history>>

\* runner.cleanup has waited for the handlers in flight, or cancelled them.
ListenerClosed ==
  /\ Yielded /\ service = "stopping"
  /\ service' = "joining"
  /\ posting' = {}
  /\ UNCHANGED <<load, posts, inbox, accepted, worker, ingestion, outbound, history>>

\* What the process held in memory; an image's bearer is gone with it.
Gone ==
  /\ posting' = {} /\ inbox' = <<>> /\ accepted' = <<>> /\ worker' = Resting
  /\ staged' = {} /\ aged' = {i \in Images : send[i] # "none"}
  /\ turns' = [m \in Messages |-> 0]

\* The worker is cancelled at its await and joined; a claim stays as it is, and the
\* turns that deliver are not the service's.
StopEnds ==
  /\ Yielded /\ service = "joining"
  /\ service' = "off"
  /\ Gone
  /\ send' = [d \in Submissions |->
                IF d \in Messages /\ send[d] = "waiting" THEN "left" ELSE send[d]]
  /\ UNCHANGED <<load, posts, ingestion, atTwilio, attempt, claims>>

\* A request that was sent may still arrive.
Crash ==
  /\ service' = "off"
  /\ Gone
  /\ send' = [d \in Submissions |-> IF send[d] = "waiting" THEN "left" ELSE send[d]]
  /\ UNCHANGED <<load, posts, ingestion, atTwilio, attempt, claims>>

-----------------------------------------------------------------------------
WorkerStep ==
  \/ AskForText \/ BeginIngestion \/ IngestionRefused \/ DropQueued
  \/ LoadAttachment \/ DownloadEnds \/ DownloadFails \/ ApologyEnds
  \/ ClaimIngestion \/ AskForMedia \/ CognitionFails \/ CognitionAnswers
  \/ \E m \in Messages : worker.stage = "replying" /\ worker.message = m /\ SendEnds(m)

Webhook == \E m \in Messages : PostArrives(m) \/ Accept(m)

Outgoing ==
  \/ \E i \in Images : DeliverImage(i) \/ TimeToLivePasses(i)
  \/ \E n \in Notices : Deliver(n)
  \/ \E d \in Images \cup Notices : SendEnds(d) \/ SendCancelled(d)
  \/ \E d \in Submissions : LeftSendTaken(d)
  \/ Reap

Life == Start \/ BeginStop \/ ListenerClosed \/ StopEnds \/ Crash

Next == Webhook \/ WorkerStep \/ Outgoing \/ Life \/ \E m \in Media, i \in Index : DeleteMedia(m, i)

\* Downloads time out, and provider calls and cognition return.
Spec == Init /\ [][Next]_vars /\ WF_vars(WorkerStep)

-----------------------------------------------------------------------------
\* However often Twilio repeats a webhook, and whatever fails, a message is given to
\* cognition at most once by a process (that has seen no more of them than its dedupe
\* cache holds), and at most once under a durable claim whatever processes die: a
\* claimed analysis is never repeated by a tracked one (docs/conversation-images.md,
\* "Completed analyses are not repeated").
AnsweredOnce ==
  /\ \A m \in Messages : turns[m] <= 1
  /\ \A m \in Media : claims[m] <= 1

\* What is recorded of a submission is true of it, also when its thread is abandoned:
\* accepted means Twilio has it, rejected that it never will.
EvidenceTrue ==
  \A d \in Submissions :
    /\ attempt[d] = "provider_accepted" => atTwilio[d]
    /\ attempt[d] = "provider_rejected" => ~atTwilio[d] /\ send[d] = "ended"

\* An image that Twilio took, or may yet take, can be fetched until its time has
\* passed or the service stops; the store keeps its limit.
ImageFetchable ==
  /\ Accepting => \A i \in Images :
       (atTwilio[i] \/ send[i] \in {"waiting", "left"}) /\ i \notin aged => i \in staged
  /\ Cardinality(staged) <= MaxItems

\* An acknowledged message is taken from the inbox: no failing message or provider
\* ends the worker.
AcceptedTaken == \A m \in Messages : m \in ToSet(inbox) ~> m \notin ToSet(inbox)
=============================================================================
