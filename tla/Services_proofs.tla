--------------------------- MODULE Services_proofs ---------------------------
(***************************************************************************)
(* Theorems about the services beside the jobs, SmsService and             *)
(* VoiceService, and about the process that brings them up and takes them  *)
(* down, Lifecycle, for every value of their constants.                    *)
(*                                                                         *)
(* SMS.  What is recorded of a submission is true of it, an image that     *)
(* Twilio may have can be fetched, a claimed message is analysed once      *)
(* ever, and any message once by a process whose dedupe cache holds all    *)
(* that it has seen.  The argument has three parts that need little of     *)
(* each other.  Submissions: one whose call is under way is recorded as    *)
(* unconfirmed (Unconfirmed), so that an answer that is lost, or a thread  *)
(* that is left behind, has nothing to take back.  Claims: a message that  *)
(* was claimed is past "partial" for good, and between the claim and       *)
(* cognition it is nobody else's (ClaimSound).  Deduplication: whoever is  *)
(* queued, in intake or answered is in the cache, and in one of the three  *)
(* only (IntakeSound); the cache can lose none of them while it is not     *)
(* full.                                                                   *)
(*                                                                         *)
(* Voice.  A thread that listens has its owner's lease, and a stop() that  *)
(* returns leaves nobody listening.  Both follow from where the lock is:   *)
(* it, the lease and the two captures' threads come and go with the place  *)
(* the listener and the session are at in the code (Lent, Owned), and a    *)
(* session has exactly one start() that waits for it (Started).            *)
(*                                                                         *)
(* Process.  Whatever fails, the process ends with everything taken down,  *)
(* and never what still works uses.  The ways down are complete and in     *)
(* order, two facts about the lists of steps; the invariant says that what *)
(* lives is still ahead on the way down, broken or forgotten (Accounted)   *)
(* and that only what has been passed is gone (TakenInTurn).               *)
(***************************************************************************)
EXTENDS SmsService, VoiceService, Lifecycle, SequenceTheorems, FiniteSetTheorems, TLAPS

-----------------------------------------------------------------------------
\* Queues: the inbox and the cache hold no message twice.
Distinct(q) == \A i, j \in DOMAIN q : q[i] = q[j] => i = j

\* asyncio.Queue.get, and the oldest of the cache: the first one leaves, and it is nowhere
\* else in the queue.
LEMMA TailOfDistinct ==
  ASSUME NEW S, NEW q \in Seq(S), q # <<>>, Distinct(q)
  PROVE  /\ Tail(q) \in Seq(S) /\ Distinct(Tail(q)) /\ Head(q) \in ToSet(q)
         /\ ToSet(Tail(q)) \subseteq ToSet(q) \ {Head(q)}
<1>1. /\ Tail(q) \in Seq(S) /\ DOMAIN Tail(q) = 1 .. Len(q) - 1
      /\ \A i \in 1 .. Len(q) - 1 : Tail(q)[i] = q[i + 1]
  BY HeadTailProperties
<1>2. Len(q) \in Nat /\ Len(q) >= 1 /\ DOMAIN q = 1 .. Len(q) /\ Head(q) = q[1]
  OBVIOUS
<1>3. Distinct(Tail(q))
  <2>. SUFFICES ASSUME NEW i \in 1 .. Len(q) - 1, NEW j \in 1 .. Len(q) - 1,
                       Tail(q)[i] = Tail(q)[j]
                PROVE  i = j
    BY <1>1 DEF Distinct
  <2>1. q[i + 1] = q[j + 1] /\ i + 1 \in DOMAIN q /\ j + 1 \in DOMAIN q
    BY <1>1, <1>2
  <2>2. i + 1 = j + 1
    BY <2>1 DEF Distinct
  <2>. QED BY <2>2
<1>4. ASSUME NEW x \in ToSet(Tail(q)) PROVE x \in ToSet(q) \ {Head(q)}
  <2>1. PICK i \in 1 .. Len(q) - 1 : x = Tail(q)[i]
    BY <1>1 DEF ToSet
  <2>2. x = q[i + 1] /\ i + 1 \in DOMAIN q /\ 1 \in DOMAIN q /\ i + 1 # 1
    BY <1>1, <1>2, <2>1
  <2>. QED BY <1>2, <2>2 DEF Distinct, ToSet
<1>5. Head(q) \in ToSet(q)
  BY <1>2 DEF ToSet
<1>. QED BY <1>1, <1>3, <1>4, <1>5

\* deque.append of what is not in it yet.
LEMMA AppendToDistinct ==
  ASSUME NEW S, NEW q \in Seq(S), NEW e \in S, Distinct(q), e \notin ToSet(q)
  PROVE  /\ Append(q, e) \in Seq(S) /\ Distinct(Append(q, e))
         /\ ToSet(Append(q, e)) = ToSet(q) \cup {e}
<1>1. /\ Append(q, e) \in Seq(S) /\ DOMAIN Append(q, e) = 1 .. Len(q) + 1
      /\ Len(q) \in Nat /\ DOMAIN q = 1 .. Len(q)
      /\ \A i \in 1 .. Len(q) : Append(q, e)[i] = q[i]
      /\ Append(q, e)[Len(q) + 1] = e
  BY AppendProperties
<1>2. \A i \in 1 .. Len(q) : Append(q, e)[i] # e /\ Append(q, e)[i] \in ToSet(q)
  BY <1>1 DEF ToSet
<1>3. Distinct(Append(q, e))
  <2>. SUFFICES ASSUME NEW i \in 1 .. Len(q) + 1, NEW j \in 1 .. Len(q) + 1,
                       Append(q, e)[i] = Append(q, e)[j]
                PROVE  i = j
    BY <1>1 DEF Distinct
  <2>1. CASE i = Len(q) + 1 \/ j = Len(q) + 1
    BY <1>1, <1>2, <2>1
  <2>2. CASE i \in 1 .. Len(q) /\ j \in 1 .. Len(q)
    BY <1>1, <2>2 DEF Distinct
  <2>. QED BY <1>1, <2>1, <2>2
<1>4. ASSUME NEW x \in ToSet(Append(q, e)) PROVE x \in ToSet(q) \cup {e}
  <2>1. PICK i \in 1 .. Len(q) + 1 : x = Append(q, e)[i]
    BY <1>1 DEF ToSet
  <2>. QED BY <1>1, <1>2, <2>1
<1>5. ASSUME NEW x \in ToSet(q) \cup {e} PROVE x \in ToSet(Append(q, e))
  BY <1>1, <1>5 DEF ToSet
<1>. QED BY <1>1, <1>3, <1>4, <1>5

\* _forget, deque.remove: it leaves the others, once each.
LEMMA WithoutOfDistinct ==
  ASSUME NEW S, NEW q \in Seq(S), NEW e, Distinct(q)
  PROVE  /\ RemoveFirst(q, e) \in Seq(S) /\ Distinct(RemoveFirst(q, e))
         /\ ToSet(RemoveFirst(q, e)) = ToSet(q) \ {e}
<1>1. CASE e \notin ToSet(q)
  <2>1. ~\E i \in 1 .. Len(q) : q[i] = e
    BY <1>1 DEF ToSet
  <2>. QED BY <1>1, <2>1 DEF RemoveFirst
<1>2. CASE e \in ToSet(q)
  <2>0. PICK n \in DOMAIN q : q[n] = e
    BY <1>2 DEF ToSet
  <2>. DEFINE a == SubSeq(q, 1, n - 1)
              b == SubSeq(q, n + 1, Len(q))
              place(i) == IF i < n THEN i ELSE i + 1
  <2>1. n \in DOMAIN q /\ q[n] = e
    BY <2>0
  <2>2. n \in 1 .. Len(q) /\ Len(q) \in Nat /\ DOMAIN q = 1 .. Len(q)
    BY <2>1
  <2>3. RemoveFirst(q, e) = a \o b
    <3>1. {i \in 1 .. Len(q) : q[i] = e} = {n}
      BY <2>1, <2>2 DEF Distinct
    <3>2. Min({n}) = n
      BY <2>2 DEF Min
    <3>3. SelectInSeq(q, LAMBDA v : v = e) = n
      BY <3>1, <3>2 DEF SelectInSeq
    <3>. QED BY <2>1, <2>2, <3>3 DEF RemoveFirst, RemoveAt
  <2>4. \A i \in 1 .. Len(q) : q[i] \in S
    BY <2>2
  <2>5. a \in Seq(S) /\ Len(a) = n - 1 /\ \A i \in 1 .. n - 1 : a[i] = q[i]
    <3>1. n - 1 \in Int /\ \A i \in 1 .. n - 1 : q[i] \in S
      BY <2>2, <2>4
    <3>2. /\ a \in Seq(S) /\ Len(a) = IF 1 <= n - 1 THEN (n - 1) - 1 + 1 ELSE 0
          /\ \A i \in 1 .. (n - 1) - 1 + 1 : a[i] = q[1 + i - 1]
      BY <3>1, SubSeqProperties
    <3>. QED BY <2>2, <3>2
  <2>6. /\ b \in Seq(S) /\ Len(b) = Len(q) - n
        /\ \A i \in 1 .. Len(q) - n : b[i] = q[n + i]
    <3>1. n + 1 \in Int /\ Len(q) \in Int /\ \A i \in n + 1 .. Len(q) : q[i] \in S
      BY <2>2, <2>4
    <3>2. /\ b \in Seq(S)
          /\ Len(b) = IF n + 1 <= Len(q) THEN Len(q) - (n + 1) + 1 ELSE 0
          /\ \A i \in 1 .. Len(q) - (n + 1) + 1 : b[i] = q[(n + 1) + i - 1]
      BY <3>1, SubSeqProperties
    <3>3. Len(b) = Len(q) - n
      <4>1. CASE n + 1 <= Len(q)
        <5>1. Len(b) = Len(q) - (n + 1) + 1
          BY <3>2, <4>1
        <5>. HIDE DEF b
        <5>. QED BY <2>2, <5>1
      <4>2. CASE n = Len(q)
        <5>1. ~(n + 1 <= Len(q))
          BY <2>2, <4>2
        <5>2. Len(b) = 0
          BY <3>2, <5>1
        <5>. HIDE DEF b
        <5>. QED BY <2>2, <4>2, <5>2
      <4>3. \A k \in Nat : \A m \in 1 .. k : m + 1 <= k \/ m = k
        OBVIOUS
      <4>4. n + 1 <= Len(q) \/ n = Len(q)
        BY <2>2, <4>3
      <4>. QED BY <4>1, <4>2, <4>4
    <3>4. ASSUME NEW i \in 1 .. Len(q) - n PROVE b[i] = q[n + i]
      <4>1. i \in 1 .. Len(q) - (n + 1) + 1 /\ (n + 1) + i - 1 = n + i
        BY <2>2
      <4>. QED BY <3>2, <4>1
    <3>. QED BY <3>2, <3>3, <3>4
  <2>. HIDE DEF a, b
  <2>7. /\ a \o b \in Seq(S) /\ Len(a \o b) = Len(q) - 1
        /\ \A i \in 1 .. Len(q) - 1 : (a \o b)[i] = q[place(i)]
    <3>1. /\ a \o b \in Seq(S) /\ Len(a \o b) = Len(a) + Len(b)
          /\ \A i \in 1 .. Len(a) + Len(b) :
               (a \o b)[i] = IF i <= Len(a) THEN a[i] ELSE b[i - Len(a)]
      BY <2>5, <2>6, ConcatProperties
    <3>2. ASSUME NEW i \in 1 .. Len(q) - 1 PROVE (a \o b)[i] = q[place(i)]
      <4>1. CASE i < n
        BY <2>2, <2>5, <2>6, <3>1, <4>1
      <4>2. CASE ~(i < n)
        <5>1. (a \o b)[i] = b[i - (n - 1)] /\ i - (n - 1) \in 1 .. Len(q) - n
          BY <2>2, <2>5, <2>6, <3>1, <4>2
        <5>2. n + (i - (n - 1)) = i + 1
          BY <2>2
        <5>. QED BY <2>6, <4>2, <5>1, <5>2
      <4>. QED BY <4>1, <4>2
    <3>. QED BY <2>2, <2>5, <2>6, <3>1, <3>2
  <2>8. \A i \in 1 .. Len(q) - 1 : place(i) \in DOMAIN q /\ place(i) # n
    BY <2>2
  <2>9. DOMAIN (a \o b) = 1 .. Len(q) - 1
    BY <2>7
  <2>10. Distinct(a \o b)
    <3>. SUFFICES ASSUME NEW i \in 1 .. Len(q) - 1, NEW j \in 1 .. Len(q) - 1,
                         (a \o b)[i] = (a \o b)[j]
                  PROVE  i = j
      BY <2>9 DEF Distinct
    <3>1. place(i) = place(j)
      BY <2>7, <2>8 DEF Distinct
    <3>. QED BY <2>2, <3>1
  <2>11. ASSUME NEW x \in ToSet(a \o b) PROVE x \in ToSet(q) \ {e}
    <3>1. PICK i \in 1 .. Len(q) - 1 : x = (a \o b)[i]
      BY <2>9 DEF ToSet
    <3>2. x = q[place(i)] /\ place(i) \in DOMAIN q /\ place(i) # n
      BY <2>7, <2>8, <3>1
    <3>. QED BY <2>1, <3>2 DEF Distinct, ToSet
  <2>12. ASSUME NEW x \in ToSet(q) \ {e} PROVE x \in ToSet(a \o b)
    <3>1. PICK j \in 1 .. Len(q) : x = q[j] /\ j # n
      BY <2>1, <2>2, <2>12 DEF ToSet
    <3>2. CASE j < n
      <4>1. j \in 1 .. Len(q) - 1 /\ place(j) = j
        BY <2>2, <3>1, <3>2
      <4>. QED BY <2>7, <2>9, <3>1, <4>1 DEF ToSet
    <3>3. CASE j > n
      <4>1. j - 1 \in 1 .. Len(q) - 1 /\ place(j - 1) = j
        BY <2>2, <3>1, <3>3
      <4>. QED BY <2>7, <2>9, <3>1, <4>1 DEF ToSet
    <3>. QED BY <2>2, <3>1, <3>2, <3>3
  <2>. QED BY <2>3, <2>7, <2>10, <2>11, <2>12
<1>. QED BY <1>1, <1>2

\* A queue that holds nobody twice is no longer than there are members to hold.
LEMMA DistinctIsShort ==
  ASSUME NEW S, IsFiniteSet(S), NEW T, NEW q \in Seq(T), Distinct(q), ToSet(q) \subseteq S
  PROVE  Len(q) <= Cardinality(S)
<1>1. Len(q) \in Nat /\ DOMAIN q = 1 .. Len(q) /\ Cardinality(S) \in Nat
  BY FS_CardinalityType
<1>2. q \in Injection(1 .. Len(q), S)
  BY <1>1 DEF ToSet, Distinct, Injection, IsInjective
<1>3. IsFiniteSet(1 .. Len(q)) /\ Cardinality(1 .. Len(q)) = Len(q)
  <2>1. \A n \in Nat : /\ IsFiniteSet(1 .. n)
                      /\ Cardinality(1 .. n) = IF 1 > n THEN 0 ELSE n - 1 + 1
    BY FS_Interval
  <2>. QED BY <1>1, <2>1
<1>. QED BY <1>1, <1>2, <1>3, FS_Injection

-----------------------------------------------------------------------------
Services == {"off", "on", "stopping", "joining"}
WorkerStages == {"idle", "loading", "downloading", "apology", "claiming", "cognition", "replying"}
IntakeStages == {"loading", "downloading", "claiming"}
AnswerStages == {"cognition", "replying"}
RowStates == {"none", "partial", "processing", "completed", "failed"}
SavedStates == {"none", "available", "deleted"}
SendStates == {"none", "waiting", "left", "ended"}
AttemptStates == {"none", "submission_unconfirmed", "provider_accepted", "provider_rejected"}
Workers == [stage : WorkerStages, message : Messages \cup {"none"}, next : Int,
            tracking : BOOLEAN]

\* The state of the service, of its inbox, cache and worker, ...
IntakeType ==
  /\ service \in Services
  /\ posting \subseteq load \cap Messages /\ posts \in Nat
  /\ inbox \in Seq(Messages)
  /\ accepted \in Seq(Messages) /\ Distinct(accepted)
  /\ worker \in Workers
  /\ worker.stage \in IntakeStages => worker.message \in Media
  /\ worker.stage \in AnswerStages => worker.message \in Messages

\* ... of what is durable, ...
StoreType ==
  /\ row \in [Media -> RowStates]
  /\ saved \in [Media -> [Index -> SavedStates]]

\* ... of the submissions ...
OutboundType ==
  /\ send \in [Submissions -> SendStates]
  /\ atTwilio \in [Submissions -> BOOLEAN]
  /\ attempt \in [Submissions -> AttemptStates]
  /\ staged \subseteq Images /\ aged \subseteq Images

\* ... and of the histories.
HistoryType ==
  /\ turns \in [Messages -> Nat]
  /\ claims \in [Media -> Nat]

TypeOK == IntakeType /\ StoreType /\ OutboundType /\ HistoryType

-----------------------------------------------------------------------------
\* Submissions.

\* A call that is under way, waited for or left behind, is recorded as unconfirmed.
Unconfirmed ==
  \A d \in Submissions :
    send[d] \in {"waiting", "left"} => attempt[d] = "submission_unconfirmed"

\* Whether the service runs or not, an image that Twilio may have is staged until its time
\* has passed; one that was never submitted is not Twilio's.
Staged ==
  \A i \in Images :
    /\ (atTwilio[i] \/ send[i] \in {"waiting", "left"}) /\ i \notin aged => i \in staged
    /\ atTwilio[i] => send[i] # "none"

\* The store keeps its limit.
Limited == IsFiniteSet(staged) /\ Cardinality(staged) <= MaxItems

OutboundInv == OutboundType /\ Unconfirmed /\ EvidenceTrue /\ Staged /\ Limited

\* What the steps that have to do with submissions leave as it is.
LEMMA OutboundKept ==
  ASSUME OutboundInv, UNCHANGED outbound
  PROVE  OutboundInv'
BY DEF OutboundInv, OutboundType, Unconfirmed, EvidenceTrue, Staged, Limited, outbound

\* The kinds of submissions are told apart (KindsAssumption).
LEMMA KindsOfSubmissions ==
  /\ Messages \subseteq Submissions /\ Images \subseteq Submissions /\ Notices \subseteq Submissions
  /\ \A m \in Messages : m \notin Images
  /\ \A n \in Notices : n \notin Images
BY KindsAssumption DEF Submissions

\* A store of images that loses some keeps its limit.
LEMMA FewerKeepsLimit ==
  ASSUME Limited, staged' \subseteq staged
  PROVE  Limited'
BY FS_Subset, SizesAssumption, FS_CardinalityType DEF Limited

-----------------------------------------------------------------------------
\* A submission that begins is recorded before the provider is asked.
LEMMA SubmissionBegins ==
  ASSUME OutboundInv, NEW d \in Submissions, d \notin Images,
         send' = [send EXCEPT ![d] = "waiting"],
         attempt' = [attempt EXCEPT ![d] = "submission_unconfirmed"],
         atTwilio' = atTwilio \/ atTwilio' = [atTwilio EXCEPT ![d] = FALSE],
         UNCHANGED <<staged, aged>>
  PROVE  OutboundInv'
<1>1. OutboundType'
  BY DEF OutboundInv, OutboundType, SendStates, AttemptStates
<1>2. \A e \in Submissions : /\ send'[e] = IF e = d THEN "waiting" ELSE send[e]
                             /\ attempt'[e] = IF e = d THEN "submission_unconfirmed" ELSE attempt[e]
                             /\ e # d => atTwilio'[e] = atTwilio[e]
  BY DEF OutboundInv, OutboundType
<1>3. Unconfirmed' /\ EvidenceTrue'
  BY <1>2 DEF OutboundInv, Unconfirmed, EvidenceTrue
<1>4. Staged'
  BY <1>2, KindsOfSubmissions DEF OutboundInv, Staged
<1>5. Limited'
  BY DEF OutboundInv, Limited
<1>. QED BY <1>1, <1>3, <1>4, <1>5 DEF OutboundInv

\* The stage admits an image only where it has room for one that is not expired.
LEMMA ImageBegins ==
  ASSUME OutboundInv, NEW i \in Images, DeliverImage(i)
  PROVE  OutboundInv'
<1>1. i \in Submissions /\ send[i] = "none" /\ Cardinality(Fresh) < MaxItems
  BY KindsOfSubmissions DEF DeliverImage
<1>2. /\ send' = [send EXCEPT ![i] = "waiting"] /\ staged' = Fresh \cup {i} /\ aged' = aged \ {i}
      /\ attempt' = [attempt EXCEPT ![i] = "submission_unconfirmed"] /\ atTwilio' = atTwilio
  BY DEF DeliverImage
<1>3. OutboundType'
  BY <1>1, <1>2 DEF OutboundInv, OutboundType, SendStates, AttemptStates, Fresh
<1>4. \A e \in Submissions : /\ send'[e] = IF e = i THEN "waiting" ELSE send[e]
                             /\ attempt'[e] = IF e = i THEN "submission_unconfirmed" ELSE attempt[e]
  BY <1>1, <1>2 DEF OutboundInv, OutboundType
<1>5. Unconfirmed' /\ EvidenceTrue'
  BY <1>1, <1>2, <1>4 DEF OutboundInv, Unconfirmed, EvidenceTrue
<1>6. Staged'
  BY <1>2, <1>4, KindsOfSubmissions DEF OutboundInv, Staged, Fresh
<1>7. Limited'
  <2>1. IsFiniteSet(Fresh) /\ Cardinality(Fresh) \in Nat
    BY FS_Subset, FS_CardinalityType DEF OutboundInv, Limited, Fresh
  <2>2. /\ IsFiniteSet(Fresh \cup {i})
        /\ Cardinality(Fresh \cup {i}) = IF i \in Fresh THEN Cardinality(Fresh)
                                         ELSE Cardinality(Fresh) + 1
    BY <2>1, FS_AddElement
  <2>. QED BY <1>1, <1>2, <2>1, <2>2, SizesAssumption DEF Limited
<1>. QED BY <1>3, <1>5, <1>6, <1>7 DEF OutboundInv

\* The call returns, with whatever answer: what is recorded is what the answer says.
LEMMA CallReturns ==
  ASSUME OutboundInv, NEW d \in Submissions, SendEnds(d)
  PROVE  OutboundInv'
<1>1. send[d] = "waiting" /\ attempt[d] = "submission_unconfirmed"
  BY DEF SendEnds, OutboundInv, Unconfirmed
<1>2. /\ send' = [send EXCEPT ![d] = "ended"] /\ aged' = aged
      /\ \E answer \in {"accepted", "refused", "lost"} :
           /\ atTwilio' \in {[atTwilio EXCEPT ![d] = b] :
                               b \in CASE answer = "accepted" -> {TRUE}
                                       [] answer = "refused"  -> {FALSE}
                                       [] answer = "lost"     -> BOOLEAN}
           /\ attempt' \in {attempt, [attempt EXCEPT ![d] = Recorded(answer)]}
           /\ staged' = IF d \in Images THEN Kept(d, answer) ELSE staged
  BY DEF SendEnds
<1>3. \E b \in BOOLEAN, a \in AttemptStates :
        /\ atTwilio' = [atTwilio EXCEPT ![d] = b] /\ attempt' = [attempt EXCEPT ![d] = a]
        /\ a = "provider_accepted" => b
        /\ a = "provider_rejected" => ~b
        /\ staged' = staged \/ (~b /\ staged' = staged \ {d})
  <2>0. attempt = [attempt EXCEPT ![d] = "submission_unconfirmed"]
    BY <1>1 DEF OutboundInv, OutboundType
  <2>1. CASE /\ atTwilio' = [atTwilio EXCEPT ![d] = TRUE]
             /\ attempt' \in {attempt, [attempt EXCEPT ![d] = "provider_accepted"]}
             /\ staged' = staged
    BY <2>0, <2>1 DEF AttemptStates
  <2>2. CASE /\ atTwilio' = [atTwilio EXCEPT ![d] = FALSE]
             /\ attempt' \in {attempt, [attempt EXCEPT ![d] = "provider_rejected"]}
             /\ staged' = staged \/ staged' = staged \ {d}
    BY <2>0, <2>2 DEF AttemptStates
  <2>3. CASE /\ \E b \in BOOLEAN : atTwilio' = [atTwilio EXCEPT ![d] = b]
             /\ attempt' \in {attempt, [attempt EXCEPT ![d] = "submission_unconfirmed"]}
             /\ staged' = staged
    BY <2>0, <2>3 DEF AttemptStates
  <2>. QED BY <1>2, <2>1, <2>2, <2>3 DEF Recorded, Kept
<1>4. PICK b \in BOOLEAN, a \in AttemptStates :
        /\ atTwilio' = [atTwilio EXCEPT ![d] = b] /\ attempt' = [attempt EXCEPT ![d] = a]
        /\ a = "provider_accepted" => b
        /\ a = "provider_rejected" => ~b
        /\ staged' = staged \/ (~b /\ staged' = staged \ {d})
  BY <1>3
<1>5. OutboundType'
  BY <1>2, <1>4 DEF OutboundInv, OutboundType, SendStates
<1>6. \A e \in Submissions : /\ send'[e] = IF e = d THEN "ended" ELSE send[e]
                             /\ attempt'[e] = IF e = d THEN a ELSE attempt[e]
                             /\ atTwilio'[e] = IF e = d THEN b ELSE atTwilio[e]
  BY <1>2, <1>4 DEF OutboundInv, OutboundType
<1>7. Unconfirmed' /\ EvidenceTrue'
  BY <1>4, <1>6 DEF OutboundInv, Unconfirmed, EvidenceTrue
<1>8. Staged'
  BY <1>1, <1>2, <1>4, <1>6, KindsOfSubmissions DEF OutboundInv, Staged
<1>9. Limited'
  BY <1>4, FewerKeepsLimit DEF OutboundInv
<1>. QED BY <1>5, <1>7, <1>8, <1>9 DEF OutboundInv

\* What ends with the process takes the bearers of its images with it.
LEMMA ProcessEnds ==
  ASSUME OutboundInv, Gone, UNCHANGED <<atTwilio, attempt>>,
         send' = [d \in Submissions |-> send'[d]],
         \A d \in Submissions : send'[d] = send[d] \/ (send[d] = "waiting" /\ send'[d] = "left")
  PROVE  OutboundInv'
<1>1. staged' = {} /\ aged' = {i \in Images : send[i] # "none"}
  BY DEF Gone
<1>2. OutboundType'
  <2>1. \A d \in Submissions : send'[d] \in SendStates
    BY DEF OutboundInv, OutboundType, SendStates
  <2>. QED BY <1>1, <2>1 DEF OutboundInv, OutboundType
<1>3. Unconfirmed' /\ EvidenceTrue'
  BY DEF OutboundInv, Unconfirmed, EvidenceTrue
<1>4. Staged'
  BY <1>1, KindsOfSubmissions DEF OutboundInv, Staged
<1>5. Limited'
  BY <1>1, FS_EmptySet, SizesAssumption DEF Limited
<1>. QED BY <1>2, <1>3, <1>4, <1>5 DEF OutboundInv

\* Every step keeps what is said of the submissions.
LEMMA OutboundStep == IntakeType /\ OutboundInv /\ [Next]_vars => OutboundInv'
<1> SUFFICES ASSUME IntakeType, OutboundInv, [Next]_vars PROVE OutboundInv'
  OBVIOUS
<1>1. CASE \E m \in Messages : PostArrives(m) \/ Accept(m)
  BY <1>1, OutboundKept DEF PostArrives, Accept
<1>2. CASE \/ AskForText \/ BeginIngestion \/ IngestionRefused \/ DropQueued
         \/ LoadAttachment \/ DownloadEnds \/ DownloadFails
  BY <1>2, OutboundKept
     DEF AskForText, BeginIngestion, IngestionRefused, DropQueued, LoadAttachment, DownloadEnds,
         DownloadFails
<1>3. CASE ApologyEnds \/ ClaimIngestion \/ AskForMedia \/ CognitionFails
  BY <1>3, OutboundKept DEF ApologyEnds, ClaimIngestion, AskForMedia, CognitionFails
<1>4. CASE CognitionAnswers
  <2>1. worker.message \in Messages
    BY <1>4 DEF CognitionAnswers, IntakeType, AnswerStages
  <2>2. CASE UNCHANGED outbound
    BY <2>2, OutboundKept
  <2>3. CASE ~UNCHANGED outbound
    BY <1>4, <2>1, <2>3, SubmissionBegins, KindsOfSubmissions DEF CognitionAnswers
  <2>. QED BY <2>2, <2>3
<1>5. CASE \E d \in Submissions : SendEnds(d)
  BY <1>5, CallReturns
<1>6. CASE \E i \in Images : DeliverImage(i)
  BY <1>6, ImageBegins
<1>7. CASE \E n \in Notices : Deliver(n)
  BY <1>7, SubmissionBegins, KindsOfSubmissions DEF Deliver
<1>8. CASE \E i \in Images : TimeToLivePasses(i)
  <2>1. /\ aged \subseteq aged' /\ aged' \subseteq Images
        /\ UNCHANGED <<send, atTwilio, attempt, staged>>
    BY <1>8 DEF TimeToLivePasses, OutboundInv, OutboundType
  <2>. QED BY <2>1 DEF OutboundInv, OutboundType, Unconfirmed, EvidenceTrue, Staged, Limited
<1>9. CASE \E d \in Images \cup Notices : SendCancelled(d)
  <2>1. PICK d \in Submissions : SendCancelled(d)
    BY <1>9, KindsOfSubmissions
  <2>2. /\ send[d] = "waiting" /\ send' = [send EXCEPT ![d] = "left"]
        /\ UNCHANGED <<atTwilio, attempt, staged, aged>>
    BY <2>1 DEF SendCancelled
  <2>3. \A e \in Submissions : send'[e] = IF e = d THEN "left" ELSE send[e]
    BY <2>2 DEF OutboundInv, OutboundType
  <2>4. OutboundType'
    BY <2>2 DEF OutboundInv, OutboundType, SendStates
  <2>5. Unconfirmed' /\ EvidenceTrue'
    BY <2>2, <2>3 DEF OutboundInv, Unconfirmed, EvidenceTrue
  <2>6. Staged' /\ Limited'
    BY <2>2, <2>3, KindsOfSubmissions DEF OutboundInv, Staged, Limited
  <2>. QED BY <2>4, <2>5, <2>6 DEF OutboundInv
<1>10. CASE \E d \in Submissions : LeftSendTaken(d)
  <2>1. PICK d \in Submissions : LeftSendTaken(d)
    BY <1>10
  <2>2. /\ send[d] = "left" /\ send' = [send EXCEPT ![d] = "ended"]
        /\ atTwilio' = atTwilio \/ atTwilio' = [atTwilio EXCEPT ![d] = TRUE]
        /\ UNCHANGED <<attempt, staged, aged>>
    BY <2>1 DEF LeftSendTaken
  <2>3. \A e \in Submissions : /\ send'[e] = IF e = d THEN "ended" ELSE send[e]
                               /\ e # d => atTwilio'[e] = atTwilio[e]
    BY <2>2 DEF OutboundInv, OutboundType
  <2>4. OutboundType'
    BY <2>2 DEF OutboundInv, OutboundType, SendStates
  <2>5. Unconfirmed' /\ EvidenceTrue'
    BY <2>2, <2>3 DEF OutboundInv, Unconfirmed, EvidenceTrue
  <2>6. Staged' /\ Limited'
    BY <2>2, <2>3, KindsOfSubmissions DEF OutboundInv, Staged, Limited
  <2>. QED BY <2>4, <2>5, <2>6 DEF OutboundInv
<1>11. CASE Reap
  <2>1. staged' \subseteq staged /\ UNCHANGED <<send, atTwilio, attempt, aged>>
        /\ \A i \in staged : i \notin aged => i \in staged'
    BY <1>11 DEF Reap, Fresh
  <2>2. Limited'
    BY <2>1, FewerKeepsLimit DEF OutboundInv
  <2>. QED BY <2>1, <2>2 DEF OutboundInv, OutboundType, Unconfirmed, EvidenceTrue, Staged
<1>12. CASE Start \/ BeginStop \/ ListenerClosed
  BY <1>12, OutboundKept DEF Start, BeginStop, ListenerClosed
<1>13. CASE StopEnds
  BY <1>13, ProcessEnds DEF StopEnds
<1>14. CASE Crash
  BY <1>14, ProcessEnds DEF Crash
<1>15. CASE \E m \in Media, i \in Index : DeleteMedia(m, i)
  BY <1>15, OutboundKept DEF DeleteMedia
<1>16. CASE UNCHANGED vars
  BY <1>16, OutboundKept DEF vars
<1>. QED
  BY <1>1, <1>2, <1>3, <1>4, <1>5, <1>6, <1>7, <1>8, <1>9, <1>10, <1>11, <1>12, <1>13, <1>14,
     <1>15, <1>16, KindsOfSubmissions
     DEF Next, Webhook, WorkerStep, Outgoing, Life

-----------------------------------------------------------------------------
\* The worker and what it does to the cache.

\* What each step of the worker and of the webhook makes of the worker.
LEMMA WorkerSteps ==
  ASSUME IntakeType, StoreType, [Next]_vars
  PROVE  /\ worker' \in Workers
         /\ worker'.stage \in IntakeStages => worker'.message \in Media
         /\ worker'.stage \in AnswerStages => worker'.message \in Messages
<1>. DEFINE Sound == /\ worker' \in Workers
                     /\ worker'.stage \in IntakeStages => worker'.message \in Media
                     /\ worker'.stage \in AnswerStages => worker'.message \in Messages
<1>0. CASE worker' = worker \/ worker' = Resting
  <2>1. Resting \in Workers /\ Resting.stage = "idle"
    BY DEF Resting, Workers, WorkerStages
  <2>2. CASE worker' = worker
    BY <2>2 DEF IntakeType
  <2>3. CASE worker' = Resting
    BY <2>1, <2>3 DEF IntakeStages, AnswerStages
  <2>. QED BY <1>0, <2>2, <2>3
<1>a. inbox # <<>> => Head(inbox) \in Messages
  BY HeadTailProperties DEF IntakeType
<1>1. CASE AskForText
  <2>1. Head(inbox) \in Messages
    BY <1>1, <1>a DEF AskForText
  <2>2. worker' = [worker EXCEPT !.stage = "cognition", !.message = Head(inbox)]
    BY <1>1 DEF AskForText, WithCognition
  <2>. QED BY <2>1, <2>2 DEF IntakeType, Workers, WorkerStages, IntakeStages, AnswerStages
<1>2. CASE BeginIngestion
  <2>1. Head(inbox) \in Media /\ Head(inbox) \in Messages
    BY <1>2, <1>a DEF BeginIngestion
  <2>2. \/ worker' = worker
        \/ \E t \in BOOLEAN :
             worker' = [stage |-> "loading", message |-> Head(inbox), next |-> 1, tracking |-> t]
    BY <1>2 DEF BeginIngestion
  <2>. QED BY <1>0, <2>1, <2>2 DEF IntakeType, Workers, WorkerStages, IntakeStages, AnswerStages
<1>3. CASE LoadAttachment
  BY <1>3 DEF LoadAttachment, IntakeType, Workers, WorkerStages, IntakeStages, AnswerStages
<1>4. CASE DownloadEnds
  <2>1. /\ worker.stage = "downloading"
        /\ worker' = [worker EXCEPT !.stage = "loading", !.next = worker.next + 1]
    BY <1>4 DEF DownloadEnds
  <2>2. worker.message \in Media /\ worker.next + 1 \in Int
    BY <2>1 DEF IntakeType, IntakeStages, Workers
  <2>. HIDE DEF Sound
  <2>. QED BY <2>1, <2>2 DEF Sound, IntakeType, Workers, WorkerStages, IntakeStages, AnswerStages
<1>5. CASE DownloadFails
  BY <1>5 DEF DownloadFails, IntakeType, Workers, WorkerStages, IntakeStages, AnswerStages
<1>6. CASE ClaimIngestion
  <2>1. \/ worker' = Resting
        \/ worker' = [worker EXCEPT !.stage = "claiming"]
        \/ worker' = [worker EXCEPT !.stage = "claiming", !.tracking = FALSE]
    BY <1>6 DEF ClaimIngestion
  <2>2. worker.message \in Media
    BY <1>6 DEF ClaimIngestion, IntakeType, IntakeStages
  <2>. QED BY <1>0, <2>1, <2>2 DEF IntakeType, Workers, WorkerStages, IntakeStages, AnswerStages
<1>7. CASE AskForMedia
  BY <1>7 DEF AskForMedia, WithCognition, Messages, IntakeType, Workers, WorkerStages, IntakeStages,
              AnswerStages
<1>8. CASE CognitionAnswers
  <2>1. worker' = Resting \/ worker' = [worker EXCEPT !.stage = "replying"]
    BY <1>8 DEF CognitionAnswers
  <2>2. worker.message \in Messages
    BY <1>8 DEF CognitionAnswers, IntakeType, AnswerStages
  <2>. QED BY <1>0, <2>1, <2>2 DEF IntakeType, Workers, WorkerStages, IntakeStages, AnswerStages
<1>9. CASE \E m \in Messages : PostArrives(m) \/ Accept(m)
  BY <1>0, <1>9 DEF PostArrives, Accept
<1>10. CASE DropQueued \/ ApologyEnds \/ CognitionFails
  BY <1>0, <1>10 DEF DropQueued, ApologyEnds, CognitionFails
<1>11. CASE \E d \in Submissions : SendEnds(d)
  BY <1>0, <1>11 DEF SendEnds
<1>12. CASE \/ \E i \in Images : DeliverImage(i) \/ TimeToLivePasses(i)
            \/ \E n \in Notices : Deliver(n)
            \/ \E d \in Images \cup Notices : SendCancelled(d)
            \/ \E d \in Submissions : LeftSendTaken(d)
            \/ Reap
            \/ \E m \in Media, i \in Index : DeleteMedia(m, i)
  BY <1>0, <1>12 DEF DeliverImage, TimeToLivePasses, Deliver, SendCancelled, LeftSendTaken, Reap,
                     DeleteMedia
<1>13. CASE Life
  BY <1>0, <1>13 DEF Life, Start, BeginStop, ListenerClosed, StopEnds, Crash, Gone
<1>14. CASE UNCHANGED vars
  BY <1>0, <1>14 DEF vars
<1>15. CASE IngestionRefused
  <2>1. Head(inbox) \in Media /\ Head(inbox) \in Messages
    BY <1>15, <1>a DEF IngestionRefused
  <2>2. worker' = [stage |-> "apology", message |-> Head(inbox), next |-> 1, tracking |-> FALSE]
    BY <1>15 DEF IngestionRefused
  <2>. QED BY <1>0, <2>1, <2>2 DEF IntakeType, Workers, WorkerStages, IntakeStages, AnswerStages
<1>. HIDE DEF Sound
<1>. QED
  BY <1>1, <1>2, <1>3, <1>4, <1>5, <1>6, <1>7, <1>8, <1>9, <1>10, <1>11, <1>12, <1>13, <1>14,
     <1>15, KindsOfSubmissions
     DEF Next, Webhook, WorkerStep, Outgoing, Sound

\* _remember: a message that is not in the cache enters it, at the cost of the oldest at most.
LEMMA RememberedKeeps ==
  ASSUME IntakeType, NEW m \in Messages, m \notin ToSet(accepted)
  PROVE  /\ Remembered(m) \in Seq(Messages) /\ Distinct(Remembered(m))
         /\ ToSet(Remembered(m)) \subseteq ToSet(accepted) \cup {m}
<1>1. /\ Append(accepted, m) \in Seq(Messages) /\ Distinct(Append(accepted, m))
      /\ ToSet(Append(accepted, m)) = ToSet(accepted) \cup {m}
  BY AppendToDistinct DEF IntakeType
<1>2. Append(accepted, m) # <<>>
  BY DEF IntakeType
<1>. DEFINE all == Append(accepted, m)
<1>3. Tail(all) \in Seq(Messages) /\ Distinct(Tail(all)) /\ ToSet(Tail(all)) \subseteq ToSet(all)
  BY <1>1, <1>2, TailOfDistinct
<1>. QED BY <1>1, <1>3 DEF Remembered

\* _forget: the message leaves the cache, and no other.
LEMMA ForgottenKeeps ==
  ASSUME IntakeType, NEW m
  PROVE  /\ Forgotten(m) \in Seq(Messages) /\ Distinct(Forgotten(m))
         /\ ToSet(Forgotten(m)) = ToSet(accepted) \ {m}
BY WithoutOfDistinct DEF IntakeType, Forgotten

\* A webhook that is answered lets a message in only where it is not in the cache, ...
AcceptStep(m) ==
  /\ m \in posting /\ posting' = posting \ {m} /\ UNCHANGED <<load, worker, row, turns, claims>>
  /\ \/ UNCHANGED <<inbox, accepted>>
     \/ /\ m \notin ToSet(accepted)
        /\ inbox' = Append(inbox, m) /\ accepted' = Remembered(m)

\* ... and apart from it a step takes from the inbox and from the cache only, or it ends
\* the process.
LEMMA QueueSteps ==
  ASSUME IntakeType, [Next]_vars
  PROVE  \/ \E m \in Messages : AcceptStep(m)
         \/ /\ inbox' = inbox \/ (inbox # <<>> /\ inbox' = Tail(inbox))
            /\ \/ accepted' = accepted
               \/ \E m : accepted' = Forgotten(m)
         \/ inbox' = <<>> /\ accepted' = <<>>
<1>1. CASE \E m \in Messages : Accept(m)
  <2>1. PICK m \in Messages : Accept(m)
    BY <1>1
  <2>2. AcceptStep(m)
    BY <2>1 DEF Accept, AcceptStep, Duplicate, ingestion, history
  <2>. QED BY <2>2
<1>2. CASE \E m \in Messages : PostArrives(m)
  BY <1>2 DEF PostArrives
<1>3. CASE \E d \in Submissions : SendEnds(d)
  BY <1>3 DEF SendEnds
<1>4. CASE WorkerStep
  BY <1>3, <1>4, KindsOfSubmissions
     DEF WorkerStep, AskForText, BeginIngestion, IngestionRefused, DropQueued, LoadAttachment,
         DownloadEnds, DownloadFails, ApologyEnds, ClaimIngestion, AskForMedia, CognitionFails, CognitionAnswers
<1>5. CASE Outgoing
  BY <1>3, <1>5, KindsOfSubmissions
     DEF Outgoing, DeliverImage, TimeToLivePasses, Deliver, SendCancelled, LeftSendTaken, Reap
<1>6. CASE Life
  BY <1>6 DEF Life, Start, BeginStop, ListenerClosed, StopEnds, Crash, Gone
<1>7. CASE \E m \in Media, i \in Index : DeleteMedia(m, i)
  BY <1>7 DEF DeleteMedia
<1>8. CASE UNCHANGED vars
  BY <1>8 DEF vars
<1>. QED BY <1>1, <1>2, <1>4, <1>5, <1>6, <1>7, <1>8 DEF Next, Webhook

\* Which webhooks await their form, what the service is at, and that the load is fixed.
LEMMA ServiceSteps ==
  ASSUME IntakeType, [Next]_vars
  PROVE  load' = load /\ service' \in Services /\ posting' \subseteq load \cap Messages /\ posts' \in Nat
<1>1. CASE \E m \in Messages : PostArrives(m)
  BY <1>1 DEF PostArrives, IntakeType
<1>2. CASE \E m \in Messages : Accept(m)
  BY <1>2 DEF Accept, IntakeType
<1>3. CASE \E d \in Submissions : SendEnds(d)
  BY <1>3 DEF SendEnds, IntakeType
<1>4. CASE WorkerStep
  BY <1>3, <1>4, KindsOfSubmissions
     DEF WorkerStep, AskForText, BeginIngestion, IngestionRefused, DropQueued, LoadAttachment,
         DownloadEnds, DownloadFails, ApologyEnds, ClaimIngestion, AskForMedia, CognitionFails, CognitionAnswers,
         IntakeType
<1>5. CASE Outgoing
  BY <1>3, <1>5, KindsOfSubmissions
     DEF Outgoing, DeliverImage, TimeToLivePasses, Deliver, SendCancelled, LeftSendTaken, Reap,
         IntakeType
<1>6. CASE Life
  BY <1>6 DEF Life, Start, BeginStop, ListenerClosed, StopEnds, Crash, Gone, IntakeType, Services
<1>7. CASE \E m \in Media, i \in Index : DeleteMedia(m, i)
  BY <1>7 DEF DeleteMedia, IntakeType
<1>8. CASE UNCHANGED vars
  BY <1>8 DEF vars, IntakeType
<1>. QED BY <1>1, <1>2, <1>4, <1>5, <1>6, <1>7, <1>8 DEF Next, Webhook

\* The types of the service, the inbox, the cache and the worker.
LEMMA IntakeTypeStep == IntakeType /\ StoreType /\ [Next]_vars => IntakeType'
<1>. SUFFICES ASSUME IntakeType, StoreType, [Next]_vars PROVE IntakeType'
  OBVIOUS
<1>1. inbox' \in Seq(Messages)
  <2>1. inbox \in Seq(Messages) /\ <<>> \in Seq(Messages)
    BY DEF IntakeType
  <2>2. inbox # <<>> => Tail(inbox) \in Seq(Messages)
    BY <2>1, HeadTailProperties
  <2>3. \A m \in Messages : Append(inbox, m) \in Seq(Messages)
    BY <2>1, AppendProperties
  <2>. QED BY <2>1, <2>2, <2>3, QueueSteps DEF AcceptStep
<1>2. accepted' \in Seq(Messages) /\ Distinct(accepted')
  <2>1. accepted \in Seq(Messages) /\ Distinct(accepted) /\ <<>> \in Seq(Messages) /\ Distinct(<<>>)
    BY DEF IntakeType, Distinct
  <2>. QED BY <2>1, QueueSteps, RememberedKeeps, ForgottenKeeps DEF AcceptStep
<1>. QED BY <1>1, <1>2, WorkerSteps, ServiceSteps DEF IntakeType

-----------------------------------------------------------------------------
\* Claims.

\* A message that was analysed under a claim is past "partial" for good, and one whose claim
\* was just committed is nobody else's and was not analysed under one.
ClaimSound ==
  /\ \A m \in Media : claims[m] <= 1 /\ (claims[m] = 1 => row[m] \notin {"none", "partial"})
  /\ worker.stage = "claiming" /\ worker.tracking =>
       row[worker.message] = "processing" /\ claims[worker.message] = 0

ClaimInv == StoreType /\ HistoryType /\ ClaimSound

\* What the steps that neither touch the store nor begin cognition keep, if they make no
\* claim.
LEMMA ClaimKept ==
  ASSUME ClaimInv, UNCHANGED <<row, saved, history>>,
         worker' = worker \/ worker'.stage # "claiming"
  PROVE  ClaimInv'
BY DEF ClaimInv, StoreType, HistoryType, ClaimSound, history

\* finish_ingestion: the row of a claimed message goes on, and nobody else's.
LEMMA FinishedKeeps ==
  ASSUME IntakeType, ClaimInv, worker.message \in Messages,
         NEW status \in {"completed", "failed"}, Finished(worker.message, status),
         UNCHANGED <<saved, history>>, worker'.stage # "claiming"
  PROVE  ClaimInv'
<1>1. CASE row' = row
  BY <1>1, ClaimKept
<1>2. CASE row' # row
  <2>1. /\ worker.message \in Media /\ row[worker.message] = "processing"
        /\ row' = [row EXCEPT ![worker.message] = status]
    <3>1. row[worker.message] = "processing" /\ row' = [row EXCEPT ![worker.message] = status]
      BY <1>2 DEF Finished
    <3>2. worker.message \notin Media => row' = row
      BY <3>1 DEF ClaimInv, StoreType
    <3>. QED BY <1>2, <3>1, <3>2
  <2>2. \A m \in Media : row'[m] = IF m = worker.message THEN status ELSE row[m]
    BY <2>1 DEF ClaimInv, StoreType
  <2>3. StoreType' /\ HistoryType'
    BY <2>1 DEF ClaimInv, StoreType, HistoryType, RowStates, history
  <2>4. ClaimSound'
    BY <2>2 DEF ClaimInv, ClaimSound, history
  <2>. QED BY <2>3, <2>4 DEF ClaimInv
<1>. QED BY <1>1, <1>2

\* begin_ingestion makes the row of a message that had none.
LEMMA BeginKeeps ==
  ASSUME IntakeType, ClaimInv, BeginIngestion
  PROVE  ClaimInv'
<1>. DEFINE m == Head(inbox)
<1>1. m \in Media /\ UNCHANGED <<saved, history>> /\ worker.stage = "idle"
  BY DEF BeginIngestion
<1>2. worker' = worker \/ worker'.stage = "loading"
  BY DEF BeginIngestion
<1>3. CASE row' = row
  BY <1>1, <1>2, <1>3, ClaimKept
<1>4. CASE row' # row
  <2>1. row[m] = "none" /\ row' = [row EXCEPT ![m] = "partial"]
    BY <1>4 DEF BeginIngestion
  <2>. HIDE DEF m
  <2>2. \A x \in Media : row'[x] = IF x = m THEN "partial" ELSE row[x]
    BY <1>1, <2>1 DEF ClaimInv, StoreType
  <2>3. StoreType' /\ HistoryType'
    BY <1>1, <2>1 DEF ClaimInv, StoreType, HistoryType, RowStates, history
  <2>4. ClaimSound'
    BY <1>1, <1>2, <2>1, <2>2 DEF ClaimInv, ClaimSound, history
  <2>. QED BY <2>3, <2>4 DEF ClaimInv
<1>. QED BY <1>3, <1>4

\* claim_ingestion: the claim is taken from "partial" only, so nobody analysed it under one.
LEMMA ClaimKeeps ==
  ASSUME IntakeType, ClaimInv, ClaimIngestion
  PROVE  ClaimInv'
<1>. DEFINE m == worker.message
<1>1. m \in Media /\ UNCHANGED <<saved, history>> /\ worker \in Workers
  BY DEF ClaimIngestion, IntakeType, IntakeStages
<1>2. CASE /\ row' = row
           /\ worker' = Resting \/ worker' = [worker EXCEPT !.stage = "claiming", !.tracking = FALSE]
  <2>1. worker'.stage # "claiming" \/ ~worker'.tracking
    <3>1. CASE worker' = Resting
      BY <3>1 DEF Resting
    <3>2. CASE worker' = [worker EXCEPT !.stage = "claiming", !.tracking = FALSE]
      <4>1. worker'.tracking = FALSE
        BY <1>1, <3>2 DEF Workers
      <4>. QED BY <4>1
    <3>. QED BY <1>2, <3>1, <3>2
  <2>. QED BY <1>1, <1>2, <2>1 DEF ClaimInv, StoreType, HistoryType, ClaimSound, history
<1>3. CASE /\ row[m] = "partial" /\ row' = [row EXCEPT ![m] = "processing"]
           /\ worker' = [worker EXCEPT !.stage = "claiming"]
  <2>1. worker'.message = m
    BY <1>1, <1>3 DEF Workers
  <2>. HIDE DEF m
  <2>2. \A x \in Media : row'[x] = IF x = m THEN "processing" ELSE row[x]
    BY <1>1, <1>3 DEF ClaimInv, StoreType
  <2>3. StoreType' /\ HistoryType'
    BY <1>1, <1>3 DEF ClaimInv, StoreType, HistoryType, RowStates, history
  <2>4. claims[m] = 0
    BY <1>1, <1>3 DEF ClaimInv, ClaimSound, HistoryType
  <2>5. ClaimSound'
    BY <1>1, <2>1, <2>2, <2>4 DEF ClaimInv, ClaimSound, history
  <2>. QED BY <2>3, <2>5 DEF ClaimInv
<1>. QED BY <1>2, <1>3 DEF ClaimIngestion

\* Cognition begins: under a claim, on a message that was not analysed under one.
LEMMA CognitionBegins ==
  ASSUME IntakeType, ClaimInv, AskForText \/ AskForMedia
  PROVE  ClaimInv'
<1>1. PICK m \in Messages : turns' = [turns EXCEPT ![m] = @ + 1]
  <2>1. inbox # <<>> => Head(inbox) \in Messages
    BY HeadTailProperties DEF IntakeType
  <2>2. AskForMedia => worker.message \in Messages
    BY DEF AskForMedia, IntakeType, IntakeStages, Messages
  <2>. QED BY <2>1, <2>2 DEF AskForText, AskForMedia, WithCognition
<1>2. turns' \in [Messages -> Nat]
  BY <1>1 DEF ClaimInv, HistoryType
<1>3. UNCHANGED <<row, saved>> /\ worker'.stage # "claiming"
  BY DEF AskForText, AskForMedia, WithCognition, ingestion, IntakeType, Workers
<1>4. CASE claims' = claims
  BY <1>2, <1>3, <1>4 DEF ClaimInv, StoreType, HistoryType, ClaimSound
<1>5. CASE claims' # claims
  <2>1. /\ worker.stage = "claiming" /\ worker.tracking
        /\ claims' = [claims EXCEPT ![worker.message] = @ + 1] /\ worker.message \in Media
    BY <1>5 DEF AskForText, AskForMedia, IntakeType, IntakeStages
  <2>2. claims[worker.message] = 0 /\ row[worker.message] = "processing"
    BY <2>1 DEF ClaimInv, ClaimSound
  <2>3. \A x \in Media : claims'[x] = IF x = worker.message THEN 1 ELSE claims[x]
    BY <2>1, <2>2 DEF ClaimInv, HistoryType
  <2>4. claims' \in [Media -> Nat]
    BY <2>1 DEF ClaimInv, HistoryType
  <2>. QED BY <1>2, <1>3, <2>2, <2>3, <2>4 DEF ClaimInv, StoreType, HistoryType, ClaimSound
<1>. QED BY <1>4, <1>5

\* Every step keeps what is said of the rows and the claims.
LEMMA ClaimStep == IntakeType /\ ClaimInv /\ [Next]_vars => ClaimInv'
<1>. SUFFICES ASSUME IntakeType, ClaimInv, [Next]_vars PROVE ClaimInv'
  OBVIOUS
<1>1. CASE AskForText \/ AskForMedia
  BY <1>1, CognitionBegins
<1>2. CASE BeginIngestion
  BY <1>2, BeginKeeps
<1>3. CASE ClaimIngestion
  BY <1>3, ClaimKeeps
<1>4. CASE CognitionFails \/ CognitionAnswers
  <2>1. worker.message \in Messages /\ worker \in Workers
    BY <1>4 DEF CognitionFails, CognitionAnswers, IntakeType, AnswerStages
  <2>2. worker'.stage # "claiming"
    BY <1>4, <2>1 DEF CognitionFails, CognitionAnswers, Resting, Workers
  <2>. QED BY <1>4, <2>1, <2>2, FinishedKeeps DEF CognitionFails, CognitionAnswers
<1>5. CASE LoadAttachment \/ DownloadFails \/ DropQueued \/ IngestionRefused \/ ApologyEnds
  <2>1. UNCHANGED <<row, saved, history>>
    BY <1>5 DEF LoadAttachment, DownloadFails, DropQueued, IngestionRefused, ApologyEnds, ingestion
  <2>2. worker' = worker \/ worker'.stage # "claiming"
    <3>1. worker \in Workers
      BY DEF IntakeType
    <3>2. CASE LoadAttachment \/ DownloadFails
      BY <3>1, <3>2 DEF LoadAttachment, DownloadFails, Workers
    <3>3. CASE DropQueued \/ IngestionRefused \/ ApologyEnds
      BY <3>3 DEF DropQueued, IngestionRefused, ApologyEnds, Resting
    <3>. QED BY <1>5, <3>2, <3>3
  <2>. QED BY <2>1, <2>2, ClaimKept
<1>6. CASE DownloadEnds \/ \E m \in Media, i \in Index : DeleteMedia(m, i)
  <2>1. saved' \in [Media -> [Index -> SavedStates]]
    <3>1. CASE saved' = saved
      BY <3>1 DEF ClaimInv, StoreType
    <3>2. CASE saved' # saved
      <4>1. PICK m \in Media, i \in Int, s \in SavedStates : saved' = [saved EXCEPT ![m][i] = s]
        <5>1. CASE DownloadEnds
          <6>1. worker.message \in Media /\ worker.next \in Int
            BY <5>1 DEF DownloadEnds, IntakeType, IntakeStages, Workers
          <6>2. saved' = [saved EXCEPT ![worker.message][worker.next] = "available"]
            BY <3>2, <5>1 DEF DownloadEnds
          <6>. QED BY <6>1, <6>2 DEF SavedStates
        <5>2. CASE \E m \in Media, i \in Index : DeleteMedia(m, i)
          <6>1. \E m \in Media, i \in Index : saved' = [saved EXCEPT ![m][i] = "deleted"]
            BY <5>2 DEF DeleteMedia
          <6>2. \A i \in Index : i \in Int
            BY SizesAssumption DEF Index
          <6>. QED BY <6>1, <6>2 DEF SavedStates
        <5>. QED BY <1>6, <5>1, <5>2
      <4>. QED BY <4>1 DEF ClaimInv, StoreType
    <3>. QED BY <3>1, <3>2
  <2>2. UNCHANGED <<row, history>> /\ (worker' = worker \/ worker'.stage # "claiming")
    BY <1>6 DEF DownloadEnds, DeleteMedia, IntakeType, Workers
  <2>. QED BY <2>1, <2>2 DEF ClaimInv, StoreType, HistoryType, ClaimSound, history
<1>7. CASE StopEnds \/ Crash
  <2>1. /\ UNCHANGED <<row, saved, claims>> /\ worker'.stage = "idle"
        /\ turns' = [m \in Messages |-> 0]
    BY <1>7 DEF StopEnds, Crash, Gone, Resting, ingestion
  <2>. QED BY <2>1 DEF ClaimInv, StoreType, HistoryType, ClaimSound
<1>8. CASE \E d \in Submissions : SendEnds(d)
  <2>1. UNCHANGED <<row, saved, history>> /\ (worker' = worker \/ worker'.stage = "idle")
    BY <1>8 DEF SendEnds, Resting, ingestion
  <2>. QED BY <2>1, ClaimKept
<1>9. CASE UNCHANGED <<row, saved, history, worker>>
  BY <1>9, ClaimKept
<1>10. CASE \E m \in Messages : PostArrives(m) \/ Accept(m)
  BY <1>9, <1>10 DEF PostArrives, Accept, ingestion
<1>11. CASE \/ \E i \in Images : DeliverImage(i) \/ TimeToLivePasses(i)
            \/ \E n \in Notices : Deliver(n)
            \/ \E d \in Images \cup Notices : SendCancelled(d)
            \/ \E d \in Submissions : LeftSendTaken(d)
            \/ Reap
  BY <1>9, <1>11 DEF DeliverImage, TimeToLivePasses, Deliver, SendCancelled, LeftSendTaken, Reap,
                     ingestion
<1>12. CASE Start \/ BeginStop \/ ListenerClosed
  BY <1>9, <1>12 DEF Start, BeginStop, ListenerClosed, ingestion
<1>13. CASE UNCHANGED vars
  BY <1>9, <1>13 DEF vars, ingestion
<1>. QED
  BY <1>1, <1>2, <1>3, <1>4, <1>5, <1>6, <1>7, <1>8, <1>10, <1>11, <1>12, <1>13, KindsOfSubmissions
     DEF Next, Webhook, WorkerStep, Outgoing, Life

-----------------------------------------------------------------------------
\* Deduplication.

\* The process has seen no more messages than its cache holds.
WithinWindow ==
  IsFiniteSet(load \cap Messages) /\ Cardinality(load \cap Messages) <= DedupeSize

\* The worker has the message, and has not begun cognition of it.
InIntake(m) == worker.stage \in IntakeStages /\ worker.message = m

\* Whoever waits in the inbox, is in intake or was given to cognition is in the cache, is
\* only one of the three, and was given to cognition once.
IntakeSound ==
  /\ Distinct(inbox)
  /\ ToSet(inbox) \subseteq ToSet(accepted) /\ ToSet(accepted) \subseteq load \cap Messages
  /\ \A m \in Messages :
       /\ m \in ToSet(inbox) => turns[m] = 0 /\ ~InIntake(m)
       /\ InIntake(m) => m \in ToSet(accepted) /\ turns[m] = 0
       /\ turns[m] <= 1 /\ (turns[m] = 1 => m \in ToSet(accepted))

\* While the cache holds all that was seen, it forgets nobody to remember another.
LEMMA RememberedInWindow ==
  ASSUME IntakeType, WithinWindow, ToSet(accepted) \subseteq load \cap Messages,
         NEW m \in load \cap Messages, m \notin ToSet(accepted)
  PROVE  ToSet(Remembered(m)) = ToSet(accepted) \cup {m}
<1>1. /\ Append(accepted, m) \in Seq(Messages) /\ Distinct(Append(accepted, m))
      /\ ToSet(Append(accepted, m)) = ToSet(accepted) \cup {m}
  BY AppendToDistinct DEF IntakeType
<1>2. Len(Append(accepted, m)) <= Cardinality(load \cap Messages)
  <2>. DEFINE S == load \cap Messages  q == Append(accepted, m)
  <2>1. IsFiniteSet(S) /\ q \in Seq(Messages) /\ Distinct(q) /\ ToSet(q) \subseteq S
    BY <1>1 DEF WithinWindow
  <2>. HIDE DEF S, q
  <2>2. Len(q) <= Cardinality(S)
    BY <2>1, DistinctIsShort
  <2>. QED BY <2>2 DEF S, q
<1>3. Len(Append(accepted, m)) \in Nat /\ Cardinality(load \cap Messages) \in Nat
  BY <1>1, FS_CardinalityType DEF WithinWindow
<1>4. ~(Len(Append(accepted, m)) > DedupeSize)
  BY <1>2, <1>3, SizesAssumption DEF WithinWindow
<1>. QED BY <1>1, <1>4 DEF Remembered

\* What the steps keep that leave the queues and the turns alone and take nobody in.
LEMMA IntakeKept ==
  ASSUME IntakeSound, UNCHANGED <<load, inbox, accepted, turns>>,
         \A m \in Messages : InIntake(m)' => InIntake(m)
  PROVE  IntakeSound'
BY DEF IntakeSound

\* A message that leaves the inbox leaves it for good.
LEMMA InboxLess ==
  ASSUME IntakeType, IntakeSound, inbox # <<>>
  PROVE  /\ Head(inbox) \in Messages /\ Head(inbox) \in ToSet(inbox)
         /\ Tail(inbox) \in Seq(Messages) /\ Distinct(Tail(inbox))
         /\ ToSet(Tail(inbox)) \subseteq ToSet(inbox) \ {Head(inbox)}
<1>1. inbox \in Seq(Messages) /\ Distinct(inbox)
  BY DEF IntakeType, IntakeSound
<1>2. Head(inbox) \in Messages
  BY <1>1, HeadTailProperties
<1>. QED BY <1>1, <1>2, TailOfDistinct

\* The webhook that lets a message in.
LEMMA AcceptKeeps ==
  ASSUME IntakeType, WithinWindow, HistoryType, IntakeSound, NEW m \in Messages, AcceptStep(m)
  PROVE  IntakeSound'
<1>1. m \in load \cap Messages /\ UNCHANGED <<load, worker, turns>>
  BY DEF AcceptStep, IntakeType
<1>2. CASE UNCHANGED <<inbox, accepted>>
  BY <1>1, <1>2 DEF IntakeSound, InIntake
<1>3. CASE /\ m \notin ToSet(accepted)
           /\ inbox' = Append(inbox, m) /\ accepted' = Remembered(m)
  <2>1. m \notin ToSet(inbox) /\ turns[m] = 0 /\ ~InIntake(m)
    BY <1>3 DEF IntakeSound, HistoryType
  <2>2. Distinct(inbox') /\ ToSet(inbox') = ToSet(inbox) \cup {m}
    BY <1>3, <2>1, AppendToDistinct DEF IntakeType, IntakeSound
  <2>3. ToSet(accepted') = ToSet(accepted) \cup {m}
    BY <1>1, <1>3, RememberedInWindow DEF IntakeSound
  <2>4. \A x \in Messages : InIntake(x)' = InIntake(x)
    BY <1>1 DEF InIntake
  <2>. QED BY <1>1, <2>1, <2>2, <2>3, <2>4 DEF IntakeSound
<1>. QED BY <1>2, <1>3 DEF AcceptStep

\* An intake that the store refuses: the message leaves the inbox and the cache.
LEMMA RefusedKeeps ==
  ASSUME IntakeType, IntakeSound, IngestionRefused
  PROVE  IntakeSound'
<1>. DEFINE m == Head(inbox)
<1>1. /\ inbox # <<>> /\ inbox' = Tail(inbox) /\ UNCHANGED <<load, turns>>
      /\ accepted' = Forgotten(m) /\ worker'.stage = "apology"
  BY DEF IngestionRefused, history
<1>2. /\ m \in Messages /\ m \in ToSet(inbox) /\ Distinct(Tail(inbox))
      /\ ToSet(Tail(inbox)) \subseteq ToSet(inbox) \ {m}
  BY <1>1, InboxLess
<1>. HIDE DEF m
<1>3. ToSet(accepted') = ToSet(accepted) \ {m}
  BY <1>1, <1>2, ForgottenKeeps
<1>4. \A x \in Messages : ~InIntake(x)'
  BY <1>1 DEF InIntake, IntakeStages
<1>. QED BY <1>1, <1>2, <1>3, <1>4 DEF IntakeSound

\* A message is taken in: from the inbox to the intake, or, a text, to cognition at once.
LEMMA TakeKeeps ==
  ASSUME IntakeType, HistoryType, IntakeSound, AskForText \/ BeginIngestion \/ DropQueued
  PROVE  IntakeSound'
<1>. DEFINE m == Head(inbox)
<1>1. inbox # <<>> /\ inbox' = Tail(inbox) /\ UNCHANGED <<load, accepted>> /\ worker.stage = "idle"
  BY DEF AskForText, BeginIngestion, DropQueued
<1>2. /\ m \in Messages /\ m \in ToSet(inbox) /\ Distinct(Tail(inbox))
      /\ ToSet(Tail(inbox)) \subseteq ToSet(inbox) \ {m}
  BY <1>1, InboxLess
<1>3. turns[m] = 0 /\ m \in ToSet(accepted)
  BY <1>2 DEF IntakeSound
<1>. HIDE DEF m
<1>4. CASE AskForText
  <2>1. turns' = [turns EXCEPT ![m] = @ + 1] /\ worker'.stage = "cognition"
    BY <1>4 DEF AskForText, WithCognition, m, IntakeType, Workers
  <2>2. \A x \in Messages : turns'[x] = IF x = m THEN 1 ELSE turns[x]
    BY <1>2, <1>3, <2>1 DEF HistoryType
  <2>3. \A x \in Messages : ~InIntake(x)'
    BY <2>1 DEF InIntake, IntakeStages
  <2>. QED BY <1>1, <1>2, <1>3, <2>2, <2>3 DEF IntakeSound
<1>5. CASE BeginIngestion \/ DropQueued
  <2>1. turns' = turns
    BY <1>5 DEF BeginIngestion, DropQueued, history
  <2>2. worker' = worker \/ worker'.message = m
    BY <1>5 DEF BeginIngestion, DropQueued, m
  <2>3. \A x \in Messages : InIntake(x)' => x = m
    BY <1>1, <2>2 DEF InIntake, IntakeStages
  <2>. QED BY <1>1, <1>2, <1>3, <2>1, <2>3 DEF IntakeSound
<1>. QED BY <1>4, <1>5

\* A failed intake leaves the cache, and the worker leaves it.
LEMMA FailedKeeps ==
  ASSUME IntakeType, IntakeSound, LoadAttachment \/ DownloadFails
  PROVE  IntakeSound'
<1>1. /\ InIntake(worker.message) /\ worker.message \in Messages /\ worker \in Workers
      /\ UNCHANGED <<load, inbox, turns>>
  BY DEF LoadAttachment, DownloadFails, InIntake, IntakeType, IntakeStages, Messages, history
<1>2. CASE /\ accepted' = Forgotten(worker.message)
           /\ worker' = [worker EXCEPT !.stage = "apology"]
  <2>1. ToSet(accepted') = ToSet(accepted) \ {worker.message}
    BY <1>2, ForgottenKeeps
  <2>2. \A x \in Messages : ~InIntake(x)'
    BY <1>1, <1>2 DEF InIntake, IntakeStages, Workers
  <2>. QED BY <1>1, <2>1, <2>2 DEF IntakeSound
<1>3. CASE accepted' = accepted
  <2>1. worker'.message = worker.message
    BY <1>1 DEF LoadAttachment, DownloadFails, Workers
  <2>2. \A x \in Messages : InIntake(x)' => InIntake(x)
    BY <1>1, <2>1 DEF InIntake
  <2>. QED BY <1>1, <1>3, <2>2, IntakeKept
<1>. QED BY <1>2, <1>3 DEF LoadAttachment, DownloadFails

\* All attachments are there, and cognition begins.
LEMMA AskKeeps ==
  ASSUME IntakeType, HistoryType, IntakeSound, AskForMedia
  PROVE  IntakeSound'
<1>. DEFINE m == worker.message
<1>1. /\ InIntake(m) /\ m \in Messages /\ UNCHANGED <<load, inbox, accepted>>
      /\ turns' = [turns EXCEPT ![m] = @ + 1]
  BY DEF AskForMedia, WithCognition, InIntake, IntakeType, IntakeStages, Messages
<1>2. worker'.stage = "cognition"
  BY DEF AskForMedia, WithCognition, IntakeType, Workers
<1>. HIDE DEF m
<1>3. turns[m] = 0 /\ m \in ToSet(accepted) /\ m \notin ToSet(inbox)
  BY <1>1 DEF IntakeSound
<1>4. \A x \in Messages : turns'[x] = IF x = m THEN 1 ELSE turns[x]
  BY <1>1, <1>3 DEF HistoryType
<1>5. \A x \in Messages : ~InIntake(x)'
  BY <1>2 DEF InIntake, IntakeStages
<1>. QED BY <1>1, <1>3, <1>4, <1>5 DEF IntakeSound

\* Every step keeps what is said of deduplication, within the window.
LEMMA DedupeStep ==
  IntakeType /\ HistoryType /\ WithinWindow /\ IntakeSound /\ [Next]_vars => IntakeSound'
<1>. SUFFICES ASSUME IntakeType, HistoryType, WithinWindow, IntakeSound, [Next]_vars
              PROVE  IntakeSound'
  OBVIOUS
<1>1. CASE \E m \in Messages : Accept(m)
  <2>1. PICK m \in Messages : Accept(m)
    BY <1>1
  <2>2. AcceptStep(m)
    BY <2>1 DEF Accept, AcceptStep, Duplicate, ingestion, history
  <2>. QED BY <2>2, AcceptKeeps
<1>2. CASE AskForText \/ BeginIngestion \/ IngestionRefused \/ DropQueued
  BY <1>2, TakeKeeps, RefusedKeeps
<1>3. CASE LoadAttachment \/ DownloadFails
  BY <1>3, FailedKeeps
<1>4. CASE AskForMedia
  BY <1>4, AskKeeps
<1>5. CASE DownloadEnds \/ ClaimIngestion
  <2>1. UNCHANGED <<load, inbox, accepted, turns>>
    BY <1>5 DEF DownloadEnds, ClaimIngestion, history
  <2>2. worker \in Workers /\ worker.stage \in {"downloading", "loading"}
    BY <1>5 DEF DownloadEnds, ClaimIngestion, IntakeType
  <2>3. worker'.message = worker.message \/ worker' = Resting
    BY <1>5, <2>2 DEF DownloadEnds, ClaimIngestion, Workers
  <2>4. \A m \in Messages : InIntake(m)' => InIntake(m)
    BY <2>2, <2>3 DEF InIntake, IntakeStages, Resting
  <2>. QED BY <2>1, <2>4, IntakeKept
<1>6. CASE ApologyEnds \/ CognitionFails \/ CognitionAnswers \/ \E d \in Submissions : SendEnds(d)
  <2>1. UNCHANGED <<load, inbox, accepted, turns>>
    BY <1>6 DEF ApologyEnds, CognitionFails, CognitionAnswers, SendEnds, history
  <2>2. worker' = worker \/ worker'.stage \in {"idle", "replying"}
    BY <1>6 DEF ApologyEnds, CognitionFails, CognitionAnswers, SendEnds, Resting, IntakeType, Workers
  <2>3. \A m \in Messages : InIntake(m)' => InIntake(m)
    BY <2>2 DEF InIntake, IntakeStages
  <2>. QED BY <2>1, <2>3, IntakeKept
<1>7. CASE StopEnds \/ Crash
  <2>1. /\ load' = load /\ inbox' = <<>> /\ accepted' = <<>> /\ worker'.stage = "idle"
        /\ turns' = [m \in Messages |-> 0]
    BY <1>7 DEF StopEnds, Crash, Gone, Resting
  <2>2. ToSet(<<>>) = {} /\ Distinct(<<>>)
    BY DEF ToSet, Distinct
  <2>. QED BY <2>1, <2>2 DEF IntakeSound, InIntake, IntakeStages
<1>8. CASE UNCHANGED <<load, inbox, accepted, turns, worker>>
  BY <1>8, IntakeKept DEF InIntake
<1>9. CASE \E m \in Messages : PostArrives(m)
  BY <1>8, <1>9 DEF PostArrives, history
<1>10. CASE \/ \E i \in Images : DeliverImage(i) \/ TimeToLivePasses(i)
            \/ \E n \in Notices : Deliver(n)
            \/ \E d \in Images \cup Notices : SendCancelled(d)
            \/ \E d \in Submissions : LeftSendTaken(d)
            \/ Reap
            \/ \E m \in Media, i \in Index : DeleteMedia(m, i)
  BY <1>8, <1>10 DEF DeliverImage, TimeToLivePasses, Deliver, SendCancelled, LeftSendTaken, Reap,
                     DeleteMedia, history
<1>11. CASE Start \/ BeginStop \/ ListenerClosed
  BY <1>8, <1>11 DEF Start, BeginStop, ListenerClosed, history
<1>12. CASE UNCHANGED vars
  BY <1>8, <1>12 DEF vars, history
<1>. QED
  BY <1>1, <1>2, <1>3, <1>4, <1>5, <1>6, <1>7, <1>9, <1>10, <1>11, <1>12, KindsOfSubmissions
     DEF Next, Webhook, WorkerStep, Outgoing, Life

-----------------------------------------------------------------------------
\* The inductive invariant: the deduplication within its window, the rest always.
SmsInv == IntakeType /\ OutboundInv /\ ClaimInv /\ (WithinWindow => IntakeSound)

\* It holds of the initial states.
LEMMA SmsInitially == Init => SmsInv
<1>. SUFFICES ASSUME Init PROVE SmsInv
  OBVIOUS
<1>0. ToSet(<<>>) = {} /\ Distinct(<<>>) /\ Resting \in Workers /\ Resting.stage = "idle"
  BY DEF ToSet, Distinct, Resting, Workers, WorkerStages
<1>1. IntakeType
  BY <1>0 DEF Init, IntakeType, Services, IntakeStages, AnswerStages
<1>2. OutboundInv
  <2>1. OutboundType /\ Unconfirmed /\ EvidenceTrue
    BY DEF Init, OutboundType, SendStates, AttemptStates, Unconfirmed, EvidenceTrue
  <2>2. Staged /\ Limited
    BY KindsOfSubmissions, FS_EmptySet, SizesAssumption DEF Init, Staged, Limited
  <2>. QED BY <2>1, <2>2 DEF OutboundInv
<1>3. ClaimInv
  <2>1. StoreType /\ HistoryType
    BY DEF Init, StoreType, HistoryType, RowStates, SavedStates
  <2>. QED BY <1>0, <2>1 DEF Init, ClaimInv, ClaimSound
<1>4. IntakeSound
  BY <1>0 DEF Init, IntakeSound, InIntake, IntakeStages
<1>. QED BY <1>1, <1>2, <1>3, <1>4 DEF SmsInv

\* The type invariant and the strengthenings are preserved, for any messages and sizes.
THEOREM SmsInductive == Spec => []SmsInv
<1>1. SmsInv /\ [Next]_vars => SmsInv'
  <2>. SUFFICES ASSUME SmsInv, [Next]_vars PROVE SmsInv'
    OBVIOUS
  <2>1. IntakeType' /\ OutboundInv' /\ ClaimInv'
    BY IntakeTypeStep, OutboundStep, ClaimStep DEF SmsInv, ClaimInv
  <2>2. WithinWindow' => WithinWindow
    BY ServiceSteps DEF SmsInv, WithinWindow
  <2>. QED BY <2>1, <2>2, DedupeStep DEF SmsInv, ClaimInv
<1>. QED BY SmsInitially, <1>1, PTL DEF Spec

\* Whatever answers are lost and whatever threads are left behind, "accepted" is recorded
\* only of what Twilio has and "rejected" only of what it never will.
THEOREM EvidenceAlwaysTrue == Spec => []EvidenceTrue
<1>1. SmsInv => EvidenceTrue
  BY DEF SmsInv, OutboundInv
<1>. QED BY <1>1, SmsInductive, PTL

\* An image that Twilio took, or may yet take, is staged until its time has passed or the
\* service stops, however many are submitted and withdrawn; the store keeps its limit.
THEOREM ImagesAlwaysFetchable == Spec => []ImageFetchable
<1>1. SmsInv => ImageFetchable
  BY DEF SmsInv, OutboundInv, Staged, Limited, ImageFetchable
<1>. QED BY <1>1, SmsInductive, PTL

\* Whatever processes die, a message is analysed under a durable claim once at most.
THEOREM ClaimsAlwaysOnce == Spec => [](\A m \in Media : claims[m] <= 1)
<1>1. SmsInv => \A m \in Media : claims[m] <= 1
  BY DEF SmsInv, ClaimInv, ClaimSound
<1>. QED BY <1>1, SmsInductive, PTL

\* A process that has seen no more messages than its cache holds gives each to cognition
\* once at most, however often the provider repeats it and whatever fails.
THEOREM AlwaysAnsweredOnce == Spec => [](WithinWindow => AnsweredOnce)
<1>1. SmsInv => (WithinWindow => AnsweredOnce)
  BY DEF SmsInv, IntakeSound, ClaimInv, ClaimSound, AnsweredOnce
<1>. QED BY <1>1, SmsInductive, PTL

-----------------------------------------------------------------------------
\* Voice.  The microphone is lent to whoever has the lock, and each place in the code where
\* a thread may listen lies inside the loan of its owner.

Stages == {"none", "created", "loading", "halted", "entering", "recording", "done"}
ThreadStates == [stage : Stages, heard : Heard \cup {"none"}, missed : BOOLEAN]
SessionPlaces == {"none", "cue", "listening", "stopping", "joining", "thinking", "synthesising",
                  "playing", "halting", "closing", "disabling", "over"}
WakePlaces == {"waiting", "queued", "capturing", "starting", "ended", "failed"}
StopPlaces == {"none", "asking", "retrying", "pausing", "cancelling", "joining", "over"}

\* The threads, the listener, the session and the two ends of its life.
VoiceTypeOK ==
  /\ capture \in [Captures -> ThreadStates] /\ tasks \subseteq Captures
  /\ wake \in WakePlaces
  /\ lock \in {"free", "start", "wake"} /\ mic \in {"free", "voice", "wake"}
  /\ speaker \in {"free", "cue", "voice", "earcon"}
  /\ starter \in [by : {"nobody", "console", "wake"}, at : {"none", "stopping", "locking", "session"}]
  /\ session \in [at : SessionPlaces, turn : Nat, cancel : {"no", "asked", "taken"}]
  /\ stop \in [at : StopPlaces, failed : BOOLEAN, late : BOOLEAN]

\* The lock and the lease of the microphone are the listener's while it captures and the
\* start()'s while there is a session, and nobody's otherwise.
Lent ==
  /\ lock = "wake" <=> wake = "capturing"
  /\ lock = "start" <=> session.at # "none"
  /\ mic = "wake" <=> lock = "wake"
  /\ mic = "voice" <=> lock = "start"

\* A session has the start() that made it, which the listener awaits if it made it.
Started ==
  /\ starter.at = "session" <=> session.at # "none"
  /\ starter.by = "nobody" <=> starter.at = "none"
  /\ starter.by = "wake" <=> wake = "starting"
  /\ starter.by = "wake" => starter.at = "session"
  /\ session.at = "none" => session = NoSession

\* Cancellation comes with the end of the process, which no start() of the console survives.
Ending ==
  /\ session.cancel # "no" => quit
  /\ Stopping => quit /\ starter.by # "console"

\* A thread belongs to the capture of the listener, or to a session that listens; only the
\* end of the process leaves one behind.
Owned ==
  /\ capture["wake"].stage # "none" => wake = "capturing"
  /\ capture["session"].stage # "none" =>
       session.at \in {"listening", "stopping", "joining"} \/ quit

\* Only a session that speaks, or disables the speaker, has it.
Speaks == speaker = "voice" => session.at \in {"synthesising", "playing", "disabling"}

\* stop() returns after the listener, unless it gave that up.
Quietly == stop.at = "over" /\ ~stop.late => wake \in {"ended", "failed"}

VoiceInv == VoiceTypeOK /\ Lent /\ Started /\ Ending /\ Owned /\ Speaks /\ Quietly

-----------------------------------------------------------------------------
\* What telling a capture to stop, and the vendor's stop, do to the threads: whoever has
\* none has none.
LEMMA TellingKeepsThreads ==
  ASSUME NEW cs \in [Captures -> ThreadStates]
  PROVE  /\ Told(cs) \in [Captures -> ThreadStates]
         /\ \A c \in Captures : Told(cs)[c].stage = "none" <=> cs[c].stage = "none"
<1>1. ASSUME NEW c \in Captures
      PROVE  Told(cs)[c] \in ThreadStates /\ (Told(cs)[c].stage = "none" <=> cs[c].stage = "none")
  <2>1. cs[c] \in ThreadStates
    OBVIOUS
  <2>2. Told(cs)[c] = CASE cs[c].stage = "created" -> Missed(cs[c])
                        [] cs[c].stage = "loading" -> [cs[c] EXCEPT !.stage = "halted"]
                        [] OTHER -> cs[c]
    BY DEF Told
  <2>3. CASE cs[c].stage = "created"
    BY <2>1, <2>2, <2>3 DEF Missed, ThreadStates, Stages
  <2>4. CASE cs[c].stage = "loading"
    BY <2>1, <2>2, <2>4 DEF ThreadStates, Stages
  <2>5. CASE cs[c].stage \notin {"created", "loading"}
    BY <2>1, <2>2, <2>5
  <2>. QED BY <2>3, <2>4, <2>5
<1>. QED BY <1>1 DEF Told

\* The same of the vendor's stop.
LEMMA VendorStopKeepsThreads ==
  ASSUME VoiceTypeOK, NEW ok \in BOOLEAN, NEW h \in Heard
  PROVE  /\ VendorStop(ok, h) \in [Captures -> ThreadStates]
         /\ \A c \in Captures : VendorStop(ok, h)[c].stage = "none" <=> capture[c].stage = "none"
<1>1. ASSUME NEW c \in Captures
      PROVE  /\ VendorStop(ok, h)[c] \in ThreadStates
             /\ VendorStop(ok, h)[c].stage = "none" <=> capture[c].stage = "none"
  <2>1. capture[c] \in ThreadStates
    BY DEF VoiceTypeOK
  <2>2. \/ /\ capture[c].stage = "recording" /\ VendorStop(ok, h)[c] = Done(h)
        \/ /\ capture[c].stage \in {"entering", "recording"}
           /\ VendorStop(ok, h)[c] = Missed(capture[c])
        \/ VendorStop(ok, h)[c] = capture[c]
    BY DEF VendorStop
  <2>3. Done(h) \in ThreadStates /\ Done(h).stage = "done"
    BY DEF Done, Silent, ThreadStates, Stages
  <2>4. capture[c].stage \in {"entering", "recording"} =>
          Missed(capture[c]) \in ThreadStates /\ Missed(capture[c]).stage # "none"
    BY <2>1 DEF Missed, ThreadStates, Stages
  <2>. QED BY <2>1, <2>2, <2>3, <2>4
<1>. QED BY <1>1 DEF VendorStop

\* What happens beside the protocol: threads, and earcons.
LEMMA ThreadsKeep ==
  ASSUME VoiceInv, UNCHANGED <<wake, lock, mic, starter, session, quit, stop>>, tasks' \subseteq Captures,
         capture' \in [Captures -> ThreadStates],
         \A c \in Captures : capture'[c].stage = "none" <=> capture[c].stage = "none",
         speaker' = speaker \/ speaker' \in {"free", "earcon"}
  PROVE  VoiceInv'
<1>1. VoiceTypeOK'
  BY DEF VoiceInv, VoiceTypeOK
<1>2. Lent' /\ Started' /\ Ending' /\ Speaks' /\ Quietly'
  BY DEF VoiceInv, Lent, Started, Ending, Stopping, Speaks, Quietly, NoSession
<1>3. Owned'
  BY DEF VoiceInv, Owned, Captures
<1>. QED BY <1>1, <1>2, <1>3 DEF VoiceInv

\* What a session does while it lives: it keeps the microphone, and says where it listens
\* and speaks.
LEMMA SessionMoves ==
  ASSUME VoiceInv, session.at # "none",
         UNCHANGED <<wake, lock, mic, starter, quit, stop>>, tasks' \subseteq Captures,
         session' \in [at : SessionPlaces, turn : Nat, cancel : {"no", "asked", "taken"}],
         session'.at # "none", session'.cancel # "no" => quit,
         capture' \in [Captures -> ThreadStates],
         capture'["wake"].stage # "none" => capture["wake"].stage # "none",
         capture'["session"].stage # "none" =>
           session'.at \in {"listening", "stopping", "joining"} \/ quit,
         speaker' \in {"free", "cue", "voice", "earcon"},
         speaker' = "voice" => session'.at \in {"synthesising", "playing", "disabling"}
  PROVE  VoiceInv'
<1>1. VoiceTypeOK'
  BY DEF VoiceInv, VoiceTypeOK
<1>2. Lent' /\ Started' /\ Ending' /\ Speaks' /\ Quietly'
  BY DEF VoiceInv, Lent, Started, Ending, Stopping, Speaks, Quietly
<1>3. Owned'
  BY DEF VoiceInv, Owned
<1>. QED BY <1>1, <1>2, <1>3 DEF VoiceInv

\* A capture begins.
LEMMA ListenMakes ==
  ASSUME VoiceTypeOK, NEW turn \in Nat, NEW cs \in [Captures -> ThreadStates],
         NEW held \in SUBSET Captures, Listen(turn, cs, held)
  PROVE  /\ capture' \in [Captures -> ThreadStates] /\ tasks' \subseteq Captures
         /\ capture'["wake"] = cs["wake"]
         /\ session' \in [at : SessionPlaces, turn : Nat, cancel : {"no", "asked", "taken"}]
         /\ session'.at = "listening" /\ session'.cancel = session.cancel
<1>1. Begun \in ThreadStates
  BY DEF Begun, Silent, ThreadStates, Stages
<1>. QED BY <1>1 DEF Listen, Captures, VoiceTypeOK, SessionPlaces

\* start() has the lock and makes the session.
LEMMA CreateSessionMakes ==
  ASSUME VoiceInv, session.at = "none", NEW by \in {"console", "wake"},
         NEW cs \in [Captures -> ThreadStates], cs["session"].stage # "none" => quit,
         NEW held \in SUBSET Captures, CreateSession(by, cs, held)
  PROVE  /\ mic' = "voice" /\ lock' = "start" /\ starter' = [by |-> by, at |-> "session"]
         /\ capture' \in [Captures -> ThreadStates] /\ tasks' \subseteq Captures
         /\ capture'["wake"] = cs["wake"]
         /\ session' \in [at : SessionPlaces, turn : Nat, cancel : {"no", "asked", "taken"}]
         /\ session'.at \in {"cue", "listening"} /\ session'.cancel = "no"
         /\ capture'["session"].stage # "none" => session'.at = "listening" \/ quit
         /\ speaker' \in {"free", "cue", "earcon"}
<1>1. session = NoSession /\ speaker \in {"free", "cue", "earcon"}
  BY DEF VoiceInv, Started, Speaks, VoiceTypeOK
<1>2. mic' = "voice" /\ lock' = "start" /\ starter' = [by |-> by, at |-> "session"]
  BY DEF CreateSession
<1>3. CASE by = "wake" /\ speaker = "free"
  <2>1. speaker' = "cue" /\ session' = [session EXCEPT !.at = "cue"] /\ capture' = cs /\ tasks' = held
    BY <1>3 DEF CreateSession
  <2>. QED BY <1>1, <1>2, <2>1 DEF NoSession, SessionPlaces
<1>4. CASE ~(by = "wake" /\ speaker = "free")
  <2>1. Listen(1, cs, held) /\ speaker' = speaker
    BY <1>4 DEF CreateSession
  <2>2. session.cancel = "no"
    BY <1>1 DEF NoSession
  <2>. QED BY <1>1, <1>2, <2>1, <2>2, ListenMakes DEF VoiceInv
<1>. QED BY <1>3, <1>4

\* The finally of a session lets go of the thread it could not join.
LEMMA CleanUpMakes ==
  ASSUME VoiceTypeOK, session.cancel # "no" => quit, NEW cs \in [Captures -> ThreadStates],
         CleanUp(session, cs)
  PROVE  /\ capture' \in [Captures -> ThreadStates]
         /\ \A c \in Captures : capture'[c].stage = "none" <=> cs[c].stage = "none"
         /\ session' \in [at : SessionPlaces, turn : Nat, cancel : {"no", "asked", "taken"}]
         /\ session'.at \in {"halting", "closing"} /\ (session'.cancel # "no" => quit)
<1>1. capture' = Told(cs)
      /\ session' = [Taken(session) EXCEPT !.at = IF loaded THEN "halting" ELSE "closing"]
  BY DEF CleanUp
<1>2. Taken(session) \in [at : SessionPlaces, turn : Nat, cancel : {"no", "asked", "taken"}]
      /\ (Taken(session).cancel # "no" => quit)
  BY DEF Taken, VoiceTypeOK
<1>. QED BY <1>1, <1>2, TellingKeepsThreads DEF SessionPlaces

-----------------------------------------------------------------------------
\* The threads.
LEMMA ThreadSteps ==
  ASSUME VoiceInv, NEW c \in Captures, ThreadStep(c) \/ ThreadHears(c)
  PROVE  VoiceInv'
<1>1. /\ UNCHANGED <<tasks, wake, lock, mic, speaker, starter, session, quit, stop>>
      /\ capture[c].stage \notin {"none", "done"}
  BY DEF ThreadStep, ThreadHears
<1>2. capture[c] \in ThreadStates /\ capture \in [Captures -> ThreadStates] /\ tasks \subseteq Captures
  BY DEF VoiceInv, VoiceTypeOK
<1>3. PICK t \in ThreadStates : t.stage # "none" /\ capture' = [capture EXCEPT ![c] = t]
  <2>1. \A h \in Heard : Done(h) \in ThreadStates /\ Done(h).stage = "done"
    BY DEF Done, Silent, ThreadStates, Stages
  <2>2. \A g \in {"loading", "entering", "recording"} :
          [capture[c] EXCEPT !.stage = g] \in ThreadStates /\ [capture[c] EXCEPT !.stage = g].stage = g
    BY <1>2 DEF ThreadStates, Stages
  <2>3. CASE ThreadHears(c)
    BY <2>1, <2>3 DEF ThreadHears
  <2>4. CASE ThreadStep(c)
    <3>1. \/ \E h \in Heard : capture' = [capture EXCEPT ![c] = Done(h)]
          \/ \E g \in {"loading", "entering", "recording"} :
               capture' = [capture EXCEPT ![c] = [capture[c] EXCEPT !.stage = g]]
      BY <2>4 DEF ThreadStep, Heard
    <3>. QED BY <2>1, <2>2, <3>1
  <2>. QED BY <2>3, <2>4
<1>. QED BY <1>1, <1>2, <1>3, ThreadsKeep

\* start() of the console.
LEMMA StartSteps ==
  ASSUME VoiceInv, StartVoice \/ StartStops \/ StartLocks \/ StartCancelled
  PROVE  VoiceInv'
<1>0. capture \in [Captures -> ThreadStates] /\ tasks \subseteq Captures /\ VoiceTypeOK
  BY DEF VoiceInv, VoiceTypeOK
<1>1. ASSUME CreateSession("console", capture, tasks), lock = "free", ~quit,
             UNCHANGED <<wake, quit, stop>>, starter.by # "wake"
      PROVE  VoiceInv'
  <2>1. session.at = "none" /\ wake # "capturing" /\ wake # "starting" /\ ~Stopping
    BY <1>1 DEF VoiceInv, Lent, Started, Ending
  <2>2. /\ mic' = "voice" /\ lock' = "start" /\ starter' = [by |-> "console", at |-> "session"]
        /\ capture' \in [Captures -> ThreadStates] /\ tasks' \subseteq Captures
        /\ capture'["wake"] = capture["wake"]
        /\ session' \in [at : SessionPlaces, turn : Nat, cancel : {"no", "asked", "taken"}]
        /\ session'.at \in {"cue", "listening"} /\ session'.cancel = "no"
        /\ capture'["session"].stage # "none" => session'.at = "listening" \/ quit
        /\ speaker' \in {"free", "cue", "earcon"}
    BY <1>0, <1>1, <2>1, CreateSessionMakes DEF VoiceInv, Owned
  <2>3. VoiceTypeOK'
    BY <1>0, <1>1, <2>2 DEF VoiceTypeOK
  <2>4. Lent' /\ Started' /\ Ending' /\ Speaks' /\ Quietly'
    BY <1>1, <2>1, <2>2 DEF VoiceInv, Lent, Started, Ending, Stopping, Speaks, Quietly
  <2>5. Owned'
    BY <1>1, <2>1, <2>2 DEF VoiceInv, Owned
  <2>. QED BY <2>3, <2>4, <2>5 DEF VoiceInv
<1>2. ASSUME UNCHANGED <<tasks, wake, lock, mic, speaker, session, quit, stop>>,
             capture' \in [Captures -> ThreadStates],
             \A c \in Captures : capture'[c].stage = "none" <=> capture[c].stage = "none",
             starter.at # "session", wake # "starting",
             \/ starter' = NoStart
             \/ /\ starter' \in {[by |-> "console", at |-> "stopping"], [by |-> "console", at |-> "locking"]}
                /\ ~Stopping
      PROVE  VoiceInv'
  <2>1. VoiceTypeOK'
    BY <1>0, <1>2 DEF VoiceTypeOK, NoStart
  <2>2. Lent' /\ Speaks' /\ Quietly'
    BY <1>2 DEF VoiceInv, Lent, Speaks, Quietly
  <2>3. Started' /\ Ending'
    BY <1>2 DEF VoiceInv, Started, Ending, Stopping, NoStart, NoSession
  <2>4. Owned'
    BY <1>2 DEF VoiceInv, Owned, Captures
  <2>. QED BY <2>1, <2>2, <2>3, <2>4 DEF VoiceInv
<1>3. CASE StartVoice
  <2>1. ~quit /\ starter.by = "nobody" /\ UNCHANGED <<wake, quit, stop>>
    BY <1>3 DEF StartVoice, Pending
  <2>2. ~Stopping /\ starter.at # "session" /\ wake # "starting"
    BY <2>1 DEF VoiceInv, Ending, Started
  <2>3. CASE "wake" \in Unjoined
    <3>1. /\ capture' = Told(capture) /\ UNCHANGED <<tasks, lock, mic, speaker, session>>
          /\ starter' \in {[by |-> "console", at |-> "stopping"], [by |-> "console", at |-> "locking"]}
      BY <1>3, <2>3 DEF StartVoice
    <3>. QED BY <1>0, <1>2, <2>1, <2>2, <3>1, TellingKeepsThreads
  <2>4. CASE "wake" \notin Unjoined /\ lock = "free"
    BY <1>1, <1>3, <2>1, <2>4 DEF StartVoice
  <2>5. CASE "wake" \notin Unjoined /\ lock # "free"
    <3>1. /\ UNCHANGED <<capture, tasks, lock, mic, speaker, session>>
          /\ starter' = [by |-> "console", at |-> "locking"]
      BY <1>3, <2>5 DEF StartVoice
    <3>. QED BY <1>0, <1>2, <2>1, <2>2, <3>1
  <2>. QED BY <2>3, <2>4, <2>5
<1>4. CASE StartStops
  <2>1. /\ starter.at = "stopping" /\ UNCHANGED <<tasks, wake, lock, mic, speaker, session, quit, stop>>
    BY <1>4 DEF StartStops
  <2>2. starter.by = "console" /\ ~Stopping /\ wake # "starting"
    BY <1>0, <2>1 DEF VoiceInv, Ending, Started, VoiceTypeOK
  <2>3. \/ starter' = [by |-> "console", at |-> "locking"]
        \/ starter' = NoStart
    BY <1>0, <1>4, <2>2 DEF StartStops, VoiceTypeOK
  <2>4. \E ok \in BOOLEAN, h \in Heard : capture' = VendorStop(ok, h)
    BY <1>4 DEF StartStops, Heard
  <2>. QED BY <1>0, <1>2, <2>1, <2>2, <2>3, <2>4, VendorStopKeepsThreads
<1>5. CASE StartLocks
  <2>1. starter.at = "locking" /\ lock = "free" /\ ~quit /\ UNCHANGED <<wake, quit, stop>>
    BY <1>5 DEF StartLocks
  <2>2. starter.by # "wake"
    BY <2>1 DEF VoiceInv, Started
  <2>. QED BY <1>1, <1>5, <2>1, <2>2 DEF StartLocks
<1>6. CASE StartCancelled
  <2>1. /\ starter.at = "locking" /\ starter' = NoStart
        /\ UNCHANGED <<capture, tasks, wake, lock, mic, speaker, session, quit, stop>>
    BY <1>6 DEF StartCancelled, threads
  <2>2. wake # "starting"
    BY <2>1 DEF VoiceInv, Started
  <2>. QED BY <1>0, <1>2, <2>1, <2>2
<1>. QED BY <1>3, <1>4, <1>5, <1>6

\* The session is over: its start() gives the microphone back.
LEMMA ReturnStep ==
  ASSUME VoiceInv, StartReturns
  PROVE  VoiceInv'
<1>1. /\ session.at = "over" /\ session' = NoSession /\ starter' = NoStart /\ mic' = "free"
      /\ lock' = "free" /\ UNCHANGED <<capture, tasks, speaker, quit, stop>>
      /\ wake' = IF starter.by # "wake" THEN wake
                 ELSE IF Stopping \/ session.cancel = "taken" THEN "ended" ELSE "waiting"
  BY DEF StartReturns, threads
<1>2. lock = "start" /\ wake # "capturing"
  BY <1>1 DEF VoiceInv, Lent
<1>3. wake' \notin {"capturing", "starting"} /\ wake' \in WakePlaces
      /\ (wake \in {"ended", "failed"} => wake' = wake)
  BY <1>1, <1>2 DEF VoiceInv, Started, VoiceTypeOK, WakePlaces
<1>4. VoiceTypeOK'
  BY <1>1, <1>3 DEF VoiceInv, VoiceTypeOK, NoSession, NoStart, SessionPlaces
<1>5. Lent' /\ Started' /\ Ending'
  BY <1>1, <1>3 DEF VoiceInv, Lent, Started, Ending, Stopping, NoSession, NoStart
<1>6. Owned' /\ Speaks' /\ Quietly'
  BY <1>1, <1>2, <1>3 DEF VoiceInv, Owned, Speaks, Quietly
<1>. QED BY <1>4, <1>5, <1>6 DEF VoiceInv

\* The listener takes its turn at the microphone.
LEMMA WakeTurnStep ==
  ASSUME VoiceInv, WakeTurn
  PROVE  VoiceInv'
<1>1. wake \in {"waiting", "queued"} /\ UNCHANGED <<speaker, starter, session, quit, stop>>
  BY DEF WakeTurn
<1>2. CASE wake' \in {"ended", "queued", "waiting"} /\ UNCHANGED <<capture, tasks, lock, mic>>
  <2>1. VoiceTypeOK'
    BY <1>1, <1>2 DEF VoiceInv, VoiceTypeOK, WakePlaces
  <2>2. Lent' /\ Started' /\ Ending'
    BY <1>1, <1>2 DEF VoiceInv, Lent, Started, Ending, Stopping, NoSession
  <2>3. Owned' /\ Speaks' /\ Quietly'
    BY <1>1, <1>2 DEF VoiceInv, Owned, Speaks, Quietly
  <2>. QED BY <2>1, <2>2, <2>3 DEF VoiceInv
<1>3. CASE ~(wake' \in {"ended", "queued", "waiting"} /\ UNCHANGED <<capture, tasks, lock, mic>>)
  <2>1. /\ lock = "free" /\ mic' = "wake" /\ wake' = "capturing" /\ lock' = "wake"
        /\ capture' = [capture EXCEPT !["wake"] = Begun] /\ tasks' = tasks \cup {"wake"}
    BY <1>3 DEF WakeTurn
  <2>2. Begun \in ThreadStates
    BY DEF Begun, Silent, ThreadStates, Stages
  <2>3. VoiceTypeOK'
    BY <1>1, <2>1, <2>2 DEF VoiceInv, VoiceTypeOK, WakePlaces, Captures
  <2>4. Lent' /\ Started' /\ Ending'
    BY <1>1, <2>1 DEF VoiceInv, Lent, Started, Ending, Stopping, NoSession
  <2>5. capture'["session"] = capture["session"]
    BY <2>1 DEF VoiceInv, VoiceTypeOK, Captures
  <2>6. Owned' /\ Speaks' /\ Quietly'
    BY <1>1, <2>1, <2>5 DEF VoiceInv, Owned, Speaks, Quietly
  <2>. QED BY <2>3, <2>4, <2>6 DEF VoiceInv
<1>. QED BY <1>2, <1>3

\* The listener's capture is over and joined; the wake word starts a session in its place.
LEMMA WakeCapturedStep ==
  ASSUME VoiceInv, WakeCaptured
  PROVE  VoiceInv'
<1>1. wake = "capturing" /\ UNCHANGED <<quit, stop>>
  BY DEF WakeCaptured
<1>2. session.at = "none" /\ lock = "wake" /\ (stop.at = "over" => stop.late)
  BY <1>1 DEF VoiceInv, Lent, Quietly
<1>3. /\ Joined("wake") \in [Captures -> ThreadStates] /\ Joined("wake")["wake"].stage = "none"
      /\ Joined("wake")["session"] = capture["session"] /\ tasks \ {"wake"} \in SUBSET Captures
  <2>1. Silent \in ThreadStates /\ Silent.stage = "none"
    BY DEF Silent, ThreadStates, Stages
  <2>. QED BY <2>1 DEF Joined, VoiceInv, VoiceTypeOK, Captures
<1>4. capture["session"].stage # "none" => quit
  BY <1>2 DEF VoiceInv, Owned
<1>5. CASE capture["wake"].heard = "word" /\ ~Pending
  <2>1. CreateSession("wake", Joined("wake"), tasks \ {"wake"}) /\ wake' = "starting"
    BY <1>5 DEF WakeCaptured
  <2>2. /\ mic' = "voice" /\ lock' = "start" /\ starter' = [by |-> "wake", at |-> "session"]
        /\ capture' \in [Captures -> ThreadStates] /\ tasks' \subseteq Captures
        /\ capture'["wake"] = Joined("wake")["wake"]
        /\ session' \in [at : SessionPlaces, turn : Nat, cancel : {"no", "asked", "taken"}]
        /\ session'.at \in {"cue", "listening"} /\ session'.cancel = "no"
        /\ capture'["session"].stage # "none" => session'.at = "listening" \/ quit
        /\ speaker' \in {"free", "cue", "earcon"}
    BY <1>2, <1>3, <1>4, <2>1, CreateSessionMakes
  <2>3. VoiceTypeOK'
    BY <1>1, <2>1, <2>2 DEF VoiceInv, VoiceTypeOK, WakePlaces
  <2>4. Lent' /\ Started' /\ Ending'
    BY <1>1, <2>1, <2>2 DEF VoiceInv, Lent, Started, Ending, Stopping
  <2>5. Owned' /\ Speaks' /\ Quietly'
    BY <1>1, <1>2, <1>3, <2>2 DEF VoiceInv, Owned, Speaks, Quietly
  <2>. QED BY <2>3, <2>4, <2>5 DEF VoiceInv
<1>6. CASE ~(capture["wake"].heard = "word" /\ ~Pending)
  <2>1. /\ wake' \in {"failed", "ended", "waiting"} /\ mic' = "free" /\ lock' = "free"
        /\ capture' = Joined("wake") /\ tasks' = tasks \ {"wake"}
        /\ UNCHANGED <<starter, speaker, session>>
    BY <1>6 DEF WakeCaptured
  <2>2. VoiceTypeOK'
    BY <1>1, <1>3, <2>1 DEF VoiceInv, VoiceTypeOK, WakePlaces
  <2>3. Lent' /\ Started' /\ Ending'
    BY <1>1, <1>2, <2>1 DEF VoiceInv, Lent, Started, Ending, Stopping, NoSession
  <2>4. Owned' /\ Speaks' /\ Quietly'
    BY <1>1, <1>2, <1>3, <1>4, <2>1 DEF VoiceInv, Owned, Speaks, Quietly
  <2>. QED BY <2>2, <2>3, <2>4 DEF VoiceInv
<1>. QED BY <1>5, <1>6

\* A session listens: its capture ends, is stopped and joined, or is left behind by a
\* cancellation.
LEMMA ListeningSteps ==
  ASSUME VoiceInv, CueEnds \/ ListenInterrupted \/ ListenStops \/ ListenJoined \/ ListenEnds
  PROVE  VoiceInv'
<1>0. /\ VoiceTypeOK /\ capture \in [Captures -> ThreadStates] /\ tasks \subseteq Captures
      /\ (session.cancel # "no" => quit) /\ speaker \in {"free", "cue", "voice", "earcon"}
      /\ session \in [at : SessionPlaces, turn : Nat, cancel : {"no", "asked", "taken"}]
  BY DEF VoiceInv, VoiceTypeOK, Ending
<1>1. /\ session.at \in {"cue", "listening", "stopping", "joining"}
      /\ UNCHANGED <<wake, lock, mic, starter, quit, stop>>
  BY DEF CueEnds, ListenInterrupted, ListenStops, ListenJoined, ListenEnds
<1>2. speaker # "voice" /\ session.at # "none"
  BY <1>1 DEF VoiceInv, Speaks
<1>3. "wake" \in Captures /\ "session" \in Captures
  BY DEF Captures
<1>4. /\ Taken(session) \in [at : SessionPlaces, turn : Nat, cancel : {"no", "asked", "taken"}]
      /\ Taken(session).cancel # "no" => quit
  BY <1>0 DEF Taken
<1>5. /\ Joined("session") \in [Captures -> ThreadStates] /\ Joined("session")["session"].stage = "none"
      /\ Joined("session")["wake"] = capture["wake"]
  <2>1. Silent \in ThreadStates /\ Silent.stage = "none"
    BY DEF Silent, ThreadStates, Stages
  <2>. QED BY <1>0, <2>1 DEF Joined, Captures
<1>6. CASE CueEnds
  <2>1. session.at = "cue" /\ speaker' = "free"
    BY <1>6 DEF CueEnds
  <2>2. capture["session"].stage # "none" => quit
    BY <2>1 DEF VoiceInv, Owned
  <2>3. CASE Asked
    <3>1. session' = [Taken(session) EXCEPT !.at = "over"] /\ UNCHANGED <<capture, tasks>>
      BY <1>6, <2>3 DEF CueEnds
    <3>2. /\ session' \in [at : SessionPlaces, turn : Nat, cancel : {"no", "asked", "taken"}]
          /\ session'.at = "over" /\ (session'.cancel # "no" => quit)
      BY <1>4, <3>1 DEF SessionPlaces
    <3>. QED BY <1>0, <1>1, <1>2, <2>1, <2>2, <3>1, <3>2, SessionMoves
  <2>4. CASE ~Asked
    <3>1. Listen(1, capture, tasks)
      BY <1>6, <2>4 DEF CueEnds
    <3>. QED BY <1>0, <1>1, <1>2, <2>1, <3>1, ListenMakes, SessionMoves
  <2>. QED BY <2>3, <2>4
<1>7. CASE ListenInterrupted
  <2>1. /\ capture' = Told(capture) /\ UNCHANGED <<tasks, speaker>>
        /\ session' = [Taken(session) EXCEPT !.at = IF loaded THEN "stopping" ELSE "joining"]
    BY <1>7 DEF ListenInterrupted
  <2>2. /\ session' \in [at : SessionPlaces, turn : Nat, cancel : {"no", "asked", "taken"}]
        /\ session'.at \in {"stopping", "joining"} /\ (session'.cancel # "no" => quit)
    BY <1>4, <2>1 DEF SessionPlaces
  <2>. QED BY <1>0, <1>1, <1>2, <1>3, <2>1, <2>2, TellingKeepsThreads, SessionMoves
<1>8. CASE ListenStops
  <2>1. PICK ok \in BOOLEAN, h \in {"other", "nothing"} :
          LET cs == VendorStop(ok, h)
          IN  IF Asked THEN /\ CleanUp(session, cs)
                            /\ tasks' = tasks \ {"session"}
              ELSE /\ capture' = cs
                   /\ session' = [session EXCEPT !.at = "joining"]
                   /\ UNCHANGED tasks
    BY <1>8 DEF ListenStops
  <2>. DEFINE cs == VendorStop(ok, h)
  <2>2. /\ cs \in [Captures -> ThreadStates]
        /\ \A c \in Captures : cs[c].stage = "none" <=> capture[c].stage = "none"
    BY <1>0, VendorStopKeepsThreads DEF Heard
  <2>3. UNCHANGED speaker
    BY <1>8 DEF ListenStops
  <2>4. CASE Asked
    <3>1. CleanUp(session, cs) /\ tasks' = tasks \ {"session"} /\ quit
      BY <1>0, <2>1, <2>4 DEF Asked
    <3>. HIDE DEF cs
    <3>2. /\ capture' \in [Captures -> ThreadStates]
          /\ \A c \in Captures : capture'[c].stage = "none" <=> cs[c].stage = "none"
          /\ session' \in [at : SessionPlaces, turn : Nat, cancel : {"no", "asked", "taken"}]
          /\ session'.at \in {"halting", "closing"} /\ (session'.cancel # "no" => quit)
      BY <1>0, <2>2, <3>1, CleanUpMakes
    <3>. QED BY <1>0, <1>1, <1>2, <1>3, <2>2, <2>3, <3>1, <3>2, SessionMoves
  <2>5. CASE ~Asked
    <3>1. capture' = cs /\ session' = [session EXCEPT !.at = "joining"] /\ UNCHANGED tasks
      BY <2>1, <2>5
    <3>. HIDE DEF cs
    <3>2. /\ session' \in [at : SessionPlaces, turn : Nat, cancel : {"no", "asked", "taken"}]
          /\ session'.at = "joining" /\ session'.cancel = session.cancel
      BY <1>0, <3>1 DEF SessionPlaces
    <3>. QED BY <1>0, <1>1, <1>2, <1>3, <2>2, <2>3, <3>1, <3>2, SessionMoves
  <2>. QED BY <2>4, <2>5
<1>9. CASE ListenJoined \/ (ListenEnds /\ CleanUp(session, Joined("session")))
  <2>1. CleanUp(session, Joined("session")) /\ tasks' = tasks \ {"session"} /\ UNCHANGED speaker
    BY <1>9 DEF ListenJoined, ListenEnds
  <2>2. /\ capture' \in [Captures -> ThreadStates]
        /\ \A c \in Captures : capture'[c].stage = "none" <=> Joined("session")[c].stage = "none"
        /\ session' \in [at : SessionPlaces, turn : Nat, cancel : {"no", "asked", "taken"}]
        /\ session'.at \in {"halting", "closing"} /\ (session'.cancel # "no" => quit)
    BY <1>0, <1>5, <2>1, CleanUpMakes
  <2>. QED BY <1>0, <1>1, <1>2, <1>3, <1>5, <2>1, <2>2, SessionMoves
<1>10. CASE ListenEnds /\ ~CleanUp(session, Joined("session"))
  <2>1. /\ capture' = Joined("session") /\ tasks' = tasks \ {"session"} /\ UNCHANGED speaker
        /\ session' = [session EXCEPT !.at = "thinking"]
    BY <1>10 DEF ListenEnds
  <2>2. /\ session' \in [at : SessionPlaces, turn : Nat, cancel : {"no", "asked", "taken"}]
        /\ session'.at = "thinking" /\ session'.cancel = session.cancel
    BY <1>0, <2>1 DEF SessionPlaces
  <2>. QED BY <1>0, <1>1, <1>2, <1>5, <2>1, <2>2, SessionMoves
<1>. QED BY <1>6, <1>7, <1>8, <1>9, <1>10

\* A session thinks, speaks and ends.
LEMMA SpeakingSteps ==
  ASSUME VoiceInv, Answered \/ Synthesised \/ Spoken \/ Halted \/ Closing \/ Closed
  PROVE  VoiceInv'
<1>0. /\ VoiceTypeOK /\ capture \in [Captures -> ThreadStates] /\ tasks \subseteq Captures
      /\ (session.cancel # "no" => quit) /\ speaker \in {"free", "cue", "voice", "earcon"}
      /\ session \in [at : SessionPlaces, turn : Nat, cancel : {"no", "asked", "taken"}]
  BY DEF VoiceInv, VoiceTypeOK, Ending
<1>1. /\ session.at \in {"thinking", "synthesising", "playing", "halting", "closing", "disabling"}
      /\ UNCHANGED <<wake, lock, mic, starter, quit, stop>>
  BY DEF Answered, Synthesised, Spoken, Halted, Closing, Closed, threads
<1>2. capture["session"].stage # "none" => quit
  BY <1>1 DEF VoiceInv, Owned
<1>3. "wake" \in Captures /\ "session" \in Captures
  BY DEF Captures
<1>4. /\ Taken(session) \in [at : SessionPlaces, turn : Nat, cancel : {"no", "asked", "taken"}]
      /\ Taken(session).cancel # "no" => quit
  BY <1>0 DEF Taken
<1>5. ASSUME NEW p \in SessionPlaces \ {"none"}, UNCHANGED <<capture, tasks>>,
             session' = [session EXCEPT !.at = p] \/ session' = [Taken(session) EXCEPT !.at = p],
             speaker' = speaker \/ speaker' \in {"free", "voice"},
             speaker' = "voice" => p \in {"synthesising", "playing", "disabling"}
      PROVE  VoiceInv'
  <2>1. /\ session' \in [at : SessionPlaces, turn : Nat, cancel : {"no", "asked", "taken"}]
        /\ session'.at = p /\ (session'.cancel # "no" => quit)
    BY <1>0, <1>4, <1>5
  <2>. QED BY <1>0, <1>1, <1>2, <1>5, <2>1, SessionMoves
<1>6. ASSUME CleanUp(session, capture), UNCHANGED tasks, speaker' # "voice",
             speaker' = speaker \/ speaker' = "free"
      PROVE  VoiceInv'
  <2>1. /\ capture' \in [Captures -> ThreadStates]
        /\ \A c \in Captures : capture'[c].stage = "none" <=> capture[c].stage = "none"
        /\ session' \in [at : SessionPlaces, turn : Nat, cancel : {"no", "asked", "taken"}]
        /\ session'.at \in {"halting", "closing"} /\ (session'.cancel # "no" => quit)
    BY <1>0, <1>6, CleanUpMakes
  <2>. QED BY <1>0, <1>1, <1>2, <1>3, <1>6, <2>1, SessionMoves
<1>7. CASE Answered
  <2>1. session.at = "thinking" /\ UNCHANGED tasks
    BY <1>7 DEF Answered
  <2>2. speaker # "voice"
    BY <2>1 DEF VoiceInv, Speaks
  <2>3. \/ /\ speaker' = "voice" /\ session' = [session EXCEPT !.at = "synthesising"]
           /\ UNCHANGED capture
        \/ CleanUp(session, capture) /\ UNCHANGED speaker
    BY <1>7 DEF Answered
  <2>. QED BY <1>5, <1>6, <2>1, <2>2, <2>3 DEF SessionPlaces
<1>8. CASE Synthesised
  <2>1. \/ session' = [session EXCEPT !.at = "playing"] /\ UNCHANGED <<capture, speaker>>
        \/ CleanUp(session, capture) /\ speaker' = "free"
    BY <1>8 DEF Synthesised
  <2>2. UNCHANGED tasks
    BY <1>8 DEF Synthesised
  <2>. QED BY <1>5, <1>6, <2>1, <2>2 DEF SessionPlaces
<1>9. CASE Spoken
  <2>1. speaker' = "free"
    BY <1>9 DEF Spoken
  <2>2. CASE CleanUp(session, capture) /\ UNCHANGED tasks
    BY <1>6, <2>1, <2>2
  <2>3. CASE Listen(session.turn + 1, capture, tasks)
    <3>1. session.turn + 1 \in Nat
      BY <1>0
    <3>. QED BY <1>0, <1>1, <2>1, <2>3, <3>1, ListenMakes, SessionMoves
  <2>. QED BY <1>9, <2>2, <2>3 DEF Spoken
<1>10. CASE Halted
  <2>1. /\ session.at = "halting" /\ UNCHANGED <<tasks, speaker>>
        /\ \E ok \in BOOLEAN : capture' = VendorStop(ok, "nothing")
        /\ session' = [Taken(session) EXCEPT !.at = IF Asked THEN "over" ELSE "closing"]
    BY <1>10 DEF Halted
  <2>2. /\ capture' \in [Captures -> ThreadStates]
        /\ \A c \in Captures : capture'[c].stage = "none" <=> capture[c].stage = "none"
    BY <1>0, <2>1, VendorStopKeepsThreads DEF Heard
  <2>3. speaker # "voice"
    BY <2>1 DEF VoiceInv, Speaks
  <2>4. /\ session' \in [at : SessionPlaces, turn : Nat, cancel : {"no", "asked", "taken"}]
        /\ session'.at \in {"over", "closing"} /\ (session'.cancel # "no" => quit)
    BY <1>4, <2>1 DEF SessionPlaces
  <2>. QED BY <1>0, <1>1, <1>2, <1>3, <2>1, <2>2, <2>3, <2>4, SessionMoves
<1>11. CASE Closing
  <2>1. session.at = "closing" /\ UNCHANGED <<capture, tasks>>
    BY <1>11 DEF Closing, threads
  <2>2. speaker # "voice"
    BY <2>1 DEF VoiceInv, Speaks
  <2>3. \/ speaker' = "voice" /\ session' = [session EXCEPT !.at = "disabling"]
        \/ UNCHANGED speaker /\ session' = [session EXCEPT !.at = "over"]
    BY <1>11 DEF Closing
  <2>. QED BY <1>5, <2>1, <2>2, <2>3 DEF SessionPlaces
<1>12. CASE Closed
  BY <1>5, <1>12 DEF Closed, threads, SessionPlaces
<1>. QED BY <1>7, <1>8, <1>9, <1>10, <1>11, <1>12

\* The process is told to end, and stop() goes from stage to stage.
LEMMA EndingSteps ==
  ASSUME VoiceInv, Quit \/ StopStep
  PROVE  VoiceInv'
<1>0. /\ VoiceTypeOK /\ capture \in [Captures -> ThreadStates] /\ tasks \subseteq Captures
      /\ session \in [at : SessionPlaces, turn : Nat, cancel : {"no", "asked", "taken"}]
  BY DEF VoiceInv, VoiceTypeOK
<1>1. UNCHANGED <<tasks, wake, lock, mic, speaker, starter>> /\ quit'
  BY DEF Quit, StopStep, StopBegins, StopAsked, StopRetries, StopJoins, StopCancelled, StopReturns,
         threads, VoiceInv, Ending, Stopping
<1>2. \/ capture' = capture \/ capture' = Told(capture)
      \/ \E ok \in BOOLEAN, h \in Heard : capture' = VendorStop(ok, h)
  BY DEF Quit, StopStep, StopBegins, StopAsked, StopRetries, StopJoins, StopCancelled, StopReturns,
         threads, Heard
<1>3. /\ capture' \in [Captures -> ThreadStates]
      /\ \A c \in Captures : capture'[c].stage = "none" <=> capture[c].stage = "none"
  BY <1>0, <1>2, TellingKeepsThreads, VendorStopKeepsThreads
<1>4. session' = session \/ (Cancel /\ session' # session)
  BY DEF Quit, StopStep, StopBegins, StopAsked, StopRetries, StopJoins, StopCancelled, StopReturns, Go
<1>5. /\ session' \in [at : SessionPlaces, turn : Nat, cancel : {"no", "asked", "taken"}]
      /\ session'.at = session.at /\ (session.at = "none" => session' = session)
  BY <1>0, <1>4 DEF Cancel, SessionLive
<1>6. \/ stop' = stop
      \/ \E p \in StopPlaces \ {"none"}, f \in BOOLEAN, l \in BOOLEAN :
           /\ stop' = [at |-> p, failed |-> f, late |-> l]
           /\ starter.by # "console" /\ quit
           /\ p = "over" /\ ~l => wake \in {"ended", "failed"}
  <2>0. stop.at # "none" => starter.by # "console" /\ quit
    BY DEF VoiceInv, Ending, Stopping
  <2>00. stop.failed \in BOOLEAN /\ stop.late \in BOOLEAN
    BY <1>0 DEF VoiceTypeOK
  <2>1. CASE Quit
    BY <2>1 DEF Quit
  <2>2. CASE StopBegins
    <3>1. \E p \in StopPlaces \ {"none", "over"} : stop' = [at |-> p, failed |-> FALSE, late |-> FALSE]
      BY <2>2 DEF StopBegins, Go, FromAsking, FromWake, StopPlaces
    <3>. QED BY <2>2, <3>1 DEF StopBegins
  <2>3. CASE StopAsked
    <3>1. \E p \in StopPlaces \ {"none", "over"}, f \in BOOLEAN :
            stop' = [at |-> p, failed |-> f, late |-> FALSE]
      BY <2>3, <2>00 DEF StopAsked, Go, FromAsking, FromWake, StopPlaces
    <3>. QED BY <2>0, <2>3, <3>1 DEF StopAsked
  <2>4. CASE StopRetries
    <3>1. \/ stop' = stop
          \/ \E p \in StopPlaces \ {"none", "over"}, f \in BOOLEAN :
               stop' = [at |-> p, failed |-> f, late |-> FALSE]
      BY <2>00, <2>4 DEF StopRetries, Go, StopPlaces
    <3>. QED BY <2>0, <2>4, <3>1 DEF StopRetries
  <2>5. CASE StopJoins
    <3>1. \/ \E p \in StopPlaces \ {"none", "over"} :
               stop' = [at |-> p, failed |-> stop.failed, late |-> FALSE]
          \/ \E p \in StopPlaces \ {"none"} : stop' = [at |-> p, failed |-> TRUE, late |-> TRUE]
      BY <2>5 DEF StopJoins, Go, FromWake, StopPlaces
    <3>. QED BY <2>0, <2>00, <2>5, <3>1 DEF StopJoins
  <2>6. CASE StopCancelled
    <3>1. \E p \in StopPlaces \ {"none"} :
            /\ stop' = [at |-> p, failed |-> stop.failed, late |-> stop.late]
            /\ p = "over" => stop.late
      BY <2>6 DEF StopCancelled, Go, StopPlaces
    <3>. QED BY <2>0, <2>00, <2>6, <3>1 DEF StopCancelled
  <2>7. CASE StopReturns
    BY <2>0, <2>00, <2>7 DEF StopReturns, Go, StopPlaces
  <2>. QED BY <2>1, <2>2, <2>3, <2>4, <2>5, <2>6, <2>7 DEF StopStep
<1>7. VoiceTypeOK'
  BY <1>0, <1>1, <1>3, <1>5, <1>6 DEF VoiceTypeOK
<1>8. Lent' /\ Started' /\ Owned' /\ Speaks'
  BY <1>1, <1>3, <1>5 DEF VoiceInv, Lent, Started, Owned, Speaks, Captures
<1>9. Ending' /\ Quietly'
  BY <1>1, <1>6 DEF VoiceInv, Ending, Stopping, Quietly
<1>. QED BY <1>7, <1>8, <1>9 DEF VoiceInv

-----------------------------------------------------------------------------
\* It holds of the initial states.
LEMMA VoiceInitially == VoiceInit => VoiceInv
<1>. SUFFICES ASSUME VoiceInit PROVE VoiceInv
  OBVIOUS
<1>1. VoiceTypeOK
  BY DEF VoiceInit, VoiceTypeOK, ThreadStates, Stages, Silent, WakePlaces, NoStart, NoSession,
         SessionPlaces, StopPlaces
<1>2. Lent /\ Started /\ Ending /\ Owned /\ Speaks /\ Quietly
  BY DEF VoiceInit, Lent, Started, Ending, Stopping, Owned, Speaks, Quietly, Silent, NoStart, NoSession,
         Captures
<1>. QED BY <1>1, <1>2 DEF VoiceInv

\* Every step of voice keeps the invariant.
THEOREM VoiceInductive == VoiceSpec => []VoiceInv
<1>1. VoiceInv /\ [VoiceNext]_voiceVars => VoiceInv'
  <2>. SUFFICES ASSUME VoiceInv, [VoiceNext]_voiceVars PROVE VoiceInv'
    OBVIOUS
  <2>1. CASE EarconBegins \/ EarconEnds
    <3>1. /\ UNCHANGED <<capture, tasks, wake, lock, mic, starter, session, quit, stop>>
          /\ speaker' \in {"free", "earcon"}
      BY <2>1 DEF EarconBegins, EarconEnds, threads
    <3>. QED BY <3>1, ThreadsKeep DEF VoiceInv, VoiceTypeOK
  <2>2. CASE UNCHANGED voiceVars
    <3>1. UNCHANGED <<capture, tasks, wake, lock, mic, speaker, starter, session, quit, stop>>
      BY <2>2 DEF voiceVars, threads
    <3>. QED BY <3>1, ThreadsKeep DEF VoiceInv, VoiceTypeOK
  <2>. QED
    BY <2>1, <2>2, ThreadSteps, StartSteps, ReturnStep, WakeTurnStep, WakeCapturedStep, ListeningSteps,
       SpeakingSteps, EndingSteps DEF VoiceNext, StartStep, SessionStep
<1>. QED BY VoiceInitially, <1>1, PTL DEF VoiceSpec

\* Whatever is heard, missed, cancelled or left behind, and however many turns a session has,
\* a recogniser thread runs only under the microphone lease of its owner, but for one that
\* the end of the process has left behind.
THEOREM MicrophoneAlwaysOwned == VoiceSpec => []MicrophoneOwned
<1>1. VoiceInv => MicrophoneOwned
  BY DEF VoiceInv, Owned, Lent, MicrophoneOwned, Running, Listening
<1>. QED BY <1>1, VoiceInductive, PTL

\* When stop() has returned without giving the wake capture up, nobody listens or speaks for
\* voice and both leases are back.
THEOREM StopAlwaysQuiet == VoiceSpec => []StoppedQuiet
<1>1. VoiceInv => StoppedQuiet
  <2>. SUFFICES ASSUME VoiceInv, stop.at = "over", ~stop.late PROVE StoppedQuiet
    BY DEF StoppedQuiet
  <2>1. wake \in {"ended", "failed"}
    BY DEF VoiceInv, Quietly
  <2>2. starter.by = "nobody"
    BY <2>1 DEF VoiceInv, VoiceTypeOK, Started, Ending, Stopping
  <2>3. session = NoSession
    BY <2>2 DEF VoiceInv, Started
  <2>4. mic = "free" /\ speaker # "voice"
    BY <2>1, <2>3 DEF VoiceInv, VoiceTypeOK, Lent, Speaks, NoSession
  <2>. QED BY <2>1, <2>2, <2>3, <2>4 DEF StoppedQuiet, Pending
<1>. QED BY <1>1, VoiceInductive, PTL

-----------------------------------------------------------------------------
\* The process.  Each way down names every component that may live when it is entered, and
\* names no component before one that uses it; so what lives on the way down is still
\* ahead, its stop has failed, or the code forgets it.

Phases == {"compose", "undo", "boot", "unwind", "open", "serve", "stop", "done"}
Up == {"compose", "boot", "open", "serve"}
Down == {"undo", "unwind", "stop"}

Steps(phase) == {Program[phase][i] : i \in 1..Len(Program[phase])}
Ahead(p) == {Program[p.phase][i] : i \in p.step..Len(Program[p.phase])}
Behind(p) == {Program[p.phase][i] : i \in 1..(p.step - 1)}

\* The place in the program, and the components.
ProcessTypeOK ==
  /\ at \in [phase : Phases, step : Nat]
  /\ at.step \in 1..Len(Program[at.phase])
  /\ alive \subseteq Components /\ gone \subseteq Components /\ broken \subseteq Components

\* While start() can still undo its steps, only what they name has begun.
Named ==
  /\ at.phase = "compose" => alive \subseteq Steps("compose") \cup LeftBehind
  /\ at.phase = "boot" => alive \subseteq Steps("compose") \cup Steps("boot") \cup LeftBehind

\* What start() that undoes its steps forgets, it forgets for the step that failed.
ForgetsForAFailure == at.phase = "unwind" => {"history", "media", "camera"} \subseteq LeftBehind

\* On the way down what lives is ahead, broken or forgotten, and at the end not ahead.
Accounted ==
  /\ at.phase \in Down => alive \subseteq Ahead(at) \cup broken \cup LeftBehind
  /\ at.phase = "done" => alive \subseteq broken \cup LeftBehind

\* Only what has been passed has been taken down.
TakenInTurn ==
  /\ at.phase \in Up => gone = {}
  /\ at.phase \in Down => gone \subseteq Behind(at)

ProcessInv == ProcessTypeOK /\ Named /\ ForgetsForAFailure /\ Accounted /\ TakenInTurn

-----------------------------------------------------------------------------
\* Each way down is complete: undo takes down all that composition makes, unwind that and
\* all that the first half of start() does but what is forgotten, and stop everything.
LEMMA WaysDownAreComplete ==
  /\ Steps("compose") \cap Components \subseteq Steps("undo")
  /\ (Steps("compose") \cup Steps("boot")) \cap Components \subseteq
       Steps("unwind") \cup {"history", "media", "camera"}
  /\ Components \subseteq Steps("stop")
<1>1. Steps("compose") \cap Components \subseteq Steps("undo")
  BY DEF Steps, Program, Composed, Components, Activities
<1>2. Steps("compose") \cap Components \subseteq Steps("unwind") \cup {"history", "media", "camera"}
  BY DEF Steps, Program, Composed, Components, Activities
<1>3. Steps("boot") \cap Components \subseteq Steps("unwind") \cup {"history", "media", "camera"}
  BY DEF Steps, Program, Components, Activities
<1>4. Components \subseteq Steps("stop")
  BY DEF Steps, Program, Components, Activities
<1>. QED BY <1>1, <1>2, <1>3, <1>4

\* Each way down is in order: what a component uses is not taken down before it.
LEMMA WaysDownAreInOrder ==
  ASSUME NEW phase \in Down, NEW i \in 1..Len(Program[phase]), NEW j \in 1..Len(Program[phase]), i < j,
         Program[phase][j] \in Components
  PROVE  Program[phase][i] \notin Uses[Program[phase][j]]
<1>1. CASE phase = "undo"
  BY <1>1 DEF Program, Uses, Components, Activities
<1>2. CASE phase = "unwind"
  BY <1>2 DEF Program, Uses, Components, Activities
<1>3. CASE phase = "stop"
  BY <1>3 DEF Program, Uses, Components, Activities
<1>. QED BY <1>1, <1>2, <1>3 DEF Down

\* What the code forgets uses nothing.
LEMMA LeftBehindUsesNothing ==
  ASSUME NEW c \in LeftBehind
  PROVE  c \in Components /\ Uses[c] = {}
BY DEF LeftBehind, Uses, Components, Activities

\* Every function has a first step.
LEMMA ProgramsHaveSteps == \A phase \in Phases : Len(Program[phase]) \in Nat \ {0}
BY DEF Phases, Program, Composed

\* Where the work goes next: to the next step, or to the first one of the next function.
LEMMA AdvanceMoves ==
  ASSUME ProcessTypeOK, NEW next \in Phases, Advance(next)
  PROVE  /\ at' \in [phase : Phases, step : Nat] /\ at'.step \in 1..Len(Program[at'.phase])
         /\ \/ /\ at'.phase = at.phase
               /\ Ahead(at) \subseteq Ahead(at') \cup {Here} /\ Behind(at') = Behind(at) \cup {Here}
            \/ /\ at' = [phase |-> next, step |-> 1]
               /\ Ahead(at) = {Here}
<1>1. /\ at \in [phase : Phases, step : Nat] /\ at.step \in 1..Len(Program[at.phase])
      /\ Len(Program[at.phase]) \in Nat /\ Len(Program[next]) \in Nat \ {0}
  BY ProgramsHaveSteps DEF ProcessTypeOK
<1>2. CASE at.step < Len(Program[at.phase])
  <2>1. at' = [at EXCEPT !.step = at.step + 1]
    BY <1>2 DEF Advance
  <2>2. at'.phase = at.phase /\ at'.step = at.step + 1
    BY <1>1, <2>1
  <2>3. Ahead(at) \subseteq Ahead(at') \cup {Here}
    BY <1>1, <1>2, <2>2 DEF Ahead, Here
  <2>4. Behind(at') = Behind(at) \cup {Here}
    BY <1>1, <1>2, <2>2 DEF Behind, Here
  <2>. QED BY <1>1, <1>2, <2>1, <2>2, <2>3, <2>4
<1>3. CASE ~(at.step < Len(Program[at.phase]))
  <2>1. at' = [phase |-> next, step |-> 1] /\ at.step = Len(Program[at.phase])
    BY <1>1, <1>3 DEF Advance, Enter
  <2>2. Ahead(at) = {Here}
    BY <1>1, <2>1 DEF Ahead, Here
  <2>. QED BY <1>1, <2>1, <2>2
<1>. QED BY <1>2, <1>3

\* A function that is entered has all of its steps ahead.
LEMMA EnterMoves ==
  ASSUME NEW phase \in Phases, at' = [phase |-> phase, step |-> 1]
  PROVE  /\ at' \in [phase : Phases, step : Nat] /\ at'.step \in 1..Len(Program[at'.phase])
         /\ Ahead(at') = Steps(phase) /\ Behind(at') = {}
BY ProgramsHaveSteps DEF Ahead, Behind, Steps

-----------------------------------------------------------------------------
\* The way up: composition, whose failure undoes it, and start().
LEMMA ComposeKeeps ==
  ASSUME ProcessInv, Compose \/ ComposeFails
  PROVE  ProcessInv'
<1>1. /\ ProcessTypeOK /\ at.phase = "compose" /\ gone = {}
      /\ alive \subseteq Steps("compose") \cup LeftBehind
      /\ UNCHANGED <<failure, gone, broken>> /\ LeftBehind' = LeftBehind
  BY DEF ProcessInv, Compose, ComposeFails, Named, TakenInTurn, Up, LeftBehind
<1>2. CASE Compose
  <2>1. alive' \subseteq alive \cup ({Here} \cap Components) /\ Advance("boot")
    BY <1>2 DEF Compose, Optional, Components
  <2>2. Here \in Steps("compose")
    BY <1>1 DEF ProcessTypeOK, Here, Steps, Program, Composed
  <2>3. /\ at' \in [phase : Phases, step : Nat] /\ at'.step \in 1..Len(Program[at'.phase])
        /\ at'.phase \in {"compose", "boot"}
    BY <1>1, <2>1, AdvanceMoves DEF Phases
  <2>4. ProcessTypeOK'
    BY <1>1, <2>1, <2>2, <2>3 DEF ProcessTypeOK
  <2>5. Named' /\ ForgetsForAFailure' /\ Accounted' /\ TakenInTurn'
    BY <1>1, <2>1, <2>2, <2>3 DEF Named, ForgetsForAFailure, Accounted, TakenInTurn, Down
  <2>. QED BY <2>4, <2>5 DEF ProcessInv
<1>3. CASE ComposeFails
  <2>1. at' = [phase |-> "undo", step |-> 1] /\ UNCHANGED alive
    BY <1>3 DEF ComposeFails, Enter
  <2>2. /\ at' \in [phase : Phases, step : Nat] /\ at'.step \in 1..Len(Program[at'.phase])
        /\ at'.phase = "undo" /\ Ahead(at') = Steps("undo")
    BY <2>1, EnterMoves DEF Phases
  <2>3. ProcessTypeOK'
    BY <1>1, <2>1, <2>2 DEF ProcessTypeOK
  <2>4. Named' /\ ForgetsForAFailure' /\ Accounted' /\ TakenInTurn'
    <3>1. alive \subseteq Steps("undo") \cup LeftBehind
      BY <1>1, WaysDownAreComplete DEF ProcessTypeOK
    <3>. QED
      BY <1>1, <2>1, <2>2, <3>1 DEF Named, ForgetsForAFailure, Accounted, TakenInTurn, Up
  <2>. QED BY <2>3, <2>4 DEF ProcessInv
<1>. QED BY <1>2, <1>3

\* A step of start() that succeeds.
LEMMA StartPartKeeps ==
  ASSUME ProcessInv, StartPart
  PROVE  ProcessInv'
<1>1. /\ ProcessTypeOK /\ at.phase \in {"boot", "open"} /\ gone = {}
      /\ UNCHANGED <<failure, gone, broken>> /\ LeftBehind' = LeftBehind
      /\ alive' \subseteq alive \cup ({Here} \cap Components)
  BY DEF ProcessInv, StartPart, TakenInTurn, Up, LeftBehind
<1>2. Advance("open") \/ (at.phase = "open" /\ Advance("serve"))
  BY <1>1 DEF StartPart
<1>3. /\ at' \in [phase : Phases, step : Nat] /\ at'.step \in 1..Len(Program[at'.phase])
      /\ at'.phase \in {"boot", "open", "serve"} /\ (at'.phase = "boot" => at.phase = "boot")
  BY <1>1, <1>2, AdvanceMoves DEF Phases
<1>4. at.phase = "boot" => Here \in Steps("boot")
  BY <1>1 DEF ProcessTypeOK, Here, Steps
<1>5. ProcessTypeOK'
  BY <1>1, <1>3 DEF ProcessTypeOK
<1>6. Named' /\ ForgetsForAFailure' /\ Accounted' /\ TakenInTurn'
  BY <1>1, <1>3, <1>4 DEF ProcessInv, Named, ForgetsForAFailure, Accounted, TakenInTurn, Down
<1>. QED BY <1>5, <1>6 DEF ProcessInv

\* stop(), from wherever it is called, has everything ahead.
LEMMA StopEntered ==
  ASSUME ProcessInv, at.phase \in Up \/ (at.phase = "stop" /\ Here = "earcon"),
         at' = [phase |-> "stop", step |-> 1], alive' \subseteq Components, UNCHANGED <<gone, broken>>
  PROVE  ProcessInv'
<1>1. gone = {}
  <2>1. CASE at.phase \in Up
    BY <2>1 DEF ProcessInv, TakenInTurn
  <2>2. CASE at.phase = "stop" /\ Here = "earcon"
    <3>1. at.step = 1
      BY <2>2 DEF ProcessInv, ProcessTypeOK, Here, Program
    <3>. QED BY <2>2, <3>1 DEF ProcessInv, TakenInTurn, Behind, Down
  <2>. QED BY <2>1, <2>2
<1>2. /\ at' \in [phase : Phases, step : Nat] /\ at'.step \in 1..Len(Program[at'.phase])
      /\ at'.phase = "stop" /\ Ahead(at') = Steps("stop")
  BY EnterMoves DEF Phases
<1>3. ProcessTypeOK'
  BY <1>2 DEF ProcessInv, ProcessTypeOK
<1>4. Named' /\ ForgetsForAFailure' /\ Accounted' /\ TakenInTurn'
  BY <1>1, <1>2, WaysDownAreComplete DEF Named, ForgetsForAFailure, Accounted, TakenInTurn, Up
<1>. QED BY <1>3, <1>4 DEF ProcessInv

\* A step of start() that raises or is cancelled: start() undoes what it has done, or leaves
\* it to stop().
LEMMA InterruptedKeeps ==
  ASSUME ProcessInv, at.phase \in {"boot", "open"}, at.phase = "boot" => Here \in Raising, Interrupted
  PROVE  ProcessInv'
<1>1. /\ ProcessTypeOK /\ gone = {} /\ UNCHANGED <<gone, broken>> /\ failure' = Here /\ Abandon
      /\ alive' \subseteq alive \cup ({Here} \cap Partial)
  BY DEF ProcessInv, Interrupted, TakenInTurn, Up
<1>2. alive' \subseteq Components
  BY <1>1 DEF ProcessTypeOK, Partial, Components
<1>3. CASE at' = [phase |-> "stop", step |-> 1]
  BY <1>1, <1>2, <1>3, StopEntered DEF Up
<1>4. CASE at.phase = "boot" /\ Here # "profile" /\ at' = [phase |-> "unwind", step |-> 1]
  <2>1. /\ at' \in [phase : Phases, step : Nat] /\ at'.step \in 1..Len(Program[at'.phase])
        /\ at'.phase = "unwind" /\ Ahead(at') = Steps("unwind")
    BY <1>4, EnterMoves DEF Phases
  <2>2. Here \in {"ledger", "hardware", "body", "camera", "reflexes", "cognition"}
    <3>1. Here \in Steps("boot")
      BY <1>1, <1>4 DEF ProcessTypeOK, Here, Steps
    <3>2. Here \notin {"sms", "baseline", "ready"}
      BY <3>1 DEF Steps, Program
    <3>. QED BY <1>4, <3>2 DEF Raising
  <2>3. {"history", "media", "camera"} \subseteq LeftBehind' /\ LeftBehind \subseteq LeftBehind'
    BY <1>1, <2>2 DEF LeftBehind
  <2>4. Here \in Steps("boot")
    BY <1>1, <1>4 DEF ProcessTypeOK, Here, Steps
  <2>5. alive' \subseteq ((Steps("compose") \cup Steps("boot")) \cap Components) \cup LeftBehind'
    BY <1>1, <1>2, <1>4, <2>3, <2>4 DEF ProcessInv, Named
  <2>6. alive' \subseteq Ahead(at') \cup LeftBehind'
    BY <2>1, <2>3, <2>5, WaysDownAreComplete
  <2>7. ProcessTypeOK'
    BY <1>1, <1>2, <2>1 DEF ProcessTypeOK
  <2>8. Named' /\ ForgetsForAFailure' /\ Accounted' /\ TakenInTurn'
    BY <1>1, <2>1, <2>3, <2>6 DEF Named, ForgetsForAFailure, Accounted, TakenInTurn, Up
  <2>. QED BY <2>7, <2>8 DEF ProcessInv
<1>. QED BY <1>1, <1>3, <1>4 DEF Abandon, Finally, Enter

-----------------------------------------------------------------------------
\* The way down: the component of the step is taken down, or its own stop fails, or the
\* failing start() passes over the camera, which is among what it forgets.
LEMMA DownKeeps ==
  ASSUME ProcessInv, at.phase \in Down, Advance("done"), UNCHANGED failure,
         broken' \subseteq broken \cup {Here}, broken \subseteq broken', broken' \subseteq Components,
         alive' \subseteq alive, gone' \subseteq gone \cup ({Here} \cap Components),
         Here \notin alive' \/ Here \in broken' \cup LeftBehind
  PROVE  ProcessInv'
<1>1. ProcessTypeOK /\ LeftBehind' = LeftBehind
  BY DEF ProcessInv, LeftBehind
<1>2. /\ at' \in [phase : Phases, step : Nat] /\ at'.step \in 1..Len(Program[at'.phase])
      /\ \/ /\ at'.phase = at.phase
            /\ Ahead(at) \subseteq Ahead(at') \cup {Here} /\ Behind(at') = Behind(at) \cup {Here}
         \/ at'.phase = "done" /\ Ahead(at) = {Here}
  BY <1>1, AdvanceMoves DEF Phases
<1>3. ProcessTypeOK'
  BY <1>1, <1>2 DEF ProcessTypeOK
<1>4. Named' /\ ForgetsForAFailure'
  BY <1>1, <1>2 DEF ProcessInv, Named, ForgetsForAFailure, Down
<1>5. Accounted'
  BY <1>1, <1>2 DEF ProcessInv, Accounted, Down
<1>6. TakenInTurn'
  BY <1>2 DEF ProcessInv, TakenInTurn, Up, Down
<1>. QED BY <1>3, <1>4, <1>5, <1>6 DEF ProcessInv

\* A step down that succeeds, or is passed over.
LEMMA StopKeeps ==
  ASSUME ProcessInv, Stop
  PROVE  ProcessInv'
<1>1. /\ at.phase \in Down /\ Advance("done") /\ UNCHANGED <<failure, broken>>
      /\ broken \subseteq Components /\ alive \subseteq Components
  BY DEF Stop, TakingDown, Down, ProcessInv, ProcessTypeOK
<1>2. CASE PassedOver
  <2>1. UNCHANGED <<alive, gone>> /\ Here \in LeftBehind
    BY <1>2 DEF Stop, PassedOver, ProcessInv, ForgetsForAFailure
  <2>. QED BY <1>1, <2>1, DownKeeps
<1>3. CASE ~PassedOver
  <2>1. alive' = alive \ {Here} /\ gone' = gone \cup ({Here} \cap Components)
    BY <1>3 DEF Stop
  <2>. QED BY <1>1, <2>1, DownKeeps
<1>. QED BY <1>2, <1>3

\* A step down that raises, or is cancelled, and is swallowed.
LEMMA SwallowedKeeps ==
  ASSUME ProcessInv, at.phase \in Down, Swallowed
  PROVE  ProcessInv'
<1>1. /\ Advance("done") /\ UNCHANGED failure
      /\ broken' = broken \cup ({Here} \cap Components)
      /\ broken \subseteq Components /\ alive \subseteq Components
      /\ \/ alive' = alive \ {Here} /\ gone' = gone \cup ({Here} \cap Components)
         \/ UNCHANGED <<alive, gone>>
  BY DEF Swallowed, ProcessInv, ProcessTypeOK
<1>2. Here \notin alive' \/ Here \in broken' \cup LeftBehind
  BY <1>1
<1>. QED BY <1>1, <1>2, DownKeeps

\* The signal comes to where the work is suspended.
LEMMA CancelledKeeps ==
  ASSUME ProcessInv, Cancelled
  PROVE  ProcessInv'
<1>1. Here \in Awaits(at.phase) /\ at.phase \in Phases
  BY DEF Cancelled, Suspended, ProcessInv, ProcessTypeOK
<1>2. at.phase \in {"boot", "open", "serve", "unwind", "stop"}
  BY <1>1 DEF Awaits, Phases
<1>3. CASE at.phase \in {"boot", "open"}
  <2>1. Interrupted
    <3>1. Here # "earcon"
      BY <1>1, <1>3 DEF Awaits
    <3>. QED BY <1>3, <3>1 DEF Cancelled
  <2>2. at.phase = "boot" => Here \in Raising
    BY <1>1, <1>3 DEF Awaits, Raising
  <2>. QED BY <1>3, <2>1, <2>2, InterruptedKeeps
<1>4. CASE at.phase \notin {"boot", "open"} /\ (at.phase = "serve" \/ Here = "earcon")
  <2>1. Finally /\ UNCHANGED <<alive, gone, broken>>
    BY <1>4 DEF Cancelled
  <2>2. at.phase \in Up \/ (at.phase = "stop" /\ Here = "earcon")
    <3>1. at.phase = "unwind" => Here # "earcon"
      BY DEF ProcessInv, ProcessTypeOK, Here, Program
    <3>. QED BY <1>2, <1>4, <3>1 DEF Up
  <2>. QED BY <2>1, <2>2, StopEntered DEF Finally, Enter, ProcessInv, ProcessTypeOK
<1>5. CASE at.phase \notin {"boot", "open", "serve"} /\ Here # "earcon"
  <2>1. Swallowed
    BY <1>5 DEF Cancelled
  <2>. QED BY <1>2, <1>5, <2>1, SwallowedKeeps DEF Down
<1>. QED BY <1>3, <1>4, <1>5

\* What comes and goes by itself comes only where stop() is still to take everything down,
\* and leaves at most an earcon.
LEMMA ActivitiesKeep ==
  ASSUME ProcessInv, NEW a \in Activities, Begin(a) \/ End(a)
  PROVE  ProcessInv'
<1>1. UNCHANGED <<at, failure, gone, broken>> /\ LeftBehind' = LeftBehind /\ Ahead(at') = Ahead(at)
  BY DEF Begin, End, LeftBehind
<1>2. alive' \subseteq Components
  BY DEF Begin, End, ProcessInv, ProcessTypeOK, Components, Activities
<1>3. alive' \subseteq alive \cup LeftBehind \/ at.phase \in {"open", "serve"}
  <2>1. CASE Begin(a)
    <3>1. at.phase \in Phases /\ state = "running"
      BY <2>1 DEF Begin, ProcessInv, ProcessTypeOK
    <3>. QED BY <3>1 DEF state, Phases
  <2>2. CASE End(a)
    BY <2>2 DEF End, LeftBehind
  <2>. QED BY <2>1, <2>2
<1>4. ProcessTypeOK'
  BY <1>1, <1>2 DEF ProcessInv, ProcessTypeOK
<1>5. Named' /\ ForgetsForAFailure' /\ Accounted' /\ TakenInTurn'
  BY <1>1, <1>3 DEF ProcessInv, Named, ForgetsForAFailure, Accounted, TakenInTurn, Down
<1>. QED BY <1>4, <1>5 DEF ProcessInv

-----------------------------------------------------------------------------
\* It holds of the initial states.
LEMMA ProcessInitially == ProcessInit => ProcessInv
<1>. SUFFICES ASSUME ProcessInit PROVE ProcessInv
  OBVIOUS
<1>1. at = [phase |-> "compose", step |-> 1] /\ alive = {} /\ gone = {} /\ broken = {}
  BY DEF ProcessInit
<1>2. ProcessTypeOK
  BY <1>1, ProgramsHaveSteps DEF ProcessTypeOK, Phases
<1>. QED BY <1>1, <1>2 DEF ProcessInv, Named, ForgetsForAFailure, Accounted, TakenInTurn, Down

\* Every step of the process keeps the invariant, wherever it fails.
THEOREM ProcessInductive == ProcessSpec => []ProcessInv
<1>1. ProcessInv /\ [ProcessNext]_processVars => ProcessInv'
  <2>. SUFFICES ASSUME ProcessInv, [ProcessNext]_processVars PROVE ProcessInv'
    OBVIOUS
  <2>1. CASE StartFails
    <3>1. /\ at.phase \in {"boot", "open"} /\ Interrupted
          /\ at.phase = "boot" => Here \in Raising
      BY <2>1 DEF StartFails
    <3>. QED BY <3>1, InterruptedKeeps
  <2>2. CASE SessionEnds
    BY <2>2, StopEntered DEF SessionEnds, Finally, Enter, Up, ProcessInv, ProcessTypeOK
  <2>3. CASE StopFails
    BY <2>3, SwallowedKeeps DEF StopFails, TakingDown, Down
  <2>4. CASE Signal \/ RequestJoined \/ UNCHANGED processVars
    <3>1. UNCHANGED <<at, failure, alive, gone, broken>>
      BY <2>4 DEF Signal, RequestJoined, processVars
    <3>. QED BY <3>1 DEF ProcessInv, ProcessTypeOK, Named, ForgetsForAFailure, Accounted, TakenInTurn, LeftBehind
  <2>. QED
    BY <2>1, <2>2, <2>3, <2>4, ComposeKeeps, StartPartKeeps, StopKeeps, CancelledKeeps, ActivitiesKeep
    DEF ProcessNext, Work
<1>. QED BY ProcessInitially, <1>1, PTL DEF ProcessSpec

\* However composition, start or a stop fails, how often ever, and wherever the signal comes,
\* the process ends with every component taken down but those whose own stop failed and
\* those the code forgets.
THEOREM AlwaysUnwound == ProcessSpec => []Unwound
<1>1. ProcessInv => Unwound
  BY DEF ProcessInv, Accounted, Unwound
<1>. QED BY <1>1, ProcessInductive, PTL

\* On every way down nothing that still works uses what has been taken down before it.
THEOREM DependenciesAlwaysOutlive == ProcessSpec => []DependenciesOutlive
<1>1. ProcessInv => DependenciesOutlive
  <2>. SUFFICES ASSUME ProcessInv, NEW c \in alive \ broken, NEW d \in gone, d \in Uses[c]
                PROVE  FALSE
    BY DEF DependenciesOutlive
  <2>1. at.phase \in Phases /\ c \in Components
    BY DEF ProcessInv, ProcessTypeOK
  <2>2. c \notin LeftBehind
    BY LeftBehindUsesNothing
  <2>3. CASE at.phase \in Up
    BY <2>3 DEF ProcessInv, TakenInTurn
  <2>4. CASE at.phase = "done"
    BY <2>2, <2>4 DEF ProcessInv, Accounted
  <2>5. CASE at.phase \in Down
    <3>1. c \in Ahead(at) /\ d \in Behind(at)
      BY <2>2, <2>5 DEF ProcessInv, Accounted, TakenInTurn
    <3>2. /\ at.step \in 1..Len(Program[at.phase]) /\ at.step \in Nat /\ Len(Program[at.phase]) \in Nat
      BY <2>1, ProgramsHaveSteps DEF ProcessInv, ProcessTypeOK
    <3>3. PICK j \in at.step..Len(Program[at.phase]) : c = Program[at.phase][j]
      BY <3>1 DEF Ahead
    <3>4. PICK i \in 1..(at.step - 1) : d = Program[at.phase][i]
      BY <3>1 DEF Behind
    <3>5. i \in 1..Len(Program[at.phase]) /\ j \in 1..Len(Program[at.phase]) /\ i < j
      BY <3>2
    <3>. QED BY <2>1, <2>5, <3>3, <3>4, <3>5, WaysDownAreInOrder
  <2>. QED BY <2>1, <2>3, <2>4, <2>5 DEF Phases, Up, Down
<1>. QED BY <1>1, ProcessInductive, PTL
=============================================================================
