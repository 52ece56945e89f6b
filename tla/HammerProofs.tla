---------------------------- MODULE HammerProofs ----------------------------
(***************************************************************************)
(* Proofs about the load generator for any number of workers and requests. *)
(***************************************************************************)
EXTENDS Hammer, FiniteSetTheorems, TLAPS

\* The jobs held are finitely many.
LEMMA HeldIsFinite == IsFiniteSet(Held) /\ Cardinality(Held) \in Nat
<1>1. Held \in SUBSET Workers
  BY DEF Held
<1>2. IsFiniteSet(Held)
  BY <1>1, FS_Subset, HammerWorkers
<1> QED
  BY <1>2, FS_CardinalityType

\* What has been sent names a job.
LEMMA SentJobs ==
    ASSUME TypeOK, NEW k \in DOMAIN sent
    PROVE  sent[k].job \in Nat
<1>1. sent[k] \in Result
  BY DEF TypeOK
<1> QED
  BY <1>1, HammerRequests DEF Result

LEMMA InitEstablishesIInv == Init => IInv
<1> SUFFICES ASSUME Init PROVE IInv
  OBVIOUS
<1>1. Held = {}
  BY DEF Init, Held
<1>2. Cardinality(Held) = 0
  BY <1>1, FS_EmptySet
<1>3. TypeOK
  BY HammerRequests DEF Init, TypeOK
<1>4. JobsPostedOnce
  BY <1>1, <1>2 DEF Init, JobsPostedOnce, AllHandedOut, SentOnce, HeldOnce
<1>5. NoJobLost /\ Shutdown /\ success + errs = received
  BY HammerRequests DEF Init, NoJobLost, Shutdown
<1> QED
  BY <1>3, <1>4, <1>5 DEF IInv

-----------------------------------------------------------------------------
(* One lemma per action. *)

LEMMA TakeJobPreserves ==
    ASSUME IInv, NEW w \in Workers, TakeJob(w)
    PROVE  IInv'
<1> USE HammerRequests DEF IInv
<1>1. /\ next' = next + 1 /\ next \in 0 .. requests - 1
      /\ pc' = [pc EXCEPT ![w] = "post"] /\ pc[w] = "idle"
      /\ job' = [job EXCEPT ![w] = next]
      /\ UNCHANGED <<feeder, sent, received, closed, errs, success, main>>
      /\ feeder = "feed"
  BY DEF TakeJob, TypeOK, MoreJobs
<1>2. TypeOK'
  BY <1>1 DEF TypeOK, Result
<1>3. Held' = Held \cup {w} /\ w \notin Held
  BY <1>1 DEF Held, TypeOK
<1>4. AllHandedOut'
  <2>1. Cardinality(Held') = Cardinality(Held) + 1
    BY <1>3, HeldIsFinite, FS_AddElement
  <2>2. Len(sent) \in Nat /\ Len(sent) + Cardinality(Held) = next
    BY DEF JobsPostedOnce, AllHandedOut, TypeOK
  <2>3. Len(sent) + Cardinality(Held') = next'
    BY <2>1, <2>2, <1>1, HeldIsFinite
  <2> QED
    BY <2>3, <1>1 DEF AllHandedOut
<1>5. \A v \in Held : job'[v] = job[v]
  BY <1>1, <1>3 DEF TypeOK, Held
<1>6. job'[w] = next
  BY <1>1 DEF TypeOK
<1>7. \A k \in DOMAIN sent : sent[k].job \in Nat /\ sent[k].job < next
  BY SentJobs DEF JobsPostedOnce, SentOnce
<1>8. \A v \in Held : job[v] \in Nat /\ job[v] < next
  BY DEF JobsPostedOnce, HeldOnce, TypeOK, Held
<1>9. SentOnce'
  BY <1>1, <1>7 DEF SentOnce, JobsPostedOnce
<1>10. HeldOnce'
  BY <1>1, <1>3, <1>5, <1>6, <1>7, <1>8 DEF HeldOnce, JobsPostedOnce
<1>11. NoJobLost'
  <2> SUFFICES ASSUME NEW i \in 0 .. next' - 1
               PROVE  \/ \E v \in Held' : job'[v] = i
                      \/ \E k \in DOMAIN sent' : sent'[k].job = i
    BY DEF NoJobLost
  <2>1. CASE i = next
    BY <2>1, <1>3, <1>6
  <2>2. CASE i # next
    BY <2>2, <1>1, <1>3, <1>5 DEF NoJobLost
  <2> QED
    BY <2>1, <2>2
<1>12. Shutdown'
  BY <1>1 DEF Shutdown
<1> QED
  BY <1>1, <1>2, <1>4, <1>9, <1>10, <1>11, <1>12 DEF JobsPostedOnce

\* A step that leaves the held and the sent jobs as they are.
LEMMA QuietStep ==
    ASSUME IInv, Held' = Held, UNCHANGED <<next, job, sent>>
    PROVE  JobsPostedOnce' /\ NoJobLost'
<1>1. Cardinality(Held') = Cardinality(Held)
  OBVIOUS
<1>2. JobsPostedOnce'
  BY <1>1 DEF IInv, JobsPostedOnce, AllHandedOut, SentOnce, HeldOnce
<1>3. NoJobLost'
  BY DEF IInv, NoJobLost
<1> QED
  BY <1>2, <1>3

LEMMA PostPreserves ==
    ASSUME IInv, NEW w \in Workers, Post(w)
    PROVE  IInv'
<1>1. Held' = Held
  BY DEF Post, Held, IInv, TypeOK
<1>2. TypeOK'
  BY DEF Post, IInv, TypeOK, Result
<1>3. JobsPostedOnce' /\ NoJobLost'
  BY <1>1, QuietStep DEF Post
<1>4. Shutdown'
  BY DEF Post, IInv, Shutdown, TypeOK
<1> QED
  BY <1>2, <1>3, <1>4 DEF IInv, Post

LEMMA SendResultPreserves ==
    ASSUME IInv, NEW w \in Workers, SendResult(w)
    PROVE  IInv'
<1> USE HammerRequests
<1>1. PICK ok \in BOOLEAN : sent' = Append(sent, [job |-> job[w], ok |-> ok])
  BY DEF SendResult
<1>2. /\ pc[w] = "send" /\ pc' = [pc EXCEPT ![w] = "idle"]
      /\ "results" \notin closed
      /\ UNCHANGED <<feeder, next, job, received, closed, errs, success, main>>
  BY DEF SendResult, NextJob
<1>3. w \in Held /\ Held' = Held \ {w}
  BY <1>2 DEF Held, IInv, TypeOK
<1>4. job[w] \in 0 .. requests - 1 /\ job[w] < next
  BY <1>3 DEF IInv, JobsPostedOnce, HeldOnce, TypeOK
<1>5. /\ Len(sent') = Len(sent) + 1
      /\ DOMAIN sent' = 1 .. Len(sent) + 1
      /\ DOMAIN sent = 1 .. Len(sent)
      /\ Len(sent) \in Nat
      /\ sent' \in Seq(Result)
      /\ \A k \in DOMAIN sent : sent'[k] = sent[k]
      /\ sent'[Len(sent) + 1].job = job[w]
  <2>1. sent \in Seq(Result) /\ [job |-> job[w], ok |-> ok] \in Result
    BY <1>4 DEF IInv, TypeOK, Result
  <2> QED
    BY <1>1, <2>1
<1>6. TypeOK'
  BY <1>2, <1>5 DEF IInv, TypeOK
<1>7. AllHandedOut'
  <2>1. Cardinality(Held') = Cardinality(Held) - 1
    BY <1>3, HeldIsFinite, FS_RemoveElement
  <2>2. Len(sent) + Cardinality(Held) = next /\ next \in Nat
    BY DEF IInv, JobsPostedOnce, AllHandedOut, TypeOK
  <2>3. Len(sent') + Cardinality(Held') = next'
    BY <2>1, <2>2, <1>2, <1>5, HeldIsFinite
  <2> QED
    BY <2>3 DEF AllHandedOut
<1>8. \A k \in DOMAIN sent' : k \in DOMAIN sent \/ k = Len(sent) + 1
  BY <1>5
<1>9. \A k \in DOMAIN sent : sent[k].job < next /\ sent[k].job # job[w]
  BY <1>3 DEF IInv, JobsPostedOnce, HeldOnce, SentOnce
<1>10. SentOnce'
  BY <1>2, <1>4, <1>5, <1>8, <1>9 DEF IInv, JobsPostedOnce, SentOnce
<1>11. \A v \in Held' : v \in Held /\ job[v] # job[w]
  BY <1>3 DEF IInv, JobsPostedOnce, HeldOnce
<1>12. HeldOnce'
  BY <1>2, <1>5, <1>8, <1>11 DEF IInv, JobsPostedOnce, HeldOnce
<1>13. NoJobLost'
  <2> SUFFICES ASSUME NEW i \in 0 .. next - 1
               PROVE  \/ \E v \in Held' : job'[v] = i
                      \/ \E k \in DOMAIN sent' : sent'[k].job = i
    BY <1>2 DEF NoJobLost
  <2>1. CASE i = job[w]
    BY <2>1, <1>5
  <2>2. CASE i # job[w]
    BY <2>2, <1>2, <1>3, <1>5 DEF IInv, NoJobLost
  <2> QED
    BY <2>1, <2>2
<1>14. Shutdown'
  BY <1>2, <1>5 DEF IInv, Shutdown, SendResult, Running
<1> QED
  BY <1>2, <1>6, <1>7, <1>10, <1>12, <1>13, <1>14 DEF IInv, JobsPostedOnce

LEMMA WorkerDonePreserves ==
    ASSUME IInv, NEW w \in Workers, WorkerDone(w)
    PROVE  IInv'
<1>1. Held' = Held
  BY DEF WorkerDone, Held, IInv, TypeOK
<1>2. TypeOK'
  BY DEF WorkerDone, IInv, TypeOK, Result
<1>3. JobsPostedOnce' /\ NoJobLost'
  BY <1>1, QuietStep DEF WorkerDone
<1>4. Shutdown'
  BY DEF WorkerDone, IInv, Shutdown, TypeOK
<1> QED
  BY <1>2, <1>3, <1>4 DEF IInv, WorkerDone

LEMMA FeederPreserves ==
    ASSUME IInv, CloseJobs \/ CloseResults
    PROVE  IInv'
<1>1. Held' = Held
  BY DEF CloseJobs, CloseResults, Held
<1>2. TypeOK'
  BY DEF CloseJobs, CloseResults, IInv, TypeOK, Result
<1>3. JobsPostedOnce' /\ NoJobLost'
  BY <1>1, QuietStep DEF CloseJobs, CloseResults
<1>4. Shutdown'
  BY DEF CloseJobs, CloseResults, AllFed, WorkersDone, Running, IInv, Shutdown
<1> QED
  BY <1>2, <1>3, <1>4 DEF IInv, CloseJobs, CloseResults

LEMMA MainPreserves ==
    ASSUME IInv, Collect \/ PrintReport
    PROVE  IInv'
<1>1. Held' = Held
  BY DEF Collect, PrintReport, Held
<1>2. received \in Nat /\ Len(sent) \in Nat /\ errs \in Nat /\ success \in Nat /\ received <= Len(sent)
  BY DEF IInv, TypeOK
<1>3. TypeOK'
  <2>1. CASE Collect
    <3>1. received' = received + 1 /\ received' \in 0 .. Len(sent)
      BY <2>1, <1>2 DEF Collect, InChannel
    <3>2. errs' \in Nat /\ success' \in Nat
      BY <2>1, <1>2 DEF Collect
    <3> QED
      BY <2>1, <3>1, <3>2 DEF Collect, IInv, TypeOK, Result
  <2>2. CASE PrintReport
    BY <2>2 DEF PrintReport, IInv, TypeOK, Result
  <2> QED
    BY <2>1, <2>2
<1>4. JobsPostedOnce' /\ NoJobLost'
  BY <1>1, QuietStep DEF Collect, PrintReport
<1>5. Shutdown'
  BY <1>2 DEF Collect, PrintReport, InChannel, Running, IInv, Shutdown
<1>6. (success + errs = received)'
  BY <1>2 DEF Collect, PrintReport, IInv
<1> QED
  BY <1>3, <1>4, <1>5, <1>6 DEF IInv

LEMMA StutterPreserves ==
    ASSUME IInv, UNCHANGED vars
    PROVE  IInv'
<1>1. Held' = Held
  BY DEF vars, Held
<1>2. JobsPostedOnce' /\ NoJobLost'
  BY <1>1, QuietStep DEF vars
<1> QED
  BY <1>2 DEF vars, IInv, TypeOK, Shutdown, Result

-----------------------------------------------------------------------------
(* Theorems. *)

\* The inductive invariant holds in every reachable state.
THEOREM Invariance == Spec => []IInv
<1>1. Init => IInv
  BY InitEstablishesIInv
<1>2. IInv /\ [Next]_vars => IInv'
  <2> SUFFICES ASSUME IInv, [Next]_vars PROVE IInv'
    OBVIOUS
  <2>1. ASSUME NEW w \in Workers, WorkerStep(w) PROVE IInv'
    BY <2>1, TakeJobPreserves, PostPreserves, SendResultPreserves,
       WorkerDonePreserves DEF WorkerStep
  <2>2. CASE CloseJobs \/ CloseResults
    BY <2>2, FeederPreserves
  <2>3. CASE Collect \/ PrintReport
    BY <2>3, MainPreserves
  <2>4. CASE UNCHANGED vars
    BY <2>4, StutterPreserves
  <2> QED
    BY <2>1, <2>2, <2>3, <2>4 DEF Next
<1> QED
  BY <1>1, <1>2, PTL DEF Spec

\* The state is well formed: nobody leaves the protocol of the two channels
\* (hammer/main.go:80-110).
THEOREM TypeCorrect == Spec => []TypeOK
<1>1. IInv => TypeOK
  BY DEF IInv
<1> QED
  BY <1>1, Invariance, PTL

\* No job of the load generator is posted twice or lost between the feeder and
\* the results, for any pool and any number of requests.
THEOREM PostedOnce == Spec => []JobsPostedOnce
<1>1. IInv => JobsPostedOnce
  BY DEF IInv
<1> QED
  BY <1>1, Invariance, PTL

\* A worker that has a result can send it at once: the channel has room, and it
\* is open.
THEOREM NeverBlocked == Spec => []SendsNeverBlock
<1>1. IInv => SendsNeverBlock
  <2> SUFFICES ASSUME IInv PROVE SendsNeverBlock
    OBVIOUS
  <2>1. ASSUME NEW w \in Workers, pc[w] = "send" PROVE InChannel < Capacity
    <3>1. w \in Held
      BY <2>1 DEF Held
    <3>2. Cardinality(Held) # 0
      BY <3>1, HeldIsFinite, FS_EmptySet
    <3>3. Len(sent) < next
      BY <3>2, HeldIsFinite DEF IInv, JobsPostedOnce, AllHandedOut, TypeOK
    <3> QED
      BY <3>3, HammerRequests DEF InChannel, Capacity, IInv, TypeOK
  <2> QED
    BY <2>1 DEF SendsNeverBlock, IInv, Shutdown
<1> QED
  BY <1>1, Invariance, PTL

\* The report counts every request, and each job has a result.
THEOREM CompleteReport == Spec => []ReportIsComplete
<1>1. IInv => ReportIsComplete
  <2> SUFFICES ASSUME IInv, main = "reported"
               PROVE  /\ success + errs = requests
                      /\ \A i \in 0 .. requests - 1 : \E k \in DOMAIN sent : sent[k].job = i
    BY DEF ReportIsComplete
  <2>1. /\ next = requests
        /\ received = Len(sent)
        /\ \A w \in Workers : pc[w] = "done"
    BY DEF IInv, Shutdown
  <2>2. Held = {}
    BY <2>1 DEF Held
  <2>3. Len(sent) = requests
    BY <2>1, <2>2, FS_EmptySet DEF IInv, JobsPostedOnce, AllHandedOut, TypeOK
  <2> QED
    BY <2>1, <2>2, <2>3 DEF IInv, NoJobLost
<1> QED
  BY <1>1, Invariance, PTL
=============================================================================
