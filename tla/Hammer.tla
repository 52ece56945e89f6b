------------------------------- MODULE Hammer -------------------------------
(***************************************************************************)
(* The load generator (hammer/main.go): a feeder hands job numbers to a    *)
(* pool of workers over an unbuffered channel; each worker posts one       *)
(* CREATE per job and sends the outcome to a buffered channel, which the   *)
(* main goroutine drains into the report's counters. The feeder closes the *)
(* first channel after the last job and the second one once the wait group *)
(* says that every worker has returned.                                    *)
(***************************************************************************)
EXTENDS Integers, Sequences, FiniteSets

CONSTANTS
    Workers,        \* the goroutines; the flag -concurrency is their number
    requests        \* the flag -requests

\* main panics on a flag that is not positive.
ASSUME HammerWorkers == IsFiniteSet(Workers) /\ Workers # {}
ASSUME HammerRequests == requests \in Nat \ {0}

VARIABLES
    feeder,         \* "feed", "wait" (for the workers) or "done"
    next,           \* the feeder's loop variable
    pc, job,        \* where each worker is, and the job it has
    sent,           \* all results sent so far; the channel holds those that
    received,       \* have not been received, received being their number
    closed,         \* which of the channels "jobs" and "results" are closed
    errs, success,  \* the report's counters
    main            \* "collect" or "reported"

vars == <<feeder, next, pc, job, sent, received, closed, errs, success, main>>

\* make(chan result, requests)
Capacity == requests
InChannel == Len(sent) - received

Init ==
    /\ feeder = "feed"
    /\ next = 0
    /\ pc = [w \in Workers |-> "idle"]
    /\ job = [w \in Workers |-> 0]
    /\ sent = << >>
    /\ received = 0
    /\ closed = {}
    /\ errs = 0
    /\ success = 0
    /\ main = "collect"

\* The program runs until main returns.
Running == main = "collect"

-----------------------------------------------------------------------------
(* Workers. *)

\* A slip: the loop runs to requests inclusive.
OneMoreJob == next <= requests
MoreJobs == next < requests

\* A job passes from the feeder to a worker that is waiting for one.
TakeJob(w) ==
    /\ Running
    /\ feeder = "feed" /\ MoreJobs
    /\ pc[w] = "idle"
    /\ pc' = [pc EXCEPT ![w] = "post"]
    /\ job' = [job EXCEPT ![w] = next]
    /\ next' = next + 1
    /\ UNCHANGED <<feeder, sent, received, closed, errs, success, main>>

\* doOne returns, at its timeout at the latest.
Post(w) ==
    /\ Running
    /\ pc[w] = "post"
    /\ pc' = [pc EXCEPT ![w] = "send"]
    /\ UNCHANGED <<feeder, next, job, sent, received, closed, errs, success, main>>

\* A slip: a failed request is reported and tried again.
RetryIfFailed(w, ok) == pc' = [pc EXCEPT ![w] = IF ok THEN "idle" ELSE "post"]
\* A slip: a worker whose request failed returns.
ReturnIfFailed(w, ok) == pc' = [pc EXCEPT ![w] = IF ok THEN "idle" ELSE "done"]
NextJob(w, ok) == pc' = [pc EXCEPT ![w] = "idle"]

\* The outcome: ok is an answer 200 that can be decoded; any other answer and
\* none at all are errors. The channel takes it while there is room; a send to a
\* closed channel would panic, which SendsNeverBlock excludes.
SendResult(w) ==
    /\ Running
    /\ pc[w] = "send"
    /\ "results" \notin closed
    /\ InChannel < Capacity
    /\ \E ok \in BOOLEAN :
          /\ sent' = Append(sent, [job |-> job[w], ok |-> ok])
          /\ NextJob(w, ok)
    /\ UNCHANGED <<feeder, next, job, received, closed, errs, success, main>>

\* range ends once the channel is closed: wg.Done.
WorkerDone(w) ==
    /\ Running
    /\ pc[w] = "idle"
    /\ "jobs" \in closed
    /\ pc' = [pc EXCEPT ![w] = "done"]
    /\ UNCHANGED <<feeder, next, job, sent, received, closed, errs, success, main>>

-----------------------------------------------------------------------------
(* The feeder. *)

\* A slip: the channel is closed one job early, or not at all.
AllButOneFed == next = requests - 1
AllFed == next = requests

CloseJobs ==
    /\ Running
    /\ feeder = "feed"
    /\ AllFed
    /\ closed' = closed \cup {"jobs"}
    /\ feeder' = "wait"
    /\ UNCHANGED <<next, pc, job, sent, received, errs, success, main>>

\* A slip: a worker counts as done before its result is sent.
NobodyPosts == \A w \in Workers : pc[w] # "post"
\* wg.Wait
WorkersDone == \A w \in Workers : pc[w] = "done"

CloseResults ==
    /\ Running
    /\ feeder = "wait"
    /\ WorkersDone
    /\ closed' = closed \cup {"results"}
    /\ feeder' = "done"
    /\ UNCHANGED <<next, pc, job, sent, received, errs, success, main>>

-----------------------------------------------------------------------------
(* main. *)

Collect ==
    /\ Running
    /\ InChannel > 0
    /\ received' = received + 1
    /\ IF sent[received + 1].ok
       THEN success' = success + 1 /\ UNCHANGED errs
       ELSE errs' = errs + 1 /\ UNCHANGED success
    /\ UNCHANGED <<feeder, next, pc, job, sent, closed, main>>

\* range ends once the channel is closed and empty.
PrintReport ==
    /\ Running
    /\ InChannel = 0
    /\ "results" \in closed
    /\ main' = "reported"
    /\ UNCHANGED <<feeder, next, pc, job, sent, received, closed, errs, success>>

WorkerStep(w) ==
    TakeJob(w) \/ Post(w) \/ SendResult(w) \/ WorkerDone(w)

Next ==
    \/ \E w \in Workers : WorkerStep(w)
    \/ CloseJobs \/ CloseResults
    \/ Collect \/ PrintReport

Spec == Init /\ [][Next]_vars

\* Goroutines that can run do; doOne ends with its timeout at the latest.
FairSpec ==
    /\ Spec
    /\ \A w \in Workers : WF_vars(WorkerStep(w))
    /\ WF_vars(CloseJobs \/ CloseResults)
    /\ WF_vars(Collect \/ PrintReport)

-----------------------------------------------------------------------------
(* Properties. *)

Result == [job : 0 .. requests - 1, ok : BOOLEAN]

\* Workers that have a job.
Held == {w \in Workers : pc[w] \in {"post", "send"}}

\* The state is well formed.
TypeOK ==
    /\ feeder \in {"feed", "wait", "done"}
    /\ next \in 0 .. requests
    /\ pc \in [Workers -> {"idle", "post", "send", "done"}]
    /\ job \in [Workers -> Nat]
    /\ sent \in Seq(Result)
    /\ received \in 0 .. Len(sent)
    /\ closed \subseteq {"jobs", "results"}
    /\ errs \in Nat /\ success \in Nat
    /\ main \in {"collect", "reported"}

\* The jobs handed out are those held and those whose result has been sent.
AllHandedOut == Len(sent) + Cardinality(Held) = next

\* No two results are of one job.
SentOnce ==
    /\ \A k \in DOMAIN sent : sent[k].job < next
    /\ \A k, l \in DOMAIN sent : sent[k].job = sent[l].job => k = l

\* No two workers hold one job, and none holds one that has been sent.
HeldOnce ==
    /\ \A w \in Held : job[w] < next
    /\ \A w \in Held, k \in DOMAIN sent : sent[k].job # job[w]
    /\ \A v, w \in Held : job[v] = job[w] => v = w

\* No job is posted twice: the ones handed out are those held by one worker
\* each and those whose result has been sent once (main.go:80-97). Two posts of
\* one job would be two CREATEs of one document.
JobsPostedOnce == AllHandedOut /\ SentOnce /\ HeldOnce

\* A worker never waits for main to collect, so the printing of errors does
\* not slow the load down, and none ever sends to the closed channel.
SendsNeverBlock ==
    \A w \in Workers :
        pc[w] = "send" => InChannel < Capacity /\ "results" \notin closed

\* The report accounts for every request, whatever the interleaving of the
\* pool, the feeder and main.
ReportIsComplete ==
    main = "reported" =>
        /\ success + errs = requests
        /\ \A i \in 0 .. requests - 1 : \E k \in DOMAIN sent : sent[k].job = i

\* The inductive invariant. No job is lost on its way from the feeder to the
\* results; the channels are closed in order, the second one when nobody is
\* left to send; the counters count what has been received.
NoJobLost ==
    \A i \in 0 .. next - 1 :
        \/ \E w \in Held : job[w] = i
        \/ \E k \in DOMAIN sent : sent[k].job = i

Shutdown ==
    /\ feeder # "feed" => next = requests
    /\ "results" \in closed =>
          feeder = "done" /\ \A w \in Workers : pc[w] = "done"
    /\ main = "reported" => "results" \in closed /\ received = Len(sent)

IInv ==
    /\ TypeOK
    /\ JobsPostedOnce
    /\ NoJobLost
    /\ Shutdown
    /\ success + errs = received

\* The program ends with its report.
HammerReports == <>(main = "reported")
=============================================================================
