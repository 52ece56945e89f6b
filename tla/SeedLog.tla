------------------------------- MODULE SeedLog -------------------------------
(***************************************************************************)
(* The sample data generator (seed_log/main.go) against the running server *)
(* and its other clients: it posts the CREATEs of its documents one after  *)
(* the other, then the UPDATEs of a few of them, each naming the event the *)
(* previous answer returned, and counts versions on its own. Any answer    *)
(* but a 200, and no answer at all, ends it with a panic.                  *)
(***************************************************************************)
EXTENDS NotaryServer, SequencesExt

CONSTANTS
    SeedWorker,             \* the goroutine of the tool's one connection
    DocIDs,                 \* the ids of the documents it creates, in order
    updatesPerChosenDoc,    \* a sequence of numbers of UPDATEs
    SeedRequest             \* the rest of a request, as the tool fills it in

ASSUME SeedAssumption ==
    /\ SeedWorker \in Workers
    /\ DocIDs \in Seq(Range(DocIDs)) /\ IsInjective(DocIDs)
    /\ updatesPerChosenDoc \in Seq(Nat)
    /\ Len(updatesPerChosenDoc) <= Len(DocIDs)
    /\ {"type", "doc", "prev", "leaf"} \subseteq DOMAIN SeedRequest

ASSUME WorkersAreFinite == IsFiniteSet(Workers)

\* The requests the tool may make, whatever the server answers, are among
\* those clients send.
SeedRequests ==
    {[SeedRequest EXCEPT !.type = t, !.doc = DocIDs[i], !.prev = p, !.leaf = l] :
        t \in {Create, Update}, i \in DOMAIN DocIDs,
        p \in EventIDs \cup {None}, l \in 0 .. MaxLog - 1 \cup {None}}

ASSUME SeedRequestsAssumption == SeedRequests \subseteq Requests

VARIABLE seed

seedVars == <<vars, seed>>

numCreateDocs == Len(DocIDs)

\* rng.Perm(len(states))[:numChosenDocs]
Chosen ==
    {c \in [DOMAIN updatesPerChosenDoc -> DOMAIN DocIDs] : IsInjective(c)}

\* The documents of all requests, in order.
Plan(chosen) ==
    [i \in 1 .. numCreateDocs |-> i] \o
    FlattenSeq([j \in DOMAIN chosen |->
                    [u \in 1 .. updatesPerChosenDoc[j] |-> chosen[j]]])

\* "states" is what the tool knows of each document; a row of the summary is
\* written for each answer.
SeedInit ==
    /\ Init
    /\ \E c \in Chosen :
          seed = [stage |-> "ready", plan |-> Plan(c), summary |-> << >>,
                  states |-> [i \in DOMAIN DocIDs |-> [ver |-> 0, prev |-> None, leaf |-> None]]]

\* The request under way is the one after those that have been answered.
Serial == Len(seed.summary) + 1
Doc == seed.plan[Serial]

CurrentRequest ==
    LET st == seed.states[Doc]
    IN  [SeedRequest EXCEPT
            !.type = IF Serial <= numCreateDocs THEN Create ELSE Update,
            !.doc  = DocIDs[Doc],
            !.prev = st.prev,
            !.leaf = st.leaf]

Panic == seed' = [seed EXCEPT !.stage = "panicked"]

-----------------------------------------------------------------------------
(* postEvent. *)

\* The server takes the request up.
Post ==
    /\ seed.stage = "ready"
    /\ Serial <= Len(seed.plan)
    /\ Lookup(SeedWorker, CurrentRequest) \/ LookupFails(SeedWorker)
    /\ seed' = [seed EXCEPT !.stage = "waiting"]

\* Nobody listens.
PostRefused ==
    /\ seed.stage = "ready"
    /\ Serial <= Len(seed.plan)
    /\ ~Serving
    /\ Panic
    /\ UNCHANGED vars

\* A slip: the version is not carried over to the next update.
CountFromCreate(st) == IF st.ver = 0 THEN 1 ELSE 2
NewVersion(st) == st.ver + 1

\* The answer's event becomes the document's state and a row of the summary;
\* the version in both is the tool's own.
TakeAnswer(ev, i) ==
    LET ver == NewVersion(seed.states[Doc])
    IN  seed' = [seed EXCEPT
            !.stage = "ready",
            !.states[Doc] = [ver |-> ver, prev |-> ev.id, leaf |-> i],
            !.summary = Append(@, [doc |-> DocIDs[Doc], ver |-> ver, id |-> ev.id,
                                   type |-> ev.type, index |-> i])]

\* Panics for a refusal, or if the answer's event cannot be written to disk.
ReceiveAnswer ==
    LET answer == work[SeedWorker]
    IN  /\ seed.stage = "waiting"
        /\ Respond(SeedWorker)
        /\ \/ answer.code = 200 /\ TakeAnswer(answer.ev, answer.idx)
           \/ Panic

\* The client's timeout, or a connection that broke; the handler goes on.
GiveUp ==
    /\ seed.stage = "waiting"
    /\ Panic
    /\ UNCHANGED vars

WriteSummary ==
    /\ seed.stage = "ready"
    /\ Serial > Len(seed.plan)
    /\ seed' = [seed EXCEPT !.stage = "done"]
    /\ UNCHANGED vars

SeedStep == Post \/ PostRefused \/ ReceiveAnswer \/ GiveUp \/ WriteSummary

-----------------------------------------------------------------------------
(* The server and its other clients, who do not use the run's prefix. *)

OtherRequests == {req \in Requests : req.doc \notin Range(DocIDs)}

OtherHandler(w) ==
    /\ w # SeedWorker
    /\ \/ \E req \in OtherRequests : Lookup(w, req)
       \/ LookupFails(w)
       \/ Respond(w)

Handling(w) ==
    \/ ReadHead(w) \/ ReadHeadFails(w)
    \/ AppendEntry(w) \/ PrepareRefuses(w) \/ AppendFails(w)
    \/ IndexEntry(w)

\* The handler answers a client that has given up.
AnswerNobody == seed.stage = "panicked" /\ Respond(SeedWorker)

ServerStep ==
    /\ \/ \E w \in Workers : OtherHandler(w) \/ Handling(w)
       \/ AnswerNobody
       \/ PublishCheckpoint \/ Start \/ CheckAlignment \/ Crash
    /\ UNCHANGED seed

SeedNext == SeedStep \/ ServerStep

SeedSpec == SeedInit /\ [][SeedNext]_seedVars

FairSeedSpec == SeedSpec /\ Fairness

-----------------------------------------------------------------------------
(* Properties. *)

\* Entries of the run's documents of which the summary knows nothing.
Unsummarised ==
    {i \in DOMAIN log :
        /\ log[i].doc \in Range(DocIDs)
        /\ \A k \in DOMAIN seed.summary : seed.summary[k].index # i - 1}

RowHolds(k) ==
    LET row == seed.summary[k]
    IN  /\ row.index < Len(log)
        /\ EntryAt(row.index).doc = row.doc
        /\ EntryAt(row.index).id = row.id
        /\ EntryAt(row.index).ver = row.ver
        /\ row.ver > 1 =>
              \E l \in 1 .. k - 1 :
                  /\ seed.summary[l].doc = row.doc
                  /\ seed.summary[l].ver = row.ver - 1
                  /\ EntryAt(row.index).prev = seed.summary[l].id

\* The summary and the log agree, whatever fails and whatever other clients
\* do: each row describes the entry at its index, with the version the server
\* assigned; each row of a document follows the one before it; and the log
\* holds nothing else of the run but the request under way or given up
\* (seed_log/main.go:126-300, add.go:89-128).
SummaryMatchesLog ==
    /\ \A k \in DOMAIN seed.summary : RowHolds(k)
    /\ Cardinality(Unsummarised) <= 1
    /\ seed.stage \in {"ready", "done"} => Unsummarised = {}

\* An entry a handler has sequenced is covered by the public checkpoint in the
\* end and found through the index, if inserts succeed and the process does not
\* end first (add.go:60-81).
Sequenced(i) == \E w \in Workers : work[w].pc = "index" /\ work[w].idx = i

SequencedIsEventuallyServed ==
    \A i \in 0 .. MaxLog - 1 :
        Sequenced(i) ~> \/ i < published /\ i \in DOMAIN table
                        \/ mode = "down"
-----------------------------------------------------------------------------
(* The inductive invariant, beside that of NotaryServer.                   *)

\* No request is taken that the log has no room for.
LogFits == Len(log) + Cardinality(Pending) <= MaxLog

DocState == [ver : Nat, prev : EventIDs \cup {None}, leaf : 0 .. MaxLog - 1 \cup {None}]
SummaryRow ==
    [doc : Range(DocIDs), ver : Nat \ {0}, id : EventIDs,
     type : {req.type : req \in Admitted}, index : Nat]

SeedOK ==
    /\ seed \in [stage : {"ready", "waiting", "panicked", "done"},
                 plan : Seq(DOMAIN DocIDs), summary : Seq(SummaryRow),
                 states : [DOMAIN DocIDs -> DocState]]
    /\ Len(seed.summary) <= Len(seed.plan)
    /\ numCreateDocs <= Len(seed.plan)
    /\ \A i \in DOMAIN DocIDs : seed.plan[i] = i

\* What the tool knows of a document is its last row, if it has one.
LastRow(i) ==
    LET st == seed.states[i]
    IN  \/ i > Len(seed.summary) /\ st = [ver |-> 0, prev |-> None, leaf |-> None]
        \/ /\ i <= Len(seed.summary)
           /\ \E k \in DOMAIN seed.summary :
                 /\ seed.summary[k].doc = DocIDs[i]
                 /\ seed.summary[k].ver = st.ver
                 /\ seed.summary[k].id = st.prev
                 /\ seed.summary[k].index = st.leaf

\* The handler of the request under way, or of the one given up.
Handler == work[SeedWorker]
Appended == Handler.pc = "index" \/ Handler.code = 200

\* The entry at index i is what the tool expects the server to answer.
Expected(i) ==
    /\ EntryAt(i).doc = DocIDs[Doc]
    /\ EntryAt(i).prev = seed.states[Doc].prev
    /\ EntryAt(i).ver = seed.states[Doc].ver + 1

HandlerOK ==
    /\ seed.stage \in {"ready", "done"} => Handler = IdleWork
    /\ Handler # IdleWork => Serial <= Len(seed.plan)
    /\ Handler.pc \in {"read", "append"} => Handler.req = CurrentRequest
    /\ Appended => Expected(Handler.idx)

OthersKeepOff ==
    \A w \in Workers \ {SeedWorker} :
        work[w].pc \in {"read", "append"} => work[w].req.doc \notin Range(DocIDs)

\* What the summary does not know of is the entry of that handler.
Accounted ==
    /\ \A i, j \in Unsummarised : i = j
    /\ seed.stage \in {"ready", "done"} \/ Handler.pc \in {"read", "append"} =>
           Unsummarised = {}
    /\ Appended => Unsummarised \subseteq {Handler.idx + 1}

RowsHold == \A k \in DOMAIN seed.summary : RowHolds(k)

SeedInv ==
    /\ IInv
    /\ LogFits
    /\ SeedOK
    /\ \A i \in DOMAIN DocIDs : LastRow(i)
    /\ RowsHold
    /\ HandlerOK
    /\ OthersKeepOff
    /\ Accounted
=============================================================================
