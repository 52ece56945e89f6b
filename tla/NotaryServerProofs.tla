------------------------- MODULE NotaryServerProofs -------------------------
(***************************************************************************)
(* Proofs about NotaryServer for any number of workers, any requests, any  *)
(* faults and logs of any length.                                          *)
(***************************************************************************)
EXTENDS NotaryServer, FiniteSetTheorems, TLAPS

-----------------------------------------------------------------------------
(* A finite, non-empty set of naturals has a greatest and a least element. *)

LEMMA Greatest ==
    ASSUME NEW S \in SUBSET Nat, IsFiniteSet(S), S # {}
    PROVE  \E m \in S : \A j \in S : j <= m
<1> DEFINE above(i) == {j \in S : j > i}
           T == {above(i) : i \in S}
           R == StrictSubsetOrdering(S)
           F == FiniteSubsetsOf(S)
<1>1. IsWellFoundedOn(R, F)
  BY FS_StrictSubsetOrderingWellFounded
<1>2. T \subseteq F
  <2>1. \A i \in S : above(i) \in SUBSET S
    OBVIOUS
  <2> QED
    BY <2>1, FS_FiniteSubsetsOfFinite
<1>3. T # {}
  OBVIOUS
<1>4. PICK A \in T : \A B \in T : ~ (<<B, A>> \in R)
  <2> HIDE DEF R, F, T
  <2> QED
    BY <1>1, <1>2, <1>3, WFMin
<1>5. PICK m \in S : A = above(m)
  OBVIOUS
<1>6. ASSUME NEW j \in S, j > m PROVE FALSE
  <2>1. j \in above(m) /\ j \notin above(j)
    BY <1>6
  <2>2. above(j) \subseteq above(m)
    <3>1. ASSUME NEW k \in S, k > j PROVE k > m
      <4>1. k \in Nat /\ j \in Nat /\ m \in Nat
        OBVIOUS
      <4> QED
        BY <1>6, <3>1, <4>1
    <3> QED
      BY <3>1
  <2>3. above(m) \in SUBSET S /\ above(j) \in SUBSET S /\ above(j) \in T
    OBVIOUS
  <2> HIDE DEF above
  <2>4. <<above(j), above(m)>> \in R
    BY <2>1, <2>2, <2>3 DEF StrictSubsetOrdering
  <2> QED
    BY <1>4, <1>5, <2>3, <2>4
<1> QED
  BY <1>6

LEMMA Least ==
    ASSUME NEW S \in SUBSET Nat, S # {}
    PROVE  \E m \in S : \A j \in S : m <= j
<1>1. PICK n \in S : TRUE
  OBVIOUS
<1> DEFINE U == {n - k : k \in {j \in S : j <= n}}
<1>2. U \in SUBSET Nat /\ \A s \in U : s <= n
  OBVIOUS
<1>3. IsFiniteSet(U)
  <2> HIDE DEF U
  <2> QED
    BY <1>2, FS_BoundedSetOfNaturals
<1>4. U # {}
  OBVIOUS
<1>5. PICK u \in U : \A j \in U : j <= u
  <2> HIDE DEF U
  <2> QED
    BY <1>2, <1>3, <1>4, Greatest
<1>6. PICK k \in S : k <= n /\ u = n - k
  OBVIOUS
<1>7. ASSUME NEW j \in S PROVE k <= j
  <2>1. CASE j <= n
    <3>1. n - j \in U
      BY <2>1
    <3> QED
      BY <1>5, <1>6, <2>1, <3>1
  <2> QED
    BY <1>6, <2>1
<1> QED
  BY <1>7

-----------------------------------------------------------------------------
(* Texts and events. *)

\* An event id is already in the form TrimSpace leaves it in, and is not the
\* empty string.
LEMMA TrimmedID ==
    ASSUME NEW id \in EventIDs
    PROVE  Trim(id) = id /\ id # Blank
<1>1. PICK u \in UUIDv4s : id = [core |-> u, pad |-> FALSE, cased |-> FALSE, hex |-> FALSE]
  BY DEF EventIDs, Plain, Text
<1>2. Trim(id) = id
  BY <1>1 DEF Trim, Text
<1>3. id.core = u /\ Blank.core = ""
  BY <1>1 DEF Blank, Plain, Text
<1>4. u # ""
  BY UUIDAssumption
<1> QED
  BY <1>2, <1>3, <1>4

\* The types that open a history and those that extend one are disjoint.
LEMMA TypesDiffer == Create \notin Extensions
BY DEF Create, Extensions, Update, Plain, Text

\* What AppendEntry builds from an admitted request is an event of the log's
\* type, with the request's document, predecessor and type.
LEMMA PreparedEventType ==
    ASSUME NEW req \in Requests, NEW ver \in Nat \ {0}, NEW id \in EventIDs,
           NEW now \in Times, Admissible(req, now, DevMode)
    PROVE  PreparedEvent(req, ver, id, ComputeRecordedAt(req, now, DevMode)) \in Event
<1>1. req \in Admitted /\ req.schema = EventSchema
  BY DEF Admitted, Admissible, ValidateAddEventRequest
<1>2. ComputeRecordedAt(req, now, DevMode) \in RecordingTimes
  BY <1>1 DEF ComputeRecordedAt, RecordingTimes
<1> QED
  BY <1>1, <1>2 DEF PreparedEvent, Event

-----------------------------------------------------------------------------
(* The log only grows, so what is known of an entry stays known. *)

LEMMA AppendKeepsEntries ==
    ASSUME NEW S, log \in Seq(S), NEW ev \in S, log' = Append(log, ev)
    PROVE  /\ log' \in Seq(S)
           /\ Len(log') = Len(log) + 1
           /\ \A i \in 0 .. Len(log) - 1 : EntryAt(i)' = EntryAt(i)
           /\ log'[Len(log) + 1] = ev
<1>1. /\ log' \in Seq(S)
      /\ Len(log') = Len(log) + 1
      /\ \A k \in 1 .. Len(log) : log'[k] = log[k]
      /\ log'[Len(log) + 1] = ev
  OBVIOUS
<1> QED
  BY <1>1 DEF EntryAt

\* Entries are events.
LEMMA EntryType ==
    ASSUME TypeOK, NEW i \in 0 .. Len(log) - 1
    PROVE  EntryAt(i) \in Event
BY DEF TypeOK, EntryAt


-----------------------------------------------------------------------------
(* The invariant holds initially. *)

LEMMA IdleIsWork == IdleWork \in Work
BY DEF IdleWork, Work

LEMMA InitEstablishesIInv == Init => IInv
<1> SUFFICES ASSUME Init PROVE IInv
  OBVIOUS
<1>1. TypeOK
  BY IdleIsWork DEF Init, TypeOK, InitWork, EmptyTable
<1>2. RowsMirrorLog
  BY DEF Init, RowsMirrorLog, EmptyTable
<1>3. \A w \in Workers : WorkerOK(w)
  BY DEF Init, InitWork, IdleWork, WorkerOK
<1>4. ChainsLinked /\ ReceiptsHold
  BY DEF Init, ChainsLinked, ReceiptsHold
<1> QED
  BY <1>1, <1>2, <1>3, <1>4 DEF IInv

-----------------------------------------------------------------------------
(* Steps that change one worker's locals and nothing else. *)

\* A worker in the middle of a request implies a server that is up.
LEMMA BusyMeansUp ==
    ASSUME TypeOK, NEW w \in Workers, work[w].pc # "idle"
    PROVE  mode = "up"
BY DEF TypeOK, InitWork, IdleWork

\* Such a step preserves the invariant when the new locals satisfy it.
LEMMA LocalStep ==
    ASSUME IInv, NEW w \in Workers, NEW locals \in Work, mode = "up",
           Goto(w, locals), UNCHANGED <<durable, mode, receipts>>,
           WorkerOK(w)'
    PROVE  IInv'
<1>1. work' = [work EXCEPT ![w] = locals] /\ work \in [Workers -> Work]
  BY DEF Goto, IInv, TypeOK
<1>2. UNCHANGED <<log, published, table, mode, receipts>>
  BY DEF durable
<1>3. TypeOK'
  BY <1>1, <1>2 DEF IInv, TypeOK
<1>4. RowsMirrorLog'
  BY <1>2 DEF IInv, RowsMirrorLog, EntryAt
<1>5. ASSUME NEW v \in Workers PROVE WorkerOK(v)'
  <2>1. CASE v = w
    BY <2>1
  <2>2. CASE v # w
    <3>1. work'[v] = work[v]
      BY <1>1, <2>2
    <3> QED
      BY <1>2, <3>1
         DEF IInv, WorkerOK, Extending, SawUpTo, Readable, EntryAt
  <2> QED
    BY <2>1, <2>2
<1>6. ChainsLinked' /\ ReceiptsHold'
  BY <1>2 DEF IInv, ChainsLinked, ReceiptsHold, EntryAt
<1> QED
  BY <1>3, <1>4, <1>5, <1>6 DEF IInv

\* Sending an error needs nothing of the worker.
LEMMA AnswerStep ==
    ASSUME IInv, NEW w \in Workers, NEW code \in {400, 500}, mode = "up",
           Goto(w, Answer(code)), UNCHANGED <<durable, mode, receipts>>
    PROVE  IInv'
<1>1. /\ Answer(code) \in Work
      /\ Answer(code).pc = "respond"
      /\ Answer(code).seen = {}
      /\ Answer(code).code = code
  BY DEF Answer, IdleWork, Work
<1>2. work'[w] = Answer(code)
  BY DEF Goto, IInv, TypeOK
<1>3. WorkerOK(w)'
  BY <1>1, <1>2 DEF WorkerOK
<1> QED
  BY <1>1, <1>3, LocalStep

-----------------------------------------------------------------------------
(* AddEvent, step by step. *)

\* The doc_id column of a row is the document of the entry it indexes.
LEMMA RowDocument ==
    ASSUME IInv, NEW i \in DOMAIN table
    PROVE  i \in 0 .. Len(log) - 1 /\ table[i].doc = EntryAt(i).doc
<1>1. i \in 0 .. Len(log) - 1 /\ table[i] = RowFor(EntryAt(i))
  BY DEF IInv, TypeOK, RowsMirrorLog
<1>2. PICK req \in Requests : EntryAt(i).doc = req.doc
  BY <1>1, EntryType DEF IInv, Event, Admitted
<1>3. Trim(EntryAt(i).doc) = EntryAt(i).doc
  BY <1>2, RequestsAreDecoded
<1> QED
  BY <1>1, <1>3 DEF RowFor

LEMMA LookupPreserves ==
    ASSUME IInv, NEW w \in Workers, NEW req \in Requests, Lookup(w, req)
    PROVE  IInv'
<1> DEFINE next == [IdleWork EXCEPT !.req = req, !.seen = DOMAIN table]
           opening == [next EXCEPT !.pc = "append", !.ver = 1]
           extending(i) == [next EXCEPT !.pc = "read", !.latest = i]
<1>1. mode = "up" /\ UNCHANGED <<durable, mode, receipts>>
  BY DEF Lookup, Serving
<1>2. log' = log /\ published' = published
  BY <1>1 DEF durable
<1>3. DOMAIN table \subseteq Nat /\ DOMAIN table \in SUBSET Nat
  BY DEF IInv, TypeOK
<1>4. \A j \in DOMAIN table : j < Len(log)
  BY DEF IInv, RowsMirrorLog
<1>5. CASE Opens(req) /\ Goto(w, opening)
  <2>1. /\ opening \in Work
        /\ opening.pc = "append" /\ opening.req = req /\ opening.ver = 1
        /\ opening.seen = DOMAIN table /\ opening.code = 0
    BY <1>3 DEF IdleWork, Work
  <2>2. work'[w] = opening
    BY <1>5 DEF Goto, IInv, TypeOK
  <2>3. \A j \in DOMAIN table : EntryAt(j).doc # req.doc
    BY <1>5, RowDocument DEF Opens, NoLatestIndex, IndexesByDocID
  <2>4. SawUpTo(w, -1)'
    BY <1>2, <2>1, <2>2, <2>3 DEF SawUpTo, EntryAt
  <2>5. req.type = Create
    BY <1>5 DEF Opens
  <2>6. WorkerOK(w)'
    BY <1>2, <1>4, <2>1, <2>2, <2>4, <2>5 DEF WorkerOK
  <2> HIDE DEF opening
  <2> QED
    BY <1>1, <1>5, <2>1, <2>6, LocalStep
<1>6. CASE /\ Extends(req)
           /\ \E i \in DOMAIN table :
                 IsLatestIndexByDocID(table, req.doc, i) /\ Goto(w, extending(i))
  <2>1. PICK i \in DOMAIN table :
            IsLatestIndexByDocID(table, req.doc, i) /\ Goto(w, extending(i))
    BY <1>6
  <2>2. /\ extending(i) \in Work
        /\ extending(i).pc = "read" /\ extending(i).req = req
        /\ extending(i).latest = i
        /\ extending(i).seen = DOMAIN table /\ extending(i).code = 0
    BY <1>3 DEF IdleWork, Work
  <2>3. work'[w] = extending(i)
    BY <2>1 DEF Goto, IInv, TypeOK
  <2>4. i \in 0 .. Len(log) - 1 /\ EntryAt(i).doc = req.doc
    BY <2>1, RowDocument DEF IsLatestIndexByDocID, IsGreatest, IndexesByDocID
  <2>5. \A j \in DOMAIN table : EntryAt(j).doc = req.doc => j <= i
    BY <2>1, RowDocument DEF IsLatestIndexByDocID, IsGreatest, IndexesByDocID
  <2>6. req.type \in Extensions
    BY <1>6 DEF Extends
  <2>7. SawUpTo(w, i)'
    BY <1>2, <2>2, <2>3, <2>5 DEF SawUpTo, EntryAt
  <2>8. Extending(w)'
    BY <1>2, <2>2, <2>3, <2>4, <2>6, <2>7 DEF Extending, EntryAt
  <2>9. WorkerOK(w)'
    BY <1>2, <1>4, <2>2, <2>3, <2>8 DEF WorkerOK
  <2> HIDE DEF extending
  <2> QED
    BY <1>1, <2>1, <2>2, <2>9, LocalStep
<1>7. CASE Goto(w, Answer(400))
  BY <1>1, <1>7, AnswerStep
<1> QED
  BY <1>5, <1>6, <1>7 DEF Lookup

\* The locals of a worker whose head has been accepted.
LEMMA AcceptedWork ==
    ASSUME NEW r \in Work, NEW v \in Nat
    PROVE  LET a == [r EXCEPT !.pc = "append", !.ver = v + 1]
           IN  /\ a \in Work
               /\ a.pc = "append" /\ a.req = r.req /\ a.latest = r.latest
               /\ a.ver = v + 1
               /\ a.seen = r.seen /\ a.code = r.code
               /\ a.idx = r.idx /\ a.ev = r.ev
<1> DEFINE ver == v + 1
           b == [r EXCEPT !.pc = "append"]
           a == [r EXCEPT !.pc = "append", !.ver = ver]
<1>1. ver \in Nat
  OBVIOUS
<1> HIDE DEF ver
<1>2. b \in Work
  BY DEF Work
<1>3. a = [b EXCEPT !.ver = ver]
  BY DEF Work
<1> HIDE DEF b
<1>4. [b EXCEPT !.ver = ver] \in Work
  BY <1>1, <1>2 DEF Work
<1>5. /\ a.pc = "append" /\ a.req = r.req /\ a.latest = r.latest
      /\ a.ver = ver
      /\ a.seen = r.seen /\ a.code = r.code
      /\ a.idx = r.idx /\ a.ev = r.ev
  BY <1>1 DEF Work
<1> QED
  BY <1>3, <1>4, <1>5 DEF ver

LEMMA ReadHeadPreserves ==
    ASSUME IInv, NEW w \in Workers, ReadHead(w)
    PROVE  IInv'
<1> DEFINE i == work[w].latest
           req == work[w].req
           accepted == [work[w] EXCEPT !.pc = "append", !.ver = EntryAt(i).ver + 1]
<1>1. work[w].pc = "read" /\ UNCHANGED <<durable, mode, receipts>>
  BY DEF ReadHead
<1>2. log' = log /\ published' = published
  BY <1>1 DEF durable
<1>3. mode = "up"
  BY <1>1, BusyMeansUp DEF IInv
<1>4. WorkerOK(w) /\ work[w] \in Work /\ TypeOK
  BY DEF IInv, TypeOK
<1>5. req \in Requests /\ Extending(w)
  BY <1>1, <1>4 DEF WorkerOK
<1>6. CASE Readable(i) /\ ExtendsHead(req, i) /\ Goto(w, accepted)
  <2>1. EntryAt(i) \in Event /\ EntryAt(i).ver \in Nat /\ EntryAt(i).id \in EventIDs
    BY <1>4, <1>5, EntryType DEF Extending, Event
  <2>2. /\ accepted \in Work
        /\ accepted.pc = "append" /\ accepted.req = req /\ accepted.latest = i
        /\ accepted.ver = EntryAt(i).ver + 1
        /\ accepted.seen = work[w].seen /\ accepted.code = work[w].code
        /\ accepted.idx = work[w].idx /\ accepted.ev = work[w].ev
    BY <1>4, <2>1, AcceptedWork
  <2>3. work'[w] = accepted
    BY <1>6, <1>4 DEF Goto, TypeOK
  <2>4. req.prev = EntryAt(i).id /\ req.prev # None
    <3>1. req.prev = Trim(req.prev)
      BY <1>5, <1>6, RequestsAreDecoded DEF ExtendsHead, TrimOptional
    <3> QED
      BY <1>6, <2>1, <3>1, TrimmedID DEF ExtendsHead
  <2> HIDE DEF accepted
  <2>5. Extending(w)'
    BY <1>2, <1>5, <2>2, <2>3 DEF Extending, SawUpTo, EntryAt
  <2>6. WorkerOK(w)'
    BY <1>2, <1>4, <1>5, <1>6, <2>2, <2>3, <2>4, <2>5
       DEF WorkerOK, Readable, EntryAt
  <2> QED
    BY <1>1, <1>3, <1>6, <2>2, <2>6, LocalStep
<1>7. CASE Goto(w, Answer(400))
  BY <1>1, <1>3, <1>7, AnswerStep
<1> QED
  BY <1>6, <1>7 DEF ReadHead

\* What a worker knows survives the growth of the log and of its published
\* prefix.
LEMMA GrowthKeepsWorker ==
    ASSUME TypeOK, NEW v \in Workers, WorkerOK(v), work'[v] = work[v],
           Len(log') \in Nat, Len(log') >= Len(log),
           published' \in Nat, published' >= published,
           \A i \in 0 .. Len(log) - 1 : EntryAt(i)' = EntryAt(i)
    PROVE  WorkerOK(v)'
<1>1. work[v] \in Work /\ work[v].seen \subseteq Nat /\ Len(log) \in Nat
  BY DEF TypeOK, Work
<1>2. \A j \in work[v].seen : j \in 0 .. Len(log) - 1
  BY <1>1 DEF WorkerOK
<1>3. \A i : SawUpTo(v, i) => SawUpTo(v, i)'
  BY <1>2 DEF SawUpTo
<1>4. Extending(v) => /\ Extending(v)'
                      /\ EntryAt(work[v].latest)' = EntryAt(work[v].latest)
  <2> SUFFICES ASSUME Extending(v)
               PROVE  /\ Extending(v)'
                      /\ EntryAt(work[v].latest)' = EntryAt(work[v].latest)
    OBVIOUS
  <2>1. work[v].latest \in 0 .. Len(log) - 1
    BY DEF Extending
  <2>2. EntryAt(work[v].latest)' = EntryAt(work[v].latest)
    BY <2>1 DEF EntryAt
  <2> QED
    BY <1>1, <1>3, <2>1, <2>2 DEF Extending, EntryAt
<1>5. work[v].latest \in Nat /\ Readable(work[v].latest) => Readable(work[v].latest)'
  BY DEF Readable, TypeOK
<1>6. SawUpTo(v, -1) => SawUpTo(v, -1)'
  BY <1>3
<1>7. \A j \in work'[v].seen : j < Len(log')
  BY <1>1, <1>2
<1>8. work[v].pc = "read" => work[v].req \in Requests /\ Extending(v)'
  BY <1>4 DEF WorkerOK
<1>9. ASSUME work[v].pc = "append"
      PROVE  /\ work[v].req \in Requests
             /\ \/ /\ work[v].req.type = Create
                   /\ work[v].ver = 1
                   /\ SawUpTo(v, -1)'
                \/ /\ Extending(v)'
                   /\ Readable(work[v].latest)'
                   /\ work[v].req.prev # None
                   /\ work[v].req.prev = EntryAt(work[v].latest)'.id
                   /\ work[v].ver = EntryAt(work[v].latest)'.ver + 1
  <2>1. Extending(v) => work[v].latest \in Nat
    BY DEF Extending
  <2> QED
    BY <1>4, <1>5, <1>6, <1>9, <2>1 DEF WorkerOK
<1>10. ASSUME work[v].pc = "index" \/ work[v].code = 200
       PROVE  /\ work[v].idx \in 0 .. Len(log') - 1
              /\ work[v].ev = EntryAt(work[v].idx)'
  <2>1. work[v].idx \in 0 .. Len(log) - 1 /\ work[v].ev = EntryAt(work[v].idx)
    BY <1>10 DEF WorkerOK
  <2> QED
    BY <1>1, <2>1 DEF EntryAt
<1> QED
  BY <1>7, <1>8, <1>9, <1>10 DEF WorkerOK, EntryAt, Readable

\* The locals of a worker that has appended ev at index i, before and after
\* the insert.
LEMMA EventWork ==
    ASSUME NEW ev \in Event, NEW i \in Nat
    PROVE  /\ Indexing(ev, i) \in Work /\ AnswerOK(ev, i) \in Work
           /\ Indexing(ev, i).pc = "index" /\ AnswerOK(ev, i).pc = "respond"
           /\ Indexing(ev, i).ev = ev /\ AnswerOK(ev, i).ev = ev
           /\ Indexing(ev, i).idx = i /\ AnswerOK(ev, i).idx = i
           /\ Indexing(ev, i).seen = {} /\ AnswerOK(ev, i).seen = {}
           /\ Indexing(ev, i).code = 0
BY DEF Indexing, AnswerOK, IdleWork, Answer, Work

LEMMA AppendEntryPreserves ==
    ASSUME IInv, NEW w \in Workers, AppendEntry(w)
    PROVE  IInv'
<1> DEFINE req == work[w].req
           Prepared(now, id) ==
               PreparedEvent(req, work[w].ver, id, ComputeRecordedAt(req, now, DevMode))
<1>1. /\ work[w].pc = "append"
      /\ UNCHANGED <<published, table, mode, receipts>>
  BY DEF AppendEntry
<1>2. PICK now \in Times, id \in EventIDs \ UsedIDs :
          /\ Admissible(req, now, DevMode)
          /\ log' = Append(log, Prepared(now, id))
          /\ Goto(w, Indexing(Prepared(now, id), Len(log)))
  BY DEF AppendEntry
<1> DEFINE ev == Prepared(now, id)
           indexing == Indexing(ev, Len(log))
<1>3. TypeOK /\ work[w] \in Work /\ WorkerOK(w) /\ Len(log) \in Nat /\ mode = "up"
  BY <1>1, BusyMeansUp DEF IInv, TypeOK
<1>4. req \in Requests
  BY <1>1, <1>3 DEF WorkerOK
<1>5. work[w].ver \in Nat \ {0}
  <2>1. CASE work[w].ver = 1
    BY <2>1
  <2>2. CASE /\ Extending(w)
             /\ work[w].ver = EntryAt(work[w].latest).ver + 1
    <3>1. EntryAt(work[w].latest).ver \in Nat
      BY <1>3, <2>2, EntryType DEF Extending, Event
    <3> QED
      BY <2>2, <3>1
  <2> QED
    BY <1>1, <1>3, <2>1, <2>2 DEF WorkerOK
<1>6. ev \in Event
  BY <1>2, <1>4, <1>5, PreparedEventType
<1>7. ev.type = req.type /\ ev.doc = req.doc /\ ev.prev = req.prev /\ ev.id = id
  BY DEF PreparedEvent
<1> HIDE DEF Prepared, ev
<1>8. /\ log' \in Seq(Event)
      /\ Len(log') = Len(log) + 1
      /\ \A i \in 0 .. Len(log) - 1 : EntryAt(i)' = EntryAt(i)
      /\ log'[Len(log) + 1] = ev
  <2>1. log \in Seq(Event) /\ log' = Append(log, ev)
    BY <1>2, <1>3 DEF TypeOK, ev
  <2> QED
    BY <1>6, <2>1, AppendKeepsEntries
<1>9. /\ indexing \in Work
      /\ indexing.pc = "index" /\ indexing.ev = ev /\ indexing.idx = Len(log)
      /\ indexing.seen = {} /\ indexing.code = 0
  BY <1>3, <1>6, EventWork
<1>10. work' = [work EXCEPT ![w] = indexing]
  BY <1>2 DEF Goto, ev
<1> HIDE DEF indexing
<1>11. TypeOK'
  BY <1>1, <1>3, <1>8, <1>9, <1>10 DEF TypeOK
<1>12. RowsMirrorLog'
  <2>1. \A i \in DOMAIN table : i \in 0 .. Len(log) - 1 /\ table[i] = RowFor(EntryAt(i))
    BY <1>3 DEF IInv, TypeOK, RowsMirrorLog
  <2> QED
    BY <1>1, <1>3, <1>8, <2>1 DEF RowsMirrorLog
<1>13. ASSUME NEW v \in Workers PROVE WorkerOK(v)'
  <2>1. CASE v = w
    <3>1. work'[v] = indexing
      BY <1>3, <1>10, <2>1 DEF TypeOK
    <3> QED
      BY <1>3, <1>8, <1>9, <3>1 DEF WorkerOK, EntryAt
  <2>2. CASE v # w
    <3>1. work'[v] = work[v] /\ WorkerOK(v)
      BY <1>10, <2>2, <1>3 DEF TypeOK, IInv
    <3> QED
      BY <1>1, <1>3, <1>8, <3>1, GrowthKeepsWorker DEF TypeOK
  <2> QED
    BY <2>1, <2>2
<1>14. ChainsLinked'
  <2>1. ASSUME NEW i \in 0 .. Len(log) - 1 PROVE EntryAt(i).id # id
    <3>1. i + 1 \in DOMAIN log /\ log[i + 1] = EntryAt(i)
      BY <1>3 DEF TypeOK, EntryAt
    <3> QED
      BY <1>2, <3>1 DEF UsedIDs
  <2>2. \/ ev.type = Create /\ ev.prev \in {None, Blank}
        \/ /\ ev.type \in Extensions
           /\ \E j \in 0 .. Len(log) - 1 : ev.prev = EntryAt(j).id
    <3>1. CASE req.type = Create
      BY <1>2, <1>7, <3>1, TypesDiffer
         DEF Admissible, ValidateAddEventRequest, ValidForType, Extensions, ev
    <3>2. CASE Extending(w) /\ req.prev = EntryAt(work[w].latest).id
      BY <1>7, <3>2 DEF Extending, ev
    <3> QED
      BY <1>1, <1>3, <3>1, <3>2 DEF WorkerOK
  <2>3. ASSUME NEW i, i = Len(log) PROVE EntryAt(i)' = ev
    BY <1>8, <2>3 DEF EntryAt
  <2>8. ev.id = id
    BY <1>7 DEF ev
  <2>4. \A i \in 0 .. Len(log') - 1 : i \in 0 .. Len(log) - 1 \/ i = Len(log)
    BY <1>3, <1>8
  <2>5. ASSUME NEW i \in 0 .. Len(log') - 1, NEW j \in 0 .. Len(log') - 1,
               EntryAt(i)'.id = EntryAt(j)'.id
        PROVE  i = j
    <3>1. CASE i \in 0 .. Len(log) - 1 /\ j \in 0 .. Len(log) - 1
      BY <1>8, <2>5, <3>1 DEF IInv, ChainsLinked
    <3>2. CASE i = Len(log) /\ j \in 0 .. Len(log) - 1
      <4>1. EntryAt(i)'.id = id /\ EntryAt(j)'.id # id
        BY <1>8, <2>1, <2>3, <2>8, <3>2
      <4> QED
        BY <4>1, <2>5
    <3>3. CASE i \in 0 .. Len(log) - 1 /\ j = Len(log)
      <4>1. EntryAt(j)'.id = id /\ EntryAt(i)'.id # id
        BY <1>8, <2>1, <2>3, <2>8, <3>3
      <4> QED
        BY <4>1, <2>5
    <3> QED
      BY <2>4, <3>1, <3>2, <3>3
  <2>6. ASSUME NEW i \in 0 .. Len(log') - 1
        PROVE  \/ EntryAt(i)'.type = Create /\ EntryAt(i)'.prev \in {None, Blank}
               \/ /\ EntryAt(i)'.type \in Extensions
                  /\ \E j \in 0 .. i - 1 : EntryAt(i)'.prev = EntryAt(j)'.id
    <3>1. CASE i = Len(log)
      <4>1. EntryAt(i)' = ev
        BY <2>3, <3>1
      <4>2. \A j \in 0 .. i - 1 : EntryAt(j)' = EntryAt(j)
        BY <1>8, <3>1
      <4> QED
        BY <2>2, <3>1, <4>1, <4>2
    <3>2. CASE i \in 0 .. Len(log) - 1
      <4>1. EntryAt(i)' = EntryAt(i)
        BY <1>8, <3>2
      <4>2. \/ EntryAt(i).type = Create /\ EntryAt(i).prev \in {None, Blank}
            \/ /\ EntryAt(i).type \in Extensions
               /\ \E j \in 0 .. i - 1 : EntryAt(i).prev = EntryAt(j).id
        BY <3>2 DEF IInv, ChainsLinked
      <4>3. \A j \in 0 .. i - 1 : EntryAt(j)' = EntryAt(j)
        BY <1>3, <1>8, <3>2
      <4> QED
        BY <4>1, <4>2, <4>3
    <3> QED
      BY <2>4, <3>1, <3>2
  <2> QED
    BY <2>5, <2>6 DEF ChainsLinked
<1>15. ReceiptsHold'
  BY <1>1, <1>3, <1>8 DEF IInv, ReceiptsHold
<1> QED
  BY <1>11, <1>12, <1>13, <1>14, <1>15 DEF IInv

\* The insert puts the worker's own event at the worker's own index.
LEMMA AddEntryMirrors ==
    ASSUME IInv, NEW i \in 0 .. Len(log) - 1
    PROVE  LET t == AddEntry(table, i, RowFor(EntryAt(i)))
           IN  /\ DOMAIN t \subseteq Nat
               /\ \A j \in DOMAIN t : j < Len(log) /\ t[j] = RowFor(EntryAt(j))
<1>1. /\ DOMAIN table \subseteq Nat
      /\ \A j \in DOMAIN table : j < Len(log) /\ table[j] = RowFor(EntryAt(j))
  BY DEF IInv, TypeOK, RowsMirrorLog
<1>2. LET t == WithRow(table, i, RowFor(EntryAt(i)))
      IN  /\ DOMAIN t \subseteq Nat
          /\ \A j \in DOMAIN t : j < Len(log) /\ t[j] = RowFor(EntryAt(j))
  <2> DEFINE t == WithRow(table, i, RowFor(EntryAt(i)))
  <2>1. DOMAIN t = DOMAIN table \cup {i} /\ i \in Nat /\ i < Len(log)
    BY DEF WithRow, IInv, TypeOK
  <2>2. \A j \in DOMAIN t : t[j] = IF j = i THEN RowFor(EntryAt(i)) ELSE table[j]
    BY DEF WithRow
  <2> QED
    BY <1>1, <2>1, <2>2
<1> QED
  BY <1>1, <1>2 DEF AddEntry

LEMMA IndexEntryPreserves ==
    ASSUME IInv, NEW w \in Workers, IndexEntry(w)
    PROVE  IInv'
<1> DEFINE ev == work[w].ev
           i == work[w].idx
<1>1. work[w].pc = "index" /\ UNCHANGED <<log, published, mode, receipts>>
  BY DEF IndexEntry
<1>2. TypeOK /\ mode = "up" /\ WorkerOK(w) /\ work[w] \in Work
  BY <1>1, BusyMeansUp DEF IInv, TypeOK
<1>3. i \in 0 .. Len(log) - 1 /\ ev = EntryAt(i) /\ Len(log) \in Nat
  BY <1>1, <1>2 DEF WorkerOK, TypeOK
<1>4. ev \in Event /\ i \in Nat
  BY <1>2, <1>3, EntryType
<1>5. work' = [work EXCEPT ![w] = AnswerOK(ev, i)]
  BY DEF IndexEntry, Goto
<1>6. /\ DOMAIN table' \subseteq Nat
      /\ \A j \in DOMAIN table' : j < Len(log) /\ table'[j] = RowFor(EntryAt(j))
  <2>1. CASE table' = AddEntry(table, i, RowFor(ev))
    BY <1>3, <2>1, AddEntryMirrors
  <2>2. CASE table' = table
    BY <2>2 DEF IInv, TypeOK, RowsMirrorLog
  <2> QED
    BY <2>1, <2>2 DEF IndexEntry, IndexFromFuture
<1>7. TypeOK'
  BY <1>1, <1>2, <1>4, <1>5, <1>6, EventWork DEF TypeOK
<1>8. RowsMirrorLog'
  BY <1>1, <1>6 DEF RowsMirrorLog, EntryAt
<1>9. ASSUME NEW v \in Workers PROVE WorkerOK(v)'
  <2>1. CASE v = w
    <3>1. work'[v] = AnswerOK(ev, i)
      BY <1>2, <1>5, <2>1 DEF TypeOK
    <3>2. /\ work'[v].pc = "respond" /\ work'[v].ev = ev /\ work'[v].idx = i
          /\ work'[v].seen = {}
      BY <1>4, <3>1, EventWork
    <3> QED
      BY <1>1, <1>3, <3>2 DEF WorkerOK, EntryAt
  <2>2. CASE v # w
    <3>1. work'[v] = work[v] /\ WorkerOK(v)
      BY <1>2, <1>5, <2>2 DEF TypeOK, IInv
    <3> QED
      BY <1>1, <1>2, <1>3, <3>1, GrowthKeepsWorker DEF TypeOK, EntryAt
  <2> QED
    BY <2>1, <2>2
<1>10. ChainsLinked' /\ ReceiptsHold'
  BY <1>1 DEF IInv, ChainsLinked, ReceiptsHold, EntryAt
<1> QED
  BY <1>7, <1>8, <1>9, <1>10 DEF IInv

LEMMA RespondPreserves ==
    ASSUME IInv, NEW w \in Workers, Respond(w)
    PROVE  IInv'
<1>1. work[w].pc = "respond" /\ UNCHANGED <<log, published, table, mode>>
  BY DEF Respond, durable
<1>2. TypeOK /\ mode = "up" /\ WorkerOK(w) /\ work[w] \in Work
  BY <1>1, BusyMeansUp DEF IInv, TypeOK
<1>3. work' = [work EXCEPT ![w] = IdleWork]
  BY DEF Respond, Goto
<1>4. receipts' = receipts \/
      /\ work[w].code = 200
      /\ receipts' = receipts \cup {[index |-> work[w].idx, event |-> work[w].ev]}
  BY DEF Respond
<1>5. work[w].code = 200 =>
        /\ work[w].idx \in 0 .. Len(log) - 1 /\ work[w].idx \in Nat
        /\ work[w].ev = EntryAt(work[w].idx) /\ work[w].ev \in Event
  BY <1>2, EntryType DEF WorkerOK
<1>6. receipts' \subseteq [index : Nat, event : Event]
  BY <1>2, <1>4, <1>5 DEF TypeOK
<1>7. TypeOK'
  BY <1>1, <1>2, <1>3, <1>6, IdleIsWork DEF TypeOK
<1>8. ReceiptsHold'
  BY <1>1, <1>4, <1>5 DEF IInv, ReceiptsHold, EntryAt
<1>9. RowsMirrorLog' /\ ChainsLinked'
  BY <1>1 DEF IInv, RowsMirrorLog, ChainsLinked, EntryAt
<1>10. ASSUME NEW v \in Workers PROVE WorkerOK(v)'
  <2>1. CASE v = w
    BY <1>2, <1>3, <2>1 DEF TypeOK, WorkerOK, IdleWork
  <2>2. CASE v # w
    <3>1. work'[v] = work[v] /\ WorkerOK(v)
      BY <1>2, <1>3, <2>2 DEF TypeOK, IInv
    <3> QED
      BY <1>1, <1>2, <3>1, GrowthKeepsWorker DEF TypeOK, EntryAt
  <2> QED
    BY <2>1, <2>2
<1> QED
  BY <1>7, <1>8, <1>9, <1>10 DEF IInv

\* Every step of AddEvent.
LEMMA AddEventStepPreserves ==
    ASSUME IInv, NEW w \in Workers, AddEventStep(w)
    PROVE  IInv'
<1>1. ASSUME NEW req \in Requests, Lookup(w, req) PROVE IInv'
  BY <1>1, LookupPreserves
<1>2. CASE LookupFails(w)
  BY <1>2, AnswerStep DEF LookupFails, Serving
<1>3. CASE ReadHead(w)
  BY <1>3, ReadHeadPreserves
<1>4. CASE ReadHeadFails(w)
  BY <1>4, AnswerStep, BusyMeansUp DEF ReadHeadFails, IInv
<1>5. CASE AppendEntry(w)
  BY <1>5, AppendEntryPreserves
<1>6. CASE PrepareRefuses(w)
  BY <1>6, AnswerStep, BusyMeansUp DEF PrepareRefuses, IInv
<1>7. CASE AppendFails(w)
  BY <1>7, AnswerStep, BusyMeansUp DEF AppendFails, IInv
<1>8. CASE IndexEntry(w)
  BY <1>8, IndexEntryPreserves
<1>9. CASE Respond(w)
  BY <1>9, RespondPreserves
<1> QED
  BY <1>1, <1>2, <1>3, <1>4, <1>5, <1>6, <1>7, <1>8, <1>9 DEF AddEventStep

-----------------------------------------------------------------------------
(* The process and its appender. *)

LEMMA PublishPreserves ==
    ASSUME IInv, PublishCheckpoint
    PROVE  IInv'
<1>1. /\ UNCHANGED <<log, table, mode, work, receipts>>
      /\ published' \in published + 1 .. Len(log)
  BY DEF PublishCheckpoint
<1>2. TypeOK /\ Len(log) \in Nat /\ published \in Nat
  BY DEF IInv, TypeOK
<1>3. TypeOK'
  BY <1>1, <1>2 DEF TypeOK, InitWork
<1>4. ASSUME NEW v \in Workers PROVE WorkerOK(v)'
  BY <1>1, <1>2, GrowthKeepsWorker DEF IInv, EntryAt
<1>5. RowsMirrorLog' /\ ChainsLinked' /\ ReceiptsHold'
  BY <1>1 DEF IInv, RowsMirrorLog, ChainsLinked, ReceiptsHold, EntryAt
<1> QED
  BY <1>3, <1>4, <1>5 DEF IInv

LEMMA LifePreserves ==
    ASSUME IInv, Start \/ CheckAlignment \/ Crash
    PROVE  IInv'
<1>1. /\ UNCHANGED <<log, published, table, receipts>>
      /\ mode' \in {"down", "starting", "up"}
      /\ work' = InitWork
  BY DEF Start, CheckAlignment, Crash, durable, IInv, TypeOK
<1>2. TypeOK'
  BY <1>1, IdleIsWork DEF IInv, TypeOK, InitWork
<1>3. ASSUME NEW v \in Workers PROVE WorkerOK(v)'
  BY <1>1 DEF WorkerOK, InitWork, IdleWork
<1>4. RowsMirrorLog' /\ ChainsLinked' /\ ReceiptsHold'
  BY <1>1 DEF IInv, RowsMirrorLog, ChainsLinked, ReceiptsHold, EntryAt
<1> QED
  BY <1>2, <1>3, <1>4 DEF IInv

LEMMA StutterPreserves ==
    ASSUME IInv, UNCHANGED vars
    PROVE  IInv'
BY DEF vars, IInv, TypeOK, RowsMirrorLog, WorkerOK, Extending, SawUpTo,
       Readable, ChainsLinked, ReceiptsHold, EntryAt, InitWork

LEMMA NextPreserves ==
    ASSUME IInv, [Next]_vars
    PROVE  IInv'
BY AddEventStepPreserves, PublishPreserves, LifePreserves, StutterPreserves
   DEF Next

-----------------------------------------------------------------------------
(* Theorems. *)

\* The inductive invariant of the server: types, rows, workers, chains,
\* receipts, through every interleaving, failure and restart.
THEOREM Invariance == Spec => []IInv
<1>1. Init => IInv
  BY InitEstablishesIInv
<1>2. IInv /\ [Next]_vars => IInv'
  BY NextPreserves
<1> QED
  BY <1>1, <1>2, PTL DEF Spec

\* The state is always well formed.
THEOREM TypeCorrect == Spec => []TypeOK
BY Invariance, PTL DEF IInv

\* A row of the index never describes any entry but the one at its own
\* log_index, whatever AddEvent calls, failed inserts and crashes interleave.
THEOREM RowsNeverLie == Spec => []RowsMirrorLog
BY Invariance, PTL DEF IInv

-----------------------------------------------------------------------------
(* Forks. *)

\* The only step that changes the log is a worker's own append.
LEMMA OnlyAppendGrows ==
    ASSUME IInv, Next, log' # log
    PROVE  \E w \in Workers : AppendEntry(w)
BY DEF Next, AddEventStep, Lookup, LookupFails, ReadHead, ReadHeadFails,
       PrepareRefuses, AppendFails, IndexEntry, Respond, PublishCheckpoint,
       Start, CheckAlignment, Crash, durable

\* What an append puts at the end of the log names as its predecessor the
\* version before, of the same document.
LEMMA AppendedFollows ==
    ASSUME IInv, NEW w \in Workers, AppendEntry(w)
    PROVE  \E ev \in Event :
              /\ log' = Append(log, ev)
              /\ \/ ev.prev \in {None, Blank}
                 \/ \E j \in 0 .. Len(log) - 1 :
                       /\ ev.prev = EntryAt(j).id
                       /\ ev.doc = EntryAt(j).doc
                       /\ ev.ver = EntryAt(j).ver + 1
<1> DEFINE req == work[w].req
           Prepared(now, id) ==
               PreparedEvent(req, work[w].ver, id, ComputeRecordedAt(req, now, DevMode))
<1>1. TypeOK /\ work[w].pc = "append" /\ WorkerOK(w)
  BY DEF AppendEntry, IInv
<1>2. PICK now \in Times, id \in EventIDs \ UsedIDs :
          /\ Admissible(req, now, DevMode)
          /\ log' = Append(log, Prepared(now, id))
  BY DEF AppendEntry
<1>3. /\ Prepared(now, id).prev = req.prev /\ Prepared(now, id).doc = req.doc
      /\ Prepared(now, id).ver = work[w].ver
  BY DEF PreparedEvent
<1>4. req \in Requests
  BY <1>1 DEF WorkerOK
<1>5. CASE req.type = Create /\ work[w].ver = 1
  <2>1. req.prev \in {None, Blank}
    BY <1>2, <1>5, TypesDiffer DEF Admissible, ValidateAddEventRequest, ValidForType, Extensions
  <2>2. work[w].ver \in Nat \ {0}
    BY <1>5
  <2>3. Prepared(now, id) \in Event
    BY <1>2, <1>4, <2>2, PreparedEventType
  <2> QED
    BY <1>2, <1>3, <2>1, <2>3
<1>6. CASE /\ Extending(w)
           /\ req.prev = EntryAt(work[w].latest).id
           /\ work[w].ver = EntryAt(work[w].latest).ver + 1
  <2> DEFINE l == work[w].latest
  <2>1. l \in 0 .. Len(log) - 1 /\ EntryAt(l).doc = req.doc
    BY <1>6 DEF Extending
  <2>2. EntryAt(l).ver \in Nat
    BY <1>1, <2>1, EntryType DEF Event
  <2>3. work[w].ver \in Nat \ {0}
    BY <1>6, <2>2
  <2>4. Prepared(now, id) \in Event
    BY <1>2, <1>4, <2>3, PreparedEventType
  <2> QED
    BY <1>2, <1>3, <1>6, <2>1, <2>4
<1> QED
  BY <1>1, <1>5, <1>6 DEF WorkerOK

LEMMA LogGrows ==
    ASSUME IInv, [Next]_vars
    PROVE  /\ Len(log) \in Nat /\ Len(log') \in Nat /\ Len(log) <= Len(log')
           /\ \A i \in 0 .. Len(log) - 1 : EntryAt(i)' = EntryAt(i)
<1>1. log \in Seq(Event) /\ Len(log) \in Nat
  BY DEF IInv, TypeOK
<1>2. CASE log' = log
  BY <1>1, <1>2 DEF EntryAt
<1>3. CASE log' # log
  <2>1. PICK w \in Workers : AppendEntry(w)
    BY <1>3, OnlyAppendGrows DEF vars
  <2>2. PICK ev \in Event : log' = Append(log, ev)
    BY <2>1, AppendedFollows
  <2> QED
    BY <1>1, <2>2, AppendKeepsEntries
<1> QED
  BY <1>2, <1>3

\* Two workers never change in the same append.
LEMMA AppendChangesOne ==
    ASSUME IInv, NEW v \in Workers, NEW w \in Workers, AppendEntry(v),
           work'[w] # work[w]
    PROVE  v = w
BY DEF AppendEntry, Goto, IInv, TypeOK

\* The event a worker appends diverges from no event its lookup saw.
LEMMA AppendDivergesFromNothingSeen ==
    ASSUME IInv, NEW w \in Workers, AppendEntry(w), NEW i \in work[w].seen
    PROVE  ~Diverge(EntryAt(i), log'[Len(log')])
<1> DEFINE req == work[w].req
           e == log'[Len(log')]
<1>1. work[w].pc = "append" /\ WorkerOK(w) /\ work[w] \in Work /\ log \in Seq(Event)
  BY DEF AppendEntry, IInv, TypeOK
<1>2. i \in 0 .. Len(log) - 1
  BY <1>1 DEF WorkerOK, Work
<1>3. e.type = req.type /\ e.doc = req.doc /\ e.prev = req.prev
  <2>1. PICK ev : /\ log' = Append(log, ev)
                  /\ ev.type = req.type /\ ev.doc = req.doc /\ ev.prev = req.prev
    BY DEF AppendEntry, PreparedEvent
  <2> QED
    BY <1>1, <2>1
<1> HIDE DEF e
<1> SUFFICES ASSUME Diverge(EntryAt(i), e) PROVE FALSE
  BY DEF e
<1>4. EntryAt(i).doc = req.doc
  BY <1>3 DEF Diverge
<1>5. CASE SawUpTo(w, -1)
  BY <1>2, <1>4, <1>5 DEF SawUpTo
<1>6. CASE /\ Extending(w)
           /\ req.prev # None
           /\ req.prev = EntryAt(work[w].latest).id
  <2> DEFINE l == work[w].latest
  <2>1. l \in 0 .. Len(log) - 1 /\ i <= l /\ req.type \in Extensions
    BY <1>4, <1>6 DEF Extending, SawUpTo
  <2>2. EntryAt(l).id \in EventIDs
    BY <2>1, EntryType DEF IInv, Event
  <2>3. req.prev # Blank
    BY <1>6, <2>2, TrimmedID
  <2>4. EntryAt(i).prev = req.prev
    <3>1. {EntryAt(i).type, e.type} # {Create}
      BY <1>3, <2>1, TypesDiffer
    <3> QED
      BY <1>3, <3>1 DEF Diverge
  <2>5. PICK j \in 0 .. i - 1 : EntryAt(i).prev = EntryAt(j).id
    BY <1>2, <1>6, <2>3, <2>4 DEF IInv, ChainsLinked
  <2>6. j \in 0 .. Len(log) - 1 /\ EntryAt(j).id = EntryAt(l).id
    BY <1>2, <1>6, <2>1, <2>4, <2>5
  <2>7. j = l
    BY <2>1, <2>6 DEF IInv, ChainsLinked
  <2> QED
    BY <1>2, <2>1, <2>5, <2>7
<1> QED
  BY <1>1, <1>5, <1>6 DEF WorkerOK

\* A document forks only past events that the second writer's lookup could
\* not see in the index: lookups, appends and inserts of any number of
\* workers, failed inserts and restarts included.
THEOREM ForksNeedUnindexedEvents == Spec => ForksOnlyPastUnindexedEvents
<1> DEFINE A == \A w \in Workers :
                   work[w].pc = "append" /\ log' # log /\ work'[w] # work[w] =>
                      \A i \in work[w].seen : ~Diverge(EntryAt(i), log'[Len(log')])
<1>1. IInv /\ [Next]_vars => [A]_vars
  <2> SUFFICES ASSUME IInv, Next, NEW w \in Workers, log' # log,
                      work'[w] # work[w], NEW i \in work[w].seen
               PROVE  ~Diverge(EntryAt(i), log'[Len(log')])
    BY DEF vars
  <2>1. PICK v \in Workers : AppendEntry(v)
    BY OnlyAppendGrows
  <2>2. AppendEntry(w)
    BY <2>1, AppendChangesOne
  <2> QED
    BY <2>2, AppendDivergesFromNothingSeen
<1> QED
  BY <1>1, Invariance, PTL DEF Spec, ForksOnlyPastUnindexedEvents

-----------------------------------------------------------------------------
(* The startup check. *)

\* The digest stored for an admitted event is already in canonical form.
LEMMA CanonicalDocHash ==
    ASSUME NEW ev \in Event
    PROVE  FixCase(Trim(Trim(DocHash(ev)))) = DocHash(ev)
<1>1. PICK req \in Admitted : ev.hash = CanonicalPayloadHash(req)
  BY DEF Event
<1>2. CASE ev.hash = None
  BY <1>2 DEF DocHash, FixCase, Trim, Blank, Plain, Text
<1>3. CASE ev.hash # None
  <2> DEFINE v == FixCase(Trim(req.hash.value))
  <2>1. req.hash # None /\ v.hex /\ v.core \in Digests
    <3>1. req.hash # None
      BY <1>1, <1>3 DEF CanonicalPayloadHash
    <3>2. ValidPayloadHash(req.hash)
      BY <3>1 DEF Admitted, ValidateAddEventRequest, ValidForType
    <3> QED
      BY <3>1, <3>2 DEF ValidPayloadHash, ParsePayloadHashValue
  <2> HIDE DEF v
  <2>2. ev.hash.value = Hex(Plain(v.core))
    <3>1. ParsePayloadHashValue(req.hash.value) = Plain(v.core)
      BY <2>1 DEF ParsePayloadHashValue, v
    <3> QED
      BY <1>1, <2>1, <3>1 DEF CanonicalPayloadHash
  <2>3. DocHash(ev) = Plain(v.core)
    BY <1>3, <2>1, <2>2
       DEF DocHash, ParsePayloadHashValue, Hex, Plain, FixCase, Trim, Text
  <2> QED
    BY <2>3 DEF FixCase, Trim, Plain, Text
<1> QED
  BY <1>2, <1>3

\* The row AddEvent inserts for an event passes every column comparison of
\* the startup check.
LEMMA OwnRowMatches ==
    ASSUME NEW ev \in Event
    PROVE  RowMatchesEntry(RowFor(ev), ev)
<1>1. \A t : Trim(Trim(t)) = Trim(t)
  BY DEF Trim, Text
<1> QED
  BY <1>1, CanonicalDocHash DEF RowMatchesEntry, RowFor

\* Rows are finitely many.
LEMMA FiniteTable ==
    ASSUME IInv
    PROVE  IsFiniteSet(DOMAIN table)
<1>1. DOMAIN table \in SUBSET (0 .. Len(log) - 1) /\ Len(log) \in Nat
  BY DEF IInv, TypeOK, RowsMirrorLog
<1>2. IsFiniteSet(0 .. Len(log) - 1)
  BY <1>1, FS_Interval
<1> QED
  BY <1>1, <1>2, FS_Subset

\* The check never refuses an index with exactly the rows of the published
\* entries: no restart is blocked for a table AddEvent filled completely.
THEOREM CheckAdmitsAlignedIndex == Spec => []AlignedIndexIsAdmitted
<1>1. IInv => AlignedIndexIsAdmitted
  <2> SUFFICES ASSUME IInv, DOMAIN table = 0 .. published - 1
               PROVE  ValidateAlignedWithLog(table, log, published)
    BY DEF AlignedIndexIsAdmitted
  <2>1. published \in 0 .. Len(log) /\ Len(log) \in Nat
    BY DEF IInv, TypeOK
  <2>2. CheckRowCount(table, published)
    BY <2>1, FS_Interval DEF CheckRowCount
  <2>3. ASSUME NEW i \in TailStart(published) .. published - 1
        PROVE  i \in DOMAIN table /\ RowMatchesEntry(table[i], log[i + 1])
    <3>1. i \in 0 .. published - 1
      BY <2>1, TailCountAssumption DEF TailStart
    <3>2. table[i] = RowFor(EntryAt(i)) /\ EntryAt(i) \in Event
      BY <2>1, <3>1, EntryType DEF IInv, RowsMirrorLog
    <3> QED
      BY <3>1, <3>2, OwnRowMatches DEF EntryAt
  <2> QED
    BY <2>2, <2>3 DEF ValidateAlignedWithLog, CheckTailEntries
<1> QED
  BY <1>1, Invariance, PTL

\* A log no longer than the tail is checked exactly: then the row count and
\* the tail leave room for no other index.
THEOREM CheckIsExactOnShortLogs == Spec => []ShortLogIsCheckedExactly
<1>1. IInv => ShortLogIsCheckedExactly
  <2> SUFFICES ASSUME IInv, published <= TailCount,
                      ValidateAlignedWithLog(table, log, published)
               PROVE  DOMAIN table = 0 .. published - 1
    BY DEF ShortLogIsCheckedExactly
  <2>1. published \in Nat
    BY DEF IInv, TypeOK
  <2>2. \A i \in 0 .. published - 1 : i \in DOMAIN table
    <3>1. CASE published = 0
      BY <3>1
    <3>2. CASE published # 0
      <4>1. TailStart(published) = 0
        BY <2>1, TailCountAssumption DEF TailStart
      <4> QED
        BY <3>2, <4>1 DEF ValidateAlignedWithLog, CheckTailEntries
    <3> QED
      BY <3>1, <3>2
  <2>3. Cardinality(0 .. published - 1) = published
    BY <2>1, FS_Interval
  <2>4. Cardinality(DOMAIN table) = published
    BY DEF ValidateAlignedWithLog, CheckRowCount
  <2> DEFINE dom == DOMAIN table
             prefix == 0 .. published - 1
  <2>5. prefix \in SUBSET dom /\ IsFiniteSet(dom) /\ Cardinality(dom) = Cardinality(prefix)
    BY <2>2, <2>3, <2>4, FiniteTable
  <2> HIDE DEF dom, prefix
  <2>6. dom = prefix
    BY <2>5, FS_Subset
  <2> QED
    BY <2>6 DEF dom, prefix
<1> QED
  BY <1>1, Invariance, PTL

-----------------------------------------------------------------------------
(* Refinement. *)

LEMMA AppendNotarizes ==
    ASSUME IInv, NEW w \in Workers, AppendEntry(w)
    PROVE  Abstract!Notarize
<1> DEFINE req == work[w].req
<1>1. /\ work[w].pc = "append" /\ WorkerOK(w) /\ log \in Seq(Event)
      /\ UNCHANGED <<published, receipts>>
  BY DEF AppendEntry, IInv, TypeOK
<1>2. PICK ev : /\ log' = Append(log, ev)
                /\ ev.type = req.type /\ ev.doc = req.doc /\ ev.prev = req.prev
                /\ ev.ver = work[w].ver
  BY DEF AppendEntry, PreparedEvent
<1>3. Len(log') = Len(log) + 1 /\ log'[Len(log')] = ev
  BY <1>1, <1>2
<1>4. CASE req.type = Create /\ work[w].ver = 1
  BY <1>1, <1>2, <1>3, <1>4 DEF Abstract!Notarize, Abstract!Added
<1>5. CASE /\ Extending(w)
           /\ Readable(work[w].latest)
           /\ req.prev = EntryAt(work[w].latest).id
           /\ work[w].ver = EntryAt(work[w].latest).ver + 1
  <2> DEFINE l == work[w].latest
  <2>1. l \in 0 .. published - 1 /\ req.type # Create
    BY <1>5, TypesDiffer DEF Extending, Readable, IInv, TypeOK
  <2>2. EntryAt(l).doc = ev.doc /\ EntryAt(l).id = ev.prev /\ ev.ver = EntryAt(l).ver + 1
    BY <1>2, <1>5 DEF Extending
  <2>3. Abstract!Follows(ev, l)
    BY <2>2 DEF Abstract!Follows, Abstract!EventAt, EntryAt
  <2> QED
    BY <1>1, <1>2, <1>3, <2>1, <2>3 DEF Abstract!Notarize, Abstract!Added
<1> QED
  BY <1>1, <1>4, <1>5 DEF WorkerOK

LEMMA RespondGivesReceipt ==
    ASSUME IInv, NEW w \in Workers, Respond(w)
    PROVE  Abstract!Next \/ UNCHANGED Abstract!vars
<1>1. UNCHANGED <<log, published>> /\ WorkerOK(w)
  BY DEF Respond, durable, IInv
<1>2. CASE work[w].code = 200
  <2> DEFINE i == work[w].idx
  <2>1. i \in 0 .. Len(log) - 1 /\ work[w].ev = log[i + 1]
    BY <1>1, <1>2 DEF WorkerOK, EntryAt
  <2>2. receipts' = receipts \cup {[index |-> i, event |-> log[i + 1]]}
    BY <1>2, <2>1 DEF Respond
  <2>3. Abstract!GiveReceipt(i)
    BY <1>1, <2>1, <2>2 DEF Abstract!GiveReceipt, Abstract!EventAt
  <2> QED
    BY <2>1, <2>3 DEF Abstract!Next
<1>3. CASE work[w].code # 200
  BY <1>1, <1>3 DEF Respond, Abstract!vars
<1> QED
  BY <1>2, <1>3

LEMMA StepRefines ==
    ASSUME IInv, [Next]_vars
    PROVE  [Abstract!Next]_(Abstract!vars)
<1>1. CASE \E w \in Workers : AppendEntry(w)
  BY <1>1, AppendNotarizes DEF Abstract!Next
<1>2. CASE \E w \in Workers : Respond(w)
  BY <1>2, RespondGivesReceipt
<1>3. CASE PublishCheckpoint
  BY <1>3 DEF PublishCheckpoint, Abstract!Next, Abstract!Publish
<1>4. CASE \E w \in Workers :
              \/ \E req \in Requests : Lookup(w, req)
              \/ LookupFails(w) \/ ReadHead(w) \/ ReadHeadFails(w)
              \/ PrepareRefuses(w) \/ AppendFails(w) \/ IndexEntry(w)
  <2>1. UNCHANGED <<log, published, receipts>>
    BY <1>4 DEF Lookup, LookupFails, ReadHead, ReadHeadFails, PrepareRefuses,
                AppendFails, IndexEntry, durable
  <2> QED
    BY <2>1 DEF Abstract!vars
<1>5. CASE Start \/ CheckAlignment \/ Crash \/ UNCHANGED vars
  BY <1>5 DEF Start, CheckAlignment, Crash, durable, vars, Abstract!vars
<1> QED
  BY <1>1, <1>2, <1>3, <1>4, <1>5 DEF Next, AddEventStep

\* The server, with its workers, its index, its failures and its restarts,
\* implements the abstract transparency log.
THEOREM Refinement == Spec => RefinesTransparencyLog
<1>1. Init => Abstract!Init
  BY DEF Init, Abstract!Init
<1>2. IInv /\ [Next]_vars => [Abstract!Next]_(Abstract!vars)
  BY StepRefines
<1> QED
  BY <1>1, <1>2, Invariance, PTL DEF Spec, Abstract!Spec, RefinesTransparencyLog
=============================================================================
