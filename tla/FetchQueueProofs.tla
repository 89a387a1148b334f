-------------------------- MODULE FetchQueueProofs --------------------------
(***************************************************************************)
(* TLAPS proofs about FetchQueue, for every number of workers, entries,    *)
(* retries, faults and bounds.                                             *)
(***************************************************************************)
EXTENDS FetchQueue, FiniteSetTheorems, SequenceTheorems, TLAPS

(***************************************************************************)
(* The three ways the local buffer is cut and rebuilt stay sequences over  *)
(* the same elements.                                                      *)
(***************************************************************************)

(* pop_due takes a prefix of the buffer. *)
LEMMA PrefixSeq ==
    ASSUME NEW S, NEW s \in Seq(S), NEW k \in 0..Len(s)
    PROVE  SubSeq(s, 1, k) \in Seq(S)
BY SubSeqProperties

(* LocalDelayedBuffer.add puts one item at its place in the order. *)
LEMMA InsertSeq ==
    ASSUME NEW S, NEW s \in Seq(S), NEW c \in S, NEW i \in 0..Len(s)
    PROVE  SubSeq(s, 1, i) \o <<c>> \o SubSeq(s, i + 1, Len(s)) \in Seq(S)
<1>1. SubSeq(s, 1, i) \in Seq(S)
  BY SubSeqProperties
<1>2. SubSeq(s, i + 1, Len(s)) \in Seq(S)
  BY SubSeqProperties
<1>3. <<c>> \in Seq(S)
  OBVIOUS
<1> QED
  BY <1>1, <1>2, <1>3, ConcatProperties

(* pop_due keeps a subsequence of the buffer. *)
LEMMA AscendingSeq ==
    ASSUME NEW S, NEW s \in Seq(S), NEW I \in SUBSET (1..Len(s)),
           NEW h \in Ascending(I)
    PROVE  [i \in DOMAIN h |-> s[h[i]]] \in Seq(S)
<1>1. IsFiniteSet(1..Len(s))
  <2>1. Len(s) \in Int
    BY LenProperties
  <2> QED
    BY <2>1, FS_Interval
<1>2. IsFiniteSet(I)
  BY <1>1, FS_Subset
<1> DEFINE n == Cardinality(I)
<1>3. n \in Nat
  BY <1>2, FS_CardinalityType
<1>4. h \in [1..n -> I]
  BY DEF Ascending
<1> HIDE DEF n
<1>5. \A i \in 1..n : s[h[i]] \in S
  BY <1>4, ElementOfSeq
<1>6. [i \in 1..n |-> s[h[i]]] \in Seq(S)
  BY <1>3, <1>5
<1> QED
  BY <1>4, <1>6

(* The initial state has the shapes. *)
LEMMA InitType == Init => TypeOK
BY ConstantsAssumption DEF Init, TypeOK, Msg, Location, Command

(***************************************************************************)
(* What is delayed, and what is handed to the engine, is of the same kind  *)
(* as the command that was examined.                                       *)
(***************************************************************************)
LEMMA BuildOrDelayKeeps ==
    ASSUME NEW S, NEW w \in Worker, NEW c \in S, S \subseteq Command,
           buffer \in [Worker -> Seq(S)], flight \in [Worker -> SUBSET S],
           pipe \in [Worker -> Item \cup {NoItem}],
           BuildOrDelay(w, c)
    PROVE  /\ buffer' \in [Worker -> Seq(S)]
           /\ flight' \in [Worker -> SUBSET S]
           /\ pipe' \in [Worker -> Item \cup {NoItem}]
<1>1. CASE BuildRequest(w, c)
  BY <1>1 DEF BuildRequest
<1>2. CASE TerminalSkip(w, c)
  BY <1>2 DEF TerminalSkip, EnterPipeline, Item, FactKind, Command
<1>3. CASE DelayCommand(w, c)
  <2>1. CASE buffer' = buffer
    BY <1>3, <2>1 DEF DelayCommand
  <2>2. ASSUME NEW i \in 0..Len(buffer[w]),
               buffer' = [buffer EXCEPT ![w] =
                   SubSeq(@, 1, i) \o <<c>> \o SubSeq(@, i + 1, Len(@))]
        PROVE  buffer' \in [Worker -> Seq(S)]
    BY <2>2, InsertSeq
  <2> QED
    BY <1>3, <2>1, <2>2 DEF DelayCommand
<1> QED
  BY <1>1, <1>2, <1>3 DEF BuildOrDelay

(* pop_due splits the buffer and invents nothing. *)
LEMMA PopDueKeeps ==
    ASSUME NEW S, NEW w \in Worker,
           buffer \in [Worker -> Seq(S)], due \in [Worker -> Seq(S)],
           PopDue(w)
    PROVE  /\ buffer' \in [Worker -> Seq(S)]
           /\ due' \in [Worker -> Seq(S)]
<1> DEFINE items == buffer[w]
<1>1. items \in Seq(S) /\ Len(items) \in Nat
  BY LenProperties
<1>2. PICK k \in 1..Len(items) :
        \E same \in SUBSET {SubSeq(items, 1, k)[i].msg : i \in 1..k} :
        \E h \in Ascending({i \in (k + 1)..Len(items) :
                                items[i].msg \notin same}) :
          /\ due' = [due EXCEPT ![w] = SubSeq(items, 1, k)]
          /\ buffer' = [buffer EXCEPT ![w] = [i \in DOMAIN h |-> items[h[i]]]]
  BY DEF PopDue
<1>3. PICK same :
        \E h \in Ascending({i \in (k + 1)..Len(items) :
                                items[i].msg \notin same}) :
          /\ due' = [due EXCEPT ![w] = SubSeq(items, 1, k)]
          /\ buffer' = [buffer EXCEPT ![w] = [i \in DOMAIN h |-> items[h[i]]]]
  BY <1>2
<1> DEFINE Kept == {i \in (k + 1)..Len(items) : items[i].msg \notin same}
<1>4. PICK h \in Ascending(Kept) :
        /\ due' = [due EXCEPT ![w] = SubSeq(items, 1, k)]
        /\ buffer' = [buffer EXCEPT ![w] = [i \in DOMAIN h |-> items[h[i]]]]
  BY <1>3
<1>5. SubSeq(items, 1, k) \in Seq(S)
  BY <1>1, PrefixSeq
<1>6. Kept \in SUBSET (1..Len(items))
  BY <1>1
<1>7. [i \in DOMAIN h |-> items[h[i]]] \in Seq(S)
  <2> HIDE DEF Kept, items
  <2> QED
    BY <1>1, <1>4, <1>6, AscendingSeq
<1> QED
  BY <1>4, <1>5, <1>7

(* An item in the pipeline is a record, whatever its stage. *)
LEMMA PipeItem ==
    ASSUME TypeOK, NEW w \in Worker, ~Free(w)
    PROVE  pipe[w] \in Item
BY DEF TypeOK, Free

(* Only a busy pipeline is at a stage. *)
LEMMA AtStageBusy ==
    ASSUME NEW w, NEW stage \in {"store", "publish", "ack"}, AtStage(w, stage)
    PROVE  ~Free(w)
BY DEF AtStage, Free, NoItem

(* Moving an item on keeps it an item. *)
LEMMA ItemMoves ==
    ASSUME NEW x \in Item, NEW stage \in {"store", "publish", "ack"}
    PROVE  /\ [x EXCEPT !.stage = stage] \in Item
           /\ [x EXCEPT !.kind = "storage_failed", !.stage = stage] \in Item
BY DEF Item, FactKind

(* The entries of one XREADGROUP reply are commands. *)
LEMMA FreshEntries ==
    ASSUME TypeOK, NEW k \in 1..ReadCount, Deliver(k)
    PROVE  {[msg |-> m, deliveries |-> 1] : m \in (cursor + 1)..(cursor + k)}
             \subseteq Command
<1>1. /\ cursor \in Nat /\ k \in Nat
      /\ cursor + k <= N
  BY ConstantsAssumption DEF TypeOK, Deliver
<1>2. (cursor + 1)..(cursor + k) \subseteq Msg
  BY <1>1, ConstantsAssumption DEF Msg
<1> QED
  BY <1>2 DEF Command

(* Every step keeps the shapes. *)
LEMMA TypeStep == TypeOK /\ [Next]_vars => TypeOK'
<1> SUFFICES ASSUME TypeOK, [Next]_vars
             PROVE  TypeOK'
  OBVIOUS
<1> USE ConstantsAssumption DEF TypeOK, redis, effects, loop
<1>0. 1..cursor \subseteq Msg
  BY DEF Msg
<1>1. ASSUME NEW w \in Worker, Start(w)
      PROVE  TypeOK'
  BY <1>1 DEF Start, Goto, Location
<1>2. ASSUME NEW w \in Worker, Crash(w)
      PROVE  TypeOK'
  BY <1>2, EmptySeq DEF Crash, Gone, Goto, Location
<1>3. ASSUME NEW w \in Worker, RequestShutdown(w)
      PROVE  TypeOK'
  BY <1>3 DEF RequestShutdown
<1>4. ASSUME NEW w \in Worker, EngineStops(w)
      PROVE  TypeOK'
  BY <1>4, EmptySeq DEF EngineStops, Gone, Goto, Location
<1>5. ASSUME NEW w \in Worker, LoopTop(w)
      PROVE  TypeOK'
  BY <1>5 DEF LoopTop, Goto, Location
<1>6. ASSUME NEW w \in Worker, PopDue(w)
      PROVE  TypeOK'
  <2>1. buffer' \in [Worker -> Seq(Command)] /\ due' \in [Worker -> Seq(Command)]
    BY <1>6, PopDueKeeps
  <2> QED
    BY <1>6, <2>1 DEF PopDue
<1>7. ASSUME NEW w \in Worker, DrainNext(w)
      PROVE  TypeOK'
  <2>1. Head(due[w]) \in Command /\ Tail(due[w]) \in Seq(Command)
    BY <1>7, HeadTailProperties DEF DrainNext
  <2>2. /\ buffer' \in [Worker -> Seq(Command)]
        /\ flight' \in [Worker -> SUBSET Command]
        /\ pipe' \in [Worker -> Item \cup {NoItem}]
    BY <1>7, <2>1, BuildOrDelayKeeps DEF DrainNext
  <2> QED
    BY <1>7, <2>1, <2>2 DEF DrainNext
<1>8. ASSUME NEW w \in Worker, DrainDone(w)
      PROVE  TypeOK'
  BY <1>8 DEF DrainDone, Goto, Location
<1>9. ASSUME NEW w \in Worker, LeaveBatch(w)
      PROVE  TypeOK'
  BY <1>9 DEF LeaveBatch, Goto, Location
<1>10. ASSUME NEW w \in Worker, DiscardInvalid(w)
      PROVE  TypeOK'
  <2>1. PICK e \in entries[w] :
          \/ /\ pel' = pel \ {e.msg}
             /\ entries' = [entries EXCEPT ![w] = @ \ {e}]
             /\ UNCHANGED pc
          \/ /\ pel' \in {pel, pel \ {e.msg}}
             /\ entries' = [entries EXCEPT ![w] = {}]
             /\ Goto(w, "ended")
    BY <1>10 DEF DiscardInvalid
  <2>2. pel' \subseteq 1..cursor
    BY <2>1
  <2>3. entries' \in [Worker -> SUBSET Command]
    <3>1. CASE entries' = [entries EXCEPT ![w] = @ \ {e}]
      BY <3>1
    <3>2. CASE entries' = [entries EXCEPT ![w] = {}]
      BY <3>2
    <3> QED
      BY <2>1, <3>1, <3>2
  <2>4. pc' \in [Worker -> Location]
    BY <2>1 DEF Goto, Location
  <2> QED
    BY <1>10, <2>2, <2>3, <2>4 DEF DiscardInvalid
<1>11. ASSUME NEW w \in Worker, ConsumeEntry(w)
      PROVE  TypeOK'
  <2>1. PICK e \in entries[w] :
          entries' = [entries EXCEPT ![w] = @ \ {e}] /\ BuildOrDelay(w, e)
    BY <1>11 DEF ConsumeEntry
  <2>2. e \in Command
    BY <2>1
  <2>3. /\ buffer' \in [Worker -> Seq(Command)]
        /\ flight' \in [Worker -> SUBSET Command]
        /\ pipe' \in [Worker -> Item \cup {NoItem}]
    BY <2>1, <2>2, BuildOrDelayKeeps
  <2>4. seen' \in [Worker -> Nat]
    BY <1>11 DEF ConsumeEntry
  <2> QED
    BY <1>11, <2>1, <2>3, <2>4 DEF ConsumeEntry
<1>r. ASSUME NEW w \in Worker, BuildRaises(w)
      PROVE  TypeOK'
  BY <1>r, EmptySeq DEF BuildRaises, Goto, Location
<1>12. ASSUME NEW w \in Worker, NothingToClaim(w)
      PROVE  TypeOK'
  BY <1>12 DEF NothingToClaim, Goto, Location, AfterEmptyClaim
<1>13. ASSUME NEW w \in Worker, ReclaimPending(w)
      PROVE  TypeOK'
  <2>1. PICK S \in SUBSET pel :
          /\ times' = [m \in Msg |-> IF m \in S THEN Bump(times[m]) ELSE times[m]]
          /\ \/ claimed' = [claimed EXCEPT ![w] = S] /\ Goto(w, "parse")
             \/ UNCHANGED claimed /\ AfterEmptyClaim(w)
    BY <1>13 DEF ReclaimPending
  <2>2. times' \in [Msg -> 0..DeliveryCap]
    BY <2>1 DEF Bump
  <2>3. claimed' \in [Worker -> SUBSET Msg] /\ pc' \in [Worker -> Location]
    BY <1>0, <2>1 DEF Goto, Location, AfterEmptyClaim
  <2> QED
    BY <1>13, <2>2, <2>3 DEF ReclaimPending
<1>14. ASSUME NEW w \in Worker, ParseClaim(w)
      PROVE  TypeOK'
  <2>1. \A m \in claimed[w], lost \in SUBSET claimed[w] :
          [msg |-> m, deliveries |-> DeliveryCount(m, lost)] \in Command
    BY DEF DeliveryCount, Command
  <2>2. CASE UNCHANGED entries
    BY <1>14, <2>2 DEF ParseClaim, Goto, Location
  <2>3. ASSUME NEW lost \in SUBSET claimed[w],
               entries' = [entries EXCEPT ![w] =
                   {[msg |-> m, deliveries |-> DeliveryCount(m, lost)] :
                       m \in claimed[w]}]
        PROVE  TypeOK'
    <3>1. entries' \in [Worker -> SUBSET Command]
      BY <2>1, <2>3
    <3> QED
      BY <1>14, <3>1 DEF ParseClaim, Goto, Location
  <2> QED
    BY <1>14, <2>2, <2>3 DEF ParseClaim
<1>15. ASSUME NEW k \in Nat, Deliver(k)
       PROVE  /\ cursor' \in 0..N
              /\ pel' \subseteq 1..cursor'
              /\ times' \in [Msg -> 0..DeliveryCap]
  BY <1>15 DEF Deliver
<1>16. ASSUME NEW w \in Worker, ReadNew(w)
      PROVE  TypeOK'
  <2>1. PICK k \in 1..ReadCount :
          /\ Deliver(k)
          /\ \/ UNCHANGED entries /\ Goto(w, "ended")
             \/ /\ Goto(w, "batch")
                /\ entries' = [entries EXCEPT ![w] =
                     {[msg |-> m, deliveries |-> 1] :
                         m \in (cursor + 1)..(cursor + k)}]
    BY <1>16 DEF ReadNew
  <2>2. {[msg |-> m, deliveries |-> 1] : m \in (cursor + 1)..(cursor + k)}
          \subseteq Command
    BY <2>1, FreshEntries, Zenon
  <2>3. entries' \in [Worker -> SUBSET Command]
    BY <2>1, <2>2
  <2>4. pc' \in [Worker -> Location]
    BY <2>1 DEF Goto, Location
  <2>5. /\ cursor' \in 0..N
        /\ pel' \subseteq 1..cursor'
        /\ times' \in [Msg -> 0..DeliveryCap]
    BY <1>15, <2>1
  <2> QED
    BY <1>16, <2>3, <2>4, <2>5 DEF ReadNew
<1>17. ASSUME NEW w \in Worker, ReadNothing(w)
      PROVE  TypeOK'
  BY <1>17 DEF ReadNothing, Goto, Location
<1>18. ASSUME NEW w \in Worker, ReadFails(w)
      PROVE  TypeOK'
  <2>1. PICK k \in 0..ReadCount : Deliver(k)
    BY <1>18 DEF ReadFails
  <2> QED
    BY <1>15, <1>18, <2>1 DEF ReadFails, Goto, Location
<1>19. ASSUME NEW w \in Worker, PutObject(w)
      PROVE  TypeOK'
  <2>1. pipe[w] \in Item
    BY <1>19, PipeItem, AtStageBusy DEF PutObject
  <2>2. pipe' \in [Worker -> Item \cup {NoItem}]
    <3>1. /\ [pipe[w] EXCEPT !.stage = "publish"] \in Item
          /\ [pipe[w] EXCEPT !.kind = "storage_failed", !.stage = "publish"] \in Item
      BY <2>1, ItemMoves
    <3>2. \/ pipe' = [pipe EXCEPT ![w] = [pipe[w] EXCEPT !.stage = "publish"]]
          \/ pipe' = [pipe EXCEPT ![w] = [pipe[w] EXCEPT !.kind = "storage_failed",
                                                         !.stage = "publish"]]
      BY <1>19, <2>1 DEF PutObject, Item
    <3> QED
      BY <3>1, <3>2
  <2>3. objects' \subseteq Msg
    BY <1>19, <2>1 DEF PutObject, Item
  <2> QED
    BY <1>19, <2>2, <2>3 DEF PutObject
<1>20. ASSUME NEW w \in Worker, PublishSucceeds(w)
      PROVE  TypeOK'
  <2>1. pipe[w] \in Item
    BY <1>20, PipeItem, AtStageBusy DEF PublishSucceeds
  <2>2. pipe' \in [Worker -> Item \cup {NoItem}]
    <3>1. [pipe[w] EXCEPT !.stage = "ack"] \in Item
      BY <2>1, ItemMoves
    <3>2. pipe' = [pipe EXCEPT ![w] = [pipe[w] EXCEPT !.stage = "ack"]]
      BY <1>20 DEF PublishSucceeds
    <3> QED
      BY <3>1, <3>2
  <2>3. facts' \subseteq Fact
    BY <1>20, <2>1 DEF PublishSucceeds, Item, Fact
  <2> QED
    BY <1>20, <2>2, <2>3 DEF PublishSucceeds
<1>21. ASSUME NEW w \in Worker, PublishFails(w)
      PROVE  TypeOK'
  <2>1. pipe[w] \in Item
    BY <1>21, PipeItem, AtStageBusy DEF PublishFails
  <2>2. facts' \subseteq Fact
    BY <1>21, <2>1 DEF PublishFails, Item, Fact
  <2>3. pipe' \in [Worker -> Item \cup {NoItem}]
    BY <1>21 DEF PublishFails
  <2> QED
    BY <1>21, <2>2, <2>3 DEF PublishFails
<1>22. ASSUME NEW w \in Worker, AckSucceeds(w)
      PROVE  TypeOK'
  BY <1>22 DEF AckSucceeds
<1>23. ASSUME NEW w \in Worker, AckFails(w)
      PROVE  TypeOK'
  BY <1>23 DEF AckFails
<1>24. ASSUME NEW w \in Worker, NEW c \in flight[w], Respond(w, c)
      PROVE  TypeOK'
  <2>1. c \in Command
    OBVIOUS
  <2>2. \A kind \in FactKind, stage \in {"store", "publish", "ack"} :
          [msg |-> c.msg, kind |-> kind, stage |-> stage] \in Item
    BY <2>1 DEF Command, Item
  <2>3. pipe' \in [Worker -> Item \cup {NoItem}]
    BY <1>24, <2>2 DEF Respond, FetchFailed, FetchSucceeded, EnterPipeline, FactKind
  <2>4. flight' \in [Worker -> SUBSET Command]
    BY <1>24 DEF Respond
  <2> QED
    BY <1>24, <2>3, <2>4 DEF Respond
<1>25. CASE UNCHANGED vars
  BY <1>25 DEF vars
<1> QED
  BY <1>1, <1>2, <1>3, <1>4, <1>5, <1>6, <1>7, <1>8, <1>9, <1>10, <1>11,
     <1>r, <1>12, <1>13, <1>14, <1>16, <1>17, <1>18, <1>19, <1>20, <1>21, <1>22,
     <1>23, <1>24, <1>25 DEF Next, Process, Loop, Read, Pipeline

(* Type correctness of every reachable state. *)
THEOREM TypeCorrect == Spec => []TypeOK
BY InitType, TypeStep, PTL DEF Spec

(***************************************************************************)
(* IInv is inductive.  Three frame lemmas say which actions touch the      *)
(* queue, the facts and the objects at all; the rest of each proof is      *)
(* about those few.                                                        *)
(***************************************************************************)

(* XREADGROUP, in either of its actions. *)
Reads(w) == ReadNew(w) \/ ReadFails(w)
(* Where an entry can leave the pending list. *)
Acks(w) == DiscardInvalid(w) \/ AckSucceeds(w) \/ AckFails(w)
(* Where a fact can appear. *)
Publishes(w) == PublishSucceeds(w) \/ PublishFails(w)

(* Only reads and XACKs move the cursor or touch the pending entries. *)
LEMMA QueueFrame ==
    ASSUME [Next]_vars,
           \A w \in Worker : ~Reads(w) /\ ~Acks(w)
    PROVE  UNCHANGED <<cursor, pel>>
<1> USE DEF redis, effects, loop
<1>1. ASSUME NEW w \in Worker, Process(w)
      PROVE  UNCHANGED <<cursor, pel>>
  BY <1>1 DEF Process, Start, Crash, RequestShutdown, EngineStops, Gone
<1>2. ASSUME NEW w \in Worker, Loop(w)
      PROVE  UNCHANGED <<cursor, pel>>
  BY <1>2 DEF Loop, LoopTop, PopDue, DrainNext, DrainDone, LeaveBatch,
              ConsumeEntry, BuildRaises, Acks
<1>3. ASSUME NEW w \in Worker, Read(w)
      PROVE  UNCHANGED <<cursor, pel>>
  BY <1>3 DEF Read, NothingToClaim, ReclaimPending, ParseClaim, ReadNothing, Reads
<1>4. ASSUME NEW w \in Worker, Pipeline(w)
      PROVE  UNCHANGED <<cursor, pel>>
  BY <1>4 DEF Pipeline, PutObject, PublishSucceeds, PublishFails, Acks
<1>5. ASSUME NEW w \in Worker, NEW c \in flight[w], Respond(w, c)
      PROVE  UNCHANGED <<cursor, pel>>
  BY <1>5 DEF Respond
<1>6. CASE UNCHANGED vars
  BY <1>6 DEF vars
<1> QED
  BY <1>1, <1>2, <1>3, <1>4, <1>5, <1>6 DEF Next

(* Facts are only ever added, and only by a publish. *)
LEMMA FactsFrame ==
    ASSUME [Next]_vars, \A w \in Worker : ~Publishes(w)
    PROVE  UNCHANGED facts
<1> USE DEF redis, effects, loop
<1>1. ASSUME NEW w \in Worker, Process(w)
      PROVE  UNCHANGED facts
  BY <1>1 DEF Process, Start, Crash, RequestShutdown, EngineStops, Gone
<1>2. ASSUME NEW w \in Worker, Loop(w)
      PROVE  UNCHANGED facts
  BY <1>2 DEF Loop, LoopTop, PopDue, DrainNext, DrainDone, LeaveBatch,
              DiscardInvalid, ConsumeEntry, BuildRaises
<1>3. ASSUME NEW w \in Worker, Read(w)
      PROVE  UNCHANGED facts
  BY <1>3 DEF Read, NothingToClaim, ReclaimPending, ParseClaim, ReadNew,
              ReadNothing, ReadFails
<1>4. ASSUME NEW w \in Worker, Pipeline(w)
      PROVE  UNCHANGED facts
  BY <1>4 DEF Pipeline, PutObject, AckSucceeds, AckFails, Publishes
<1>5. ASSUME NEW w \in Worker, NEW c \in flight[w], Respond(w, c)
      PROVE  UNCHANGED facts
  BY <1>5 DEF Respond
<1>6. CASE UNCHANGED vars
  BY <1>6 DEF vars
<1> QED
  BY <1>1, <1>2, <1>3, <1>4, <1>5, <1>6 DEF Next

(* Objects are only ever added, and only by an upload. *)
LEMMA ObjectsFrame ==
    ASSUME [Next]_vars, \A w \in Worker : ~PutObject(w)
    PROVE  UNCHANGED objects
<1> USE DEF redis, effects, loop
<1>1. ASSUME NEW w \in Worker, Process(w)
      PROVE  UNCHANGED objects
  BY <1>1 DEF Process, Start, Crash, RequestShutdown, EngineStops, Gone
<1>2. ASSUME NEW w \in Worker, Loop(w)
      PROVE  UNCHANGED objects
  BY <1>2 DEF Loop, LoopTop, PopDue, DrainNext, DrainDone, LeaveBatch,
              DiscardInvalid, ConsumeEntry, BuildRaises
<1>3. ASSUME NEW w \in Worker, Read(w)
      PROVE  UNCHANGED objects
  BY <1>3 DEF Read, NothingToClaim, ReclaimPending, ParseClaim, ReadNew,
              ReadNothing, ReadFails
<1>4. ASSUME NEW w \in Worker, Pipeline(w)
      PROVE  UNCHANGED objects
  BY <1>4 DEF Pipeline, PublishSucceeds, PublishFails, AckSucceeds, AckFails
<1>5. ASSUME NEW w \in Worker, NEW c \in flight[w], Respond(w, c)
      PROVE  UNCHANGED objects
  BY <1>5 DEF Respond
<1>6. CASE UNCHANGED vars
  BY <1>6 DEF vars
<1> QED
  BY <1>1, <1>2, <1>3, <1>4, <1>5, <1>6 DEF Next

(* What each of these few actions does to the shared state. *)
LEMMA ReadsEffect ==
    ASSUME TypeOK, NEW w \in Worker, Reads(w)
    PROVE  /\ UNCHANGED <<facts, objects>>
           /\ cursor' \in Nat /\ cursor <= cursor'
           /\ pel' = pel \cup ((cursor + 1)..cursor')
<1>1. PICK k \in 0..ReadCount : Deliver(k)
  BY ConstantsAssumption DEF Reads, ReadNew, ReadFails
<1> QED
  BY <1>1, ConstantsAssumption
     DEF TypeOK, Deliver, Reads, ReadNew, ReadFails, effects

(* An XACK removes one entry: an undecodable one or one with a fact. *)
LEMMA AcksEffect ==
    ASSUME TypeOK, PipelineInOrder, NEW w \in Worker, Acks(w)
    PROVE  /\ UNCHANGED <<cursor, facts, objects>>
           /\ \E m \in Msg :
                /\ m \in Invalid \/ \E f \in facts : f.msg = m
                /\ pel' \in {pel, pel \ {m}}
<1>1. CASE DiscardInvalid(w)
  <2>1. PICK e \in entries[w] :
          e.msg \in Invalid /\ pel' \in {pel, pel \ {e.msg}}
    BY <1>1 DEF DiscardInvalid
  <2>2. e.msg \in Msg
    BY <2>1, ConstantsAssumption
  <2> QED
    BY <1>1, <2>1, <2>2 DEF DiscardInvalid, effects
<1>2. CASE AckSucceeds(w) \/ AckFails(w)
  <2>1. AtStage(w, "ack") /\ pipe[w].msg \in Msg
    BY <1>2, PipeItem, AtStageBusy DEF AckSucceeds, AckFails, Item
  <2>2. \E f \in facts : f.msg = pipe[w].msg
    BY <2>1 DEF PipelineInOrder
  <2> QED
    BY <1>2, <2>1, <2>2 DEF AckSucceeds, AckFails, effects
<1> QED
  BY <1>1, <1>2 DEF Acks

(* An XACK leaves the cursor alone. *)
LEMMA AcksKeepCursor ==
    ASSUME NEW w \in Worker, Acks(w)
    PROVE  cursor' = cursor
BY DEF Acks, DiscardInvalid, AckSucceeds, AckFails

(* A publish adds at most the fact of the item in the pipeline. *)
LEMMA PublishesEffect ==
    ASSUME TypeOK, NEW w \in Worker, Publishes(w)
    PROVE  /\ UNCHANGED <<cursor, pel, objects>>
           /\ AtStage(w, "publish") /\ pipe[w] \in Item
           /\ facts' \in {facts,
                  facts \cup {[msg |-> pipe[w].msg, kind |-> pipe[w].kind]}}
<1>1. AtStage(w, "publish")
  BY DEF Publishes, PublishSucceeds, PublishFails
<1>2. pipe[w] \in Item
  BY <1>1, PipeItem, AtStageBusy
<1> QED
  BY <1>1, <1>2 DEF Publishes, PublishSucceeds, PublishFails, redis

(* NoLostCommand: a read adds entries as pending, an XACK needs the fact. *)
LEMMA NoLostStep == IInv /\ [Next]_vars => NoLostCommand'
<1> SUFFICES ASSUME IInv, [Next]_vars, NEW m \in 1..cursor'
             PROVE  (m \in pel \/ m \in Invalid \/ \E f \in facts : f.msg = m)'
  BY DEF NoLostCommand
<1> USE DEF IInv
<1>1. CASE \E w \in Worker : Reads(w)
  <2>1. /\ facts' = facts
        /\ cursor' \in Nat
        /\ pel' = pel \cup ((cursor + 1)..cursor')
    BY <1>1, ReadsEffect
  <2>2. m \in 1..cursor \/ m \in (cursor + 1)..cursor'
    BY <2>1, ConstantsAssumption DEF TypeOK
  <2> QED
    BY <2>1, <2>2 DEF NoLostCommand
<1>2. CASE \E w \in Worker : Acks(w)
  BY <1>2, AcksEffect DEF NoLostCommand
<1>3. CASE \E w \in Worker : Publishes(w)
  BY <1>3, PublishesEffect DEF NoLostCommand
<1>4. CASE \A w \in Worker : ~Reads(w) /\ ~Acks(w) /\ ~Publishes(w)
  BY <1>4, QueueFrame, FactsFrame DEF NoLostCommand
<1> QED
  BY <1>1, <1>2, <1>3, <1>4

(* StoredFactHasObject: the item that is published has its object. *)
LEMMA StoredStep == IInv /\ [Next]_vars => StoredFactHasObject'
<1> SUFFICES ASSUME IInv, [Next]_vars
             PROVE  StoredFactHasObject'
  OBVIOUS
<1> USE DEF IInv
<1>1. objects \subseteq objects'
  BY ObjectsFrame DEF PutObject
<1>2. CASE \E w \in Worker : Publishes(w)
  BY <1>1, <1>2, PublishesEffect DEF StoredFactHasObject, PipelineInOrder
<1>3. CASE \A w \in Worker : ~Publishes(w)
  BY <1>1, <1>3, FactsFrame DEF StoredFactHasObject
<1> QED
  BY <1>2, <1>3

(* The commands that may be held only become more. *)
LEMMA LiveGrows ==
    ASSUME TypeOK, [Next]_vars
    PROVE  /\ cursor \in Nat /\ cursor' \in Nat /\ cursor <= cursor'
           /\ 1..cursor \subseteq 1..cursor'
           /\ Delivered \subseteq Delivered'
           /\ LiveCommand \subseteq LiveCommand'
<1>1. cursor \in Nat /\ cursor' \in Nat /\ cursor <= cursor'
  <2>1. cursor \in Nat
    BY ConstantsAssumption DEF TypeOK
  <2>2. CASE \E w \in Worker : Reads(w)
    BY <2>1, <2>2, ReadsEffect
  <2>3. CASE \E w \in Worker : Acks(w)
    BY <2>1, <2>3, AcksKeepCursor
  <2>4. CASE \A w \in Worker : ~Reads(w) /\ ~Acks(w)
    BY <2>1, <2>4, QueueFrame
  <2> QED
    BY <2>2, <2>3, <2>4
<1> QED
  BY <1>1 DEF Delivered, LiveCommand

(* What was held properly before a step is held properly after it. *)
LEMMA HeldGrows ==
    ASSUME TypeOK, HeldWasDelivered, [Next]_vars
    PROVE  /\ claimed \in [Worker -> SUBSET (1..cursor')]
           /\ entries \in [Worker -> SUBSET Delivered']
           /\ buffer \in [Worker -> Seq(LiveCommand')]
           /\ due \in [Worker -> Seq(LiveCommand')]
           /\ flight \in [Worker -> SUBSET LiveCommand']
           /\ \A w \in Worker : ~Free(w) => pipe[w].msg \in 1..cursor' \ Invalid
<1>1. \A S, T : S \subseteq T => \A s \in Seq(S) : s \in Seq(T)
  BY SeqMonotonic
<1>2. \A w \in Worker : buffer[w] \in Seq(LiveCommand') /\ due[w] \in Seq(LiveCommand')
  BY <1>1, LiveGrows DEF HeldWasDelivered
<1> QED
  BY <1>2, LiveGrows DEF HeldWasDelivered

(* The pipeline is entered with the command that was examined. *)
LEMMA BuildOrDelayPipe ==
    ASSUME NEW w \in Worker, NEW c, BuildOrDelay(w, c)
    PROVE  \/ pipe' = pipe
           \/ pipe' = [pipe EXCEPT ![w] =
                  [msg |-> c.msg, kind |-> "skipped", stage |-> "publish"]]
BY DEF BuildOrDelay, BuildRequest, TerminalSkip, DelayCommand, EnterPipeline

(* HeldWasDelivered: commands move between the batch, the buffer, the      *)
(* engine and the pipeline, and only DiscardInvalid sees undecodable ones. *)
LEMMA HeldStep == IInv /\ [Next]_vars => HeldWasDelivered'
<1> SUFFICES ASSUME TypeOK, HeldWasDelivered, [Next]_vars, TypeOK'
             PROVE  HeldWasDelivered'
  BY TypeStep DEF IInv
<1> DEFINE L == LiveCommand'
           D == Delivered'
           C == 1..cursor'
<1> USE DEF redis, effects, loop
<1>0. /\ claimed \in [Worker -> SUBSET C]
      /\ entries \in [Worker -> SUBSET D]
      /\ buffer \in [Worker -> Seq(L)]
      /\ due \in [Worker -> Seq(L)]
      /\ flight \in [Worker -> SUBSET L]
      /\ \A v \in Worker : ~Free(v) => pipe[v].msg \in C \ Invalid
  BY HeldGrows
<1> HIDE DEF L, D, C
<1>q. ASSUME claimed' \in [Worker -> SUBSET C],
             entries' \in [Worker -> SUBSET D],
             buffer' \in [Worker -> Seq(L)],
             due' \in [Worker -> Seq(L)],
             flight' \in [Worker -> SUBSET L],
             \A v \in Worker : pipe'[v] = pipe[v] \/ pipe'[v] = NoItem
                               \/ pipe'[v].msg \in C \ Invalid
      PROVE  HeldWasDelivered'
  BY <1>0, <1>q DEF L, D, C, HeldWasDelivered, Free
<1>e. <<>> \in Seq(L)
  BY EmptySeq
<1>1. ASSUME NEW w \in Worker, Crash(w) \/ EngineStops(w)
      PROVE  HeldWasDelivered'
  <2>1. Gone(w)
    BY <1>1 DEF Crash, EngineStops
  <2>2. claimed' \in [Worker -> SUBSET C] /\ entries' \in [Worker -> SUBSET D]
    BY <1>0, <2>1 DEF Gone
  <2>3. buffer' \in [Worker -> Seq(L)] /\ due' \in [Worker -> Seq(L)]
    BY <1>0, <1>e, <2>1 DEF Gone
  <2>4. flight' \in [Worker -> SUBSET L]
    BY <1>0, <2>1 DEF Gone
  <2>5. \A v \in Worker : pipe'[v] = pipe[v] \/ pipe'[v] = NoItem
    BY <2>1 DEF Gone, TypeOK
  <2> QED
    BY <1>q, <2>2, <2>3, <2>4, <2>5
<1>2. ASSUME NEW w \in Worker,
             \/ Start(w) \/ RequestShutdown(w) \/ LoopTop(w) \/ DrainDone(w)
             \/ NothingToClaim(w) \/ ReadNothing(w) \/ ReadFails(w)
      PROVE  HeldWasDelivered'
  BY <1>0, <1>2, <1>q DEF Start, RequestShutdown, LoopTop, DrainDone,
                          NothingToClaim, ReadNothing, ReadFails
<1>3. ASSUME NEW w \in Worker, PopDue(w)
      PROVE  HeldWasDelivered'
  <2>1. buffer' \in [Worker -> Seq(L)] /\ due' \in [Worker -> Seq(L)]
    BY <1>0, <1>3, PopDueKeeps
  <2> QED
    BY <1>0, <1>3, <1>q, <2>1 DEF PopDue
<1>4. ASSUME NEW w \in Worker, NEW c \in L, BuildOrDelay(w, c),
             claimed' = claimed,
             entries' \in [Worker -> SUBSET D],
             due' \in [Worker -> Seq(L)],
             cursor' = cursor
      PROVE  HeldWasDelivered'
  <2>1. L \subseteq Command
    BY <1>4, ConstantsAssumption DEF L, LiveCommand, Command, TypeOK, Msg
  <2>2. buffer' \in [Worker -> Seq(L)] /\ flight' \in [Worker -> SUBSET L]
    BY <1>0, <1>4, <2>1, BuildOrDelayKeeps DEF TypeOK
  <2>3. c.msg \in C \ Invalid
    BY DEF L, C, LiveCommand
  <2>4. \A v \in Worker : pipe'[v] = pipe[v] \/ pipe'[v].msg \in C \ Invalid
    <3>1. \/ pipe' = pipe
          \/ pipe' = [pipe EXCEPT ![w] =
                 [msg |-> c.msg, kind |-> "skipped", stage |-> "publish"]]
      BY <1>4, BuildOrDelayPipe
    <3> QED
      BY <2>3, <3>1 DEF TypeOK
  <2> QED
    BY <1>0, <1>4, <1>q, <2>2, <2>4
<1>5. ASSUME NEW w \in Worker, DrainNext(w)
      PROVE  HeldWasDelivered'
  <2>1. Head(due[w]) \in L /\ Tail(due[w]) \in Seq(L)
    BY <1>0, <1>5, HeadTailProperties DEF DrainNext
  <2>2. due' \in [Worker -> Seq(L)]
    BY <1>0, <1>5, <2>1 DEF DrainNext
  <2> QED
    BY <1>0, <1>4, <1>5, <2>1, <2>2 DEF DrainNext
<1>6. ASSUME NEW w \in Worker, ConsumeEntry(w)
      PROVE  HeldWasDelivered'
  <2>1. PICK e \in entries[w] :
          /\ e.msg \notin Invalid
          /\ entries' = [entries EXCEPT ![w] = @ \ {e}]
          /\ BuildOrDelay(w, e)
    BY <1>6 DEF ConsumeEntry
  <2>2. e \in D /\ e \in L
    BY <1>0, <2>1 DEF D, L, Delivered, LiveCommand
  <2>3. entries' \in [Worker -> SUBSET D]
    BY <1>0, <2>1
  <2> QED
    BY <1>0, <1>4, <1>6, <2>1, <2>2, <2>3 DEF ConsumeEntry
<1>7. ASSUME NEW w \in Worker, LeaveBatch(w)
      PROVE  HeldWasDelivered'
  BY <1>0, <1>7, <1>q DEF LeaveBatch
<1>r. ASSUME NEW w \in Worker, BuildRaises(w)
      PROVE  HeldWasDelivered'
  <2>1. entries' \in [Worker -> SUBSET D] /\ due' \in [Worker -> Seq(L)]
    BY <1>0, <1>e, <1>r DEF BuildRaises
  <2> QED
    BY <1>0, <1>r, <1>q, <2>1 DEF BuildRaises
<1>8. ASSUME NEW w \in Worker, DiscardInvalid(w)
      PROVE  HeldWasDelivered'
  <2>1. entries' \in [Worker -> SUBSET D]
    <3>1. PICK e : \/ entries' = [entries EXCEPT ![w] = @ \ {e}]
                   \/ entries' = [entries EXCEPT ![w] = {}]
      BY <1>8 DEF DiscardInvalid
    <3>2. CASE entries' = [entries EXCEPT ![w] = @ \ {e}]
      BY <1>0, <3>2
    <3>3. CASE entries' = [entries EXCEPT ![w] = {}]
      BY <1>0, <3>3
    <3> QED
      BY <3>1, <3>2, <3>3
  <2> QED
    BY <1>0, <1>8, <1>q, <2>1 DEF DiscardInvalid
<1>9. ASSUME NEW w \in Worker, ReclaimPending(w)
      PROVE  HeldWasDelivered'
  <2>1. pel \subseteq C
    BY LiveGrows DEF TypeOK, C
  <2>2. PICK S \in SUBSET pel : claimed' \in {claimed, [claimed EXCEPT ![w] = S]}
    BY <1>9 DEF ReclaimPending
  <2>3. claimed' \in [Worker -> SUBSET C]
    BY <1>0, <2>1, <2>2
  <2> QED
    BY <1>0, <1>9, <1>q, <2>3 DEF ReclaimPending
<1>10. ASSUME NEW w \in Worker, ParseClaim(w)
      PROVE  HeldWasDelivered'
  <2>1. \A m \in claimed[w], lost \in SUBSET claimed[w] :
          [msg |-> m, deliveries |-> DeliveryCount(m, lost)] \in D
    BY <1>0, ConstantsAssumption
       DEF DeliveryCount, D, C, Delivered, TypeOK
  <2>2. CASE UNCHANGED entries
    BY <1>0, <1>10, <1>q, <2>2 DEF ParseClaim
  <2>3. ASSUME NEW lost \in SUBSET claimed[w],
               entries' = [entries EXCEPT ![w] =
                   {[msg |-> m, deliveries |-> DeliveryCount(m, lost)] :
                       m \in claimed[w]}]
        PROVE  HeldWasDelivered'
    <3>1. entries' \in [Worker -> SUBSET D]
      BY <1>0, <2>1, <2>3
    <3> QED
      BY <1>0, <1>10, <1>q, <3>1 DEF ParseClaim
  <2> QED
    BY <1>10, <2>2, <2>3 DEF ParseClaim
<1>11. ASSUME NEW w \in Worker, ReadNew(w)
      PROVE  HeldWasDelivered'
  <2>1. PICK k \in 1..ReadCount :
          /\ Deliver(k)
          /\ \/ UNCHANGED entries
             \/ entries' = [entries EXCEPT ![w] =
                    {[msg |-> m, deliveries |-> 1] :
                         m \in (cursor + 1)..(cursor + k)}]
    BY <1>11 DEF ReadNew
  <2>2. {[msg |-> m, deliveries |-> 1] : m \in (cursor + 1)..(cursor + k)}
          \subseteq D
    BY <2>1, LiveGrows DEF Deliver, D, Delivered
  <2>3. entries' \in [Worker -> SUBSET D]
    BY <1>0, <2>1, <2>2
  <2> QED
    BY <1>0, <1>11, <1>q, <2>3 DEF ReadNew
<1>12. ASSUME NEW w \in Worker, Pipeline(w)
      PROVE  HeldWasDelivered'
  <2>1. ~Free(w) /\ pipe[w] \in Item
    BY <1>12, AtStageBusy, PipeItem DEF Pipeline, PutObject, PublishSucceeds,
         PublishFails, AckSucceeds, AckFails
  <2>2. \/ pipe'[w] = NoItem
        \/ pipe'[w] = [pipe[w] EXCEPT !.stage = "publish"]
        \/ pipe'[w] = [pipe[w] EXCEPT !.kind = "storage_failed",
                                      !.stage = "publish"]
        \/ pipe'[w] = [pipe[w] EXCEPT !.stage = "ack"]
    BY <1>12, <2>1 DEF Pipeline, PutObject, PublishSucceeds, PublishFails,
         AckSucceeds, AckFails, TypeOK, Item
  <2>3. pipe'[w] = NoItem \/ pipe'[w].msg = pipe[w].msg
    BY <2>1, <2>2 DEF Item
  <2>4. \A v \in Worker : v # w => pipe'[v] = pipe[v]
    BY <1>12 DEF Pipeline, PutObject, PublishSucceeds, PublishFails,
         AckSucceeds, AckFails, TypeOK
  <2>5. UNCHANGED <<claimed, entries, buffer, due, flight>>
    BY <1>12 DEF Pipeline, PutObject, PublishSucceeds, PublishFails,
         AckSucceeds, AckFails
  <2> QED
    BY <1>0, <1>q, <2>1, <2>3, <2>4, <2>5
<1>13. ASSUME NEW w \in Worker, NEW c \in flight[w], Respond(w, c)
      PROVE  HeldWasDelivered'
  <2>1. c.msg \in C \ Invalid
    BY <1>0 DEF L, C, LiveCommand
  <2>2. \A v \in Worker : pipe'[v] = pipe[v] \/ pipe'[v].msg \in C \ Invalid
    BY <1>13, <2>1 DEF Respond, FetchFailed, FetchSucceeded, EnterPipeline, TypeOK
  <2>3. flight' \in [Worker -> SUBSET L]
    BY <1>0, <1>13 DEF Respond
  <2> QED
    BY <1>0, <1>13, <1>q, <2>2, <2>3 DEF Respond
<1>14. CASE UNCHANGED vars
  BY <1>0, <1>14, <1>q DEF vars
<1> QED
  BY <1>1, <1>2, <1>3, <1>5, <1>6, <1>7, <1>r, <1>8, <1>9, <1>10, <1>11, <1>12,
     <1>13, <1>14 DEF Next, Process, Loop, Read

(* PipelineInOrder: an item reaches "publish" with its upload done or its  *)
(* kind changed, and "ack" with its fact published; neither is undone.     *)
LEMMA OrderStep == IInv /\ [Next]_vars => PipelineInOrder'
<1> SUFFICES ASSUME TypeOK, PipelineInOrder, [Next]_vars, NEW v \in Worker
             PROVE  /\ (AtStage(v, "publish") \/ AtStage(v, "ack") =>
                          (pipe[v].kind = "stored" => pipe[v].msg \in objects))'
                    /\ (AtStage(v, "ack") => \E f \in facts : f.msg = pipe[v].msg)'
  BY DEF IInv, PipelineInOrder
<1> DEFINE Ordered(x) ==
             /\ x.stage \in {"publish", "ack"} =>
                  (x.kind = "stored" => x.msg \in objects')
             /\ x.stage = "ack" => \E f \in facts' : f.msg = x.msg
<1> USE DEF redis, effects, loop
<1>1. objects \subseteq objects' /\ facts \subseteq facts'
  BY ObjectsFrame, FactsFrame, PublishesEffect DEF PutObject
<1>2. Ordered(pipe[v])
  BY <1>1 DEF PipelineInOrder, AtStage
<1>3. Ordered(NoItem)
  BY DEF NoItem
<1>4. SUFFICES Ordered(pipe'[v])
  BY <1>4 DEF AtStage
<1>5. CASE pipe'[v] = pipe[v] \/ pipe'[v] = NoItem
  BY <1>2, <1>3, <1>5
<1> HIDE DEF Ordered
<1>6. \A msg, kind : Ordered([msg |-> msg, kind |-> kind, stage |-> "store"])
  BY DEF Ordered
<1>7. \A msg, kind : kind # "stored" =>
        Ordered([msg |-> msg, kind |-> kind, stage |-> "publish"])
  BY DEF Ordered
<1>8. ASSUME NEW w \in Worker, NEW c, BuildOrDelay(w, c)
      PROVE  Ordered(pipe'[v])
  <2>1. \/ pipe' = pipe
        \/ pipe' = [pipe EXCEPT ![w] =
               [msg |-> c.msg, kind |-> "skipped", stage |-> "publish"]]
    BY <1>8, BuildOrDelayPipe
  <2>2. Ordered([msg |-> c.msg, kind |-> "skipped", stage |-> "publish"])
    BY <1>7
  <2> QED
    BY <1>2, <2>1, <2>2 DEF TypeOK
<1>9. ASSUME NEW w \in Worker, Process(w)
      PROVE  Ordered(pipe'[v])
  BY <1>5, <1>9 DEF Process, Start, Crash, RequestShutdown, EngineStops, Gone, TypeOK
<1>10. ASSUME NEW w \in Worker, Loop(w)
      PROVE  Ordered(pipe'[v])
  BY <1>5, <1>8, <1>10 DEF Loop, LoopTop, PopDue, DrainNext, DrainDone,
       LeaveBatch, DiscardInvalid, ConsumeEntry, BuildRaises
<1>11. ASSUME NEW w \in Worker, Read(w)
      PROVE  Ordered(pipe'[v])
  BY <1>5, <1>11 DEF Read, NothingToClaim, ReclaimPending, ParseClaim, ReadNew,
       ReadNothing, ReadFails
<1>12. ASSUME NEW w \in Worker, NEW c \in flight[w], Respond(w, c)
      PROVE  Ordered(pipe'[v])
  <2>1. \/ pipe' = pipe
        \/ pipe' = [pipe EXCEPT ![w] =
               [msg |-> c.msg, kind |-> "retry_exhausted", stage |-> "publish"]]
        \/ pipe' = [pipe EXCEPT ![w] =
               [msg |-> c.msg, kind |-> "stored", stage |-> "store"]]
        \/ pipe' = [pipe EXCEPT ![w] =
               [msg |-> c.msg, kind |-> "non_snapshot", stage |-> "publish"]]
    BY <1>12 DEF Respond, FetchFailed, FetchSucceeded, EnterPipeline
  <2>2. /\ Ordered([msg |-> c.msg, kind |-> "retry_exhausted", stage |-> "publish"])
        /\ Ordered([msg |-> c.msg, kind |-> "stored", stage |-> "store"])
        /\ Ordered([msg |-> c.msg, kind |-> "non_snapshot", stage |-> "publish"])
    BY <1>6, <1>7
  <2> QED
    BY <1>2, <2>1, <2>2 DEF TypeOK
<1>13. ASSUME NEW w \in Worker, PutObject(w)
      PROVE  Ordered(pipe'[v])
  <2>1. pipe[w] \in Item
    BY <1>13, AtStageBusy, PipeItem DEF PutObject
  <2>2. \/ /\ pipe' = [pipe EXCEPT ![w] = [@ EXCEPT !.stage = "publish"]]
           /\ pipe[w].msg \in objects'
        \/ pipe' = [pipe EXCEPT ![w] = [@ EXCEPT !.kind = "storage_failed",
                                                 !.stage = "publish"]]
    BY <1>13, <2>1 DEF PutObject, Item
  <2>3. Ordered([pipe[w] EXCEPT !.kind = "storage_failed", !.stage = "publish"])
    BY <2>1 DEF Ordered, Item
  <2>4. pipe[w].msg \in objects' => Ordered([pipe[w] EXCEPT !.stage = "publish"])
    BY <2>1 DEF Ordered, Item
  <2> QED
    BY <1>2, <2>2, <2>3, <2>4 DEF TypeOK
<1>14. ASSUME NEW w \in Worker, PublishSucceeds(w)
      PROVE  Ordered(pipe'[v])
  <2>1. pipe[w] \in Item /\ pipe[w].stage = "publish"
    BY <1>14, AtStageBusy, PipeItem DEF PublishSucceeds, AtStage
  <2>2. pipe[w].kind = "stored" => pipe[w].msg \in objects'
    BY <1>1, <2>1 DEF PipelineInOrder, AtStage
  <2>3. \E f \in facts' : f.msg = pipe[w].msg
    <3>1. [msg |-> pipe[w].msg, kind |-> pipe[w].kind] \in facts'
      BY <1>14 DEF PublishSucceeds
    <3>2. [msg |-> pipe[w].msg, kind |-> pipe[w].kind].msg = pipe[w].msg
      OBVIOUS
    <3> QED
      BY <3>1, <3>2
  <2>4. Ordered([pipe[w] EXCEPT !.stage = "ack"])
    BY <2>1, <2>2, <2>3 DEF Ordered, Item
  <2>5. pipe' = [pipe EXCEPT ![w] = [@ EXCEPT !.stage = "ack"]]
    BY <1>14 DEF PublishSucceeds
  <2> QED
    BY <1>2, <2>4, <2>5 DEF TypeOK
<1>15. ASSUME NEW w \in Worker, PublishFails(w) \/ AckSucceeds(w) \/ AckFails(w)
      PROVE  Ordered(pipe'[v])
  BY <1>5, <1>15 DEF PublishFails, AckSucceeds, AckFails, TypeOK
<1>16. CASE UNCHANGED vars
  BY <1>5, <1>16 DEF vars
<1> QED
  BY <1>9, <1>10, <1>11, <1>12, <1>13, <1>14, <1>15, <1>16 DEF Next, Pipeline

(* The invariant holds before any worker has started. *)
LEMMA InitIInv == Init => IInv
<1> SUFFICES ASSUME Init
             PROVE  IInv
  OBVIOUS
<1>1. TypeOK
  BY InitType
<1>2. NoLostCommand /\ StoredFactHasObject
  BY DEF Init, NoLostCommand, StoredFactHasObject
<1>3. HeldWasDelivered
  BY DEF Init, HeldWasDelivered, Free
<1>4. PipelineInOrder
  BY DEF Init, PipelineInOrder, AtStage, NoItem
<1> QED
  BY <1>1, <1>2, <1>3, <1>4 DEF IInv

(* The invariant TLC checks as IInv, for every instance. *)
THEOREM InductiveInvariant == Spec => []IInv
<1>1. IInv /\ [Next]_vars => IInv'
  BY TypeStep, NoLostStep, StoredStep, HeldStep, OrderStep DEF IInv
<1> QED
  BY <1>1, InitIInv, PTL DEF Spec

(* No valid command leaves the queue without a crawl_attempt fact. *)
THEOREM NoCommandIsLost == Spec => []NoLostCommand
<1>1. IInv => NoLostCommand
  BY DEF IInv
<1> QED
  BY <1>1, InductiveInvariant, PTL

(* No fact claims a page that was never uploaded. *)
THEOREM StoredFactsAreBacked == Spec => []StoredFactHasObject
<1>1. IInv => StoredFactHasObject
  BY DEF IInv
<1> QED
  BY <1>1, InductiveInvariant, PTL

(***************************************************************************)
(* The executor implements CommandLedger: a read takes, an upload stores,  *)
(* a publish publishes, an XACK settles, and nothing else is visible.      *)
(***************************************************************************)
LEMMA StatusFrame ==
    ASSUME UNCHANGED <<cursor, pel>>
    PROVE  [m \in Msg |-> Status(m)]' = [m \in Msg |-> Status(m)]
BY DEF Status

(* A step that leaves the shared state alone is a stutter of the ledger. *)
LEMMA LedgerStutters ==
    ASSUME UNCHANGED <<cursor, pel, facts, objects>>
    PROVE  UNCHANGED Ledger!vars
BY StatusFrame DEF Ledger!vars

(* Every step maps to a step of the ledger or to a stutter. *)
LEMMA StepRefines ==
    ASSUME IInv, [Next]_vars
    PROVE  [Ledger!Next]_(Ledger!vars)
<1> USE DEF IInv
<1> DEFINE status == [m \in Msg |-> Status(m)]
<1>0. Ledger!Msg = Msg /\ cursor \in Nat /\ cursor <= N
  BY ConstantsAssumption DEF Ledger!Msg, Msg, TypeOK
<1>1. CASE \E w \in Worker : Reads(w)
  <2>1. /\ UNCHANGED <<facts, objects>>
        /\ cursor' \in Nat /\ cursor <= cursor'
        /\ pel' = pel \cup ((cursor + 1)..cursor')
    BY <1>1, ReadsEffect
  <2>2. cursor' <= N
    BY <1>0, TypeStep, ConstantsAssumption DEF TypeOK
  <2> DEFINE S == (cursor + 1)..cursor'
  <2>3. S \in SUBSET Msg
    BY <1>0, <2>1, <2>2, ConstantsAssumption DEF Msg
  <2>4. \A m \in S : status[m] = "queued"
    BY <1>0, <2>1, <2>3 DEF Status, Msg
  <2>5. status' = [m \in Msg |-> IF m \in S THEN "pending" ELSE status[m]]
    <3>1. \A m \in Msg : Status(m)' = IF m \in S THEN "pending" ELSE Status(m)
      BY <1>0, <2>1 DEF Status, Msg
    <3> QED
      BY <3>1
  <2>6. Ledger!Take(S)
    BY <1>0, <2>1, <2>4, <2>5 DEF Ledger!Take
  <2> QED
    BY <1>0, <2>3, <2>6 DEF Ledger!Next
<1>2. CASE \E w \in Worker : Acks(w)
  <2>1. UNCHANGED <<cursor, facts, objects>>
    BY <1>2, AcksEffect
  <2>2. PICK m \in Msg :
          /\ m \in Invalid \/ \E f \in facts : f.msg = m
          /\ pel' \in {pel, pel \ {m}}
    BY <1>2, AcksEffect
  <2>3. CASE pel' = pel
    BY <2>1, <2>3, LedgerStutters
  <2>4. CASE m \in pel /\ pel' = pel \ {m}
    <3>1. status[m] = "pending"
      BY <1>0, <2>4 DEF Status, TypeOK
    <3>2. status' = [status EXCEPT ![m] = "settled"]
      <4>1. \A n \in Msg : Status(n)' = IF n = m THEN "settled" ELSE Status(n)
        BY <1>0, <2>1, <2>4 DEF Status, TypeOK
      <4> QED
        BY <4>1
    <3>3. Ledger!Settle(m)
      BY <2>1, <2>2, <3>1, <3>2 DEF Ledger!Settle, Ledger!Backed
    <3> QED
      BY <1>0, <3>3 DEF Ledger!Next
  <2> QED
    BY <2>2, <2>3, <2>4
<1>3. ASSUME NEW w \in Worker, ~Free(w), pipe[w] \in Item
      PROVE  pipe[w].msg \in Msg \ Invalid /\ status[pipe[w].msg] # "queued"
  <2>1. pipe[w].msg \in 1..cursor \ Invalid
    BY <1>3 DEF HeldWasDelivered
  <2>2. pipe[w].msg \in Msg /\ ~(pipe[w].msg > cursor)
    BY <1>0, <2>1, ConstantsAssumption DEF Msg
  <2>3. Status(pipe[w].msg) \in {"pending", "settled"}
    BY <2>2 DEF Status
  <2> QED
    BY <2>1, <2>2, <2>3
<1>4. ASSUME NEW w \in Worker, Publishes(w)
      PROVE  [Ledger!Next]_(Ledger!vars)
  <2>1. /\ UNCHANGED <<cursor, pel, objects>>
        /\ AtStage(w, "publish") /\ pipe[w] \in Item
        /\ facts' \in {facts,
               facts \cup {[msg |-> pipe[w].msg, kind |-> pipe[w].kind]}}
    BY <1>4, PublishesEffect
  <2>2. status' = status
    BY <2>1, StatusFrame
  <2>3. CASE facts' = facts
    BY <2>1, <2>3, LedgerStutters
  <2>4. CASE facts' = facts \cup {[msg |-> pipe[w].msg, kind |-> pipe[w].kind]}
    <3>1. pipe[w].msg \in Msg \ Invalid /\ status[pipe[w].msg] # "queued"
      BY <1>3, <2>1, AtStageBusy
    <3>2. pipe[w].kind = "stored" => pipe[w].msg \in objects
      BY <2>1 DEF PipelineInOrder
    <3>3. Ledger!Publish(pipe[w].msg, pipe[w].kind)
      BY <2>1, <2>2, <2>4, <3>1, <3>2 DEF Ledger!Publish
    <3> QED
      BY <1>0, <2>1, <3>1, <3>3 DEF Ledger!Next, Item
  <2> QED
    BY <2>1, <2>3, <2>4
<1>5. ASSUME NEW w \in Worker, PutObject(w)
      PROVE  [Ledger!Next]_(Ledger!vars)
  <2>1. pipe[w] \in Item /\ ~Free(w)
    BY <1>5, PipeItem, AtStageBusy DEF PutObject
  <2>2. status' = status /\ facts' = facts
    BY <1>5, StatusFrame DEF PutObject, redis
  <2>3. CASE objects' = objects
    BY <1>5, <2>3, LedgerStutters DEF PutObject, redis
  <2>4. CASE objects' = objects \cup {pipe[w].msg}
    <3>1. pipe[w].msg \in Msg \ Invalid /\ status[pipe[w].msg] # "queued"
      BY <1>3, <2>1
    <3>2. Ledger!Store(pipe[w].msg)
      BY <2>2, <2>4, <3>1 DEF Ledger!Store
    <3> QED
      BY <1>0, <3>1, <3>2 DEF Ledger!Next
  <2> QED
    BY <1>5, <2>3, <2>4 DEF PutObject
<1>6. CASE \A w \in Worker : /\ ~Reads(w) /\ ~Acks(w)
                             /\ ~Publishes(w) /\ ~PutObject(w)
  <2>1. UNCHANGED <<cursor, pel, facts, objects>>
    BY <1>6, QueueFrame, FactsFrame, ObjectsFrame
  <2> QED
    BY <2>1, LedgerStutters
<1> QED
  BY <1>1, <1>2, <1>4, <1>5, <1>6

(* Every behaviour of the executor is one of the ledger. *)
THEOREM Refinement == Spec => ImplementsLedger
<1>1. Init => Ledger!Init
  BY ConstantsAssumption DEF Init, Ledger!Init, Ledger!Msg, Status, Msg
<1>2. IInv /\ [Next]_vars => [Ledger!Next]_(Ledger!vars)
  BY StepRefines
<1> QED
  BY <1>1, <1>2, InductiveInvariant, PTL DEF Spec, ImplementsLedger, Ledger!Spec

=============================================================================
