---------------------------- MODULE DeliveryProofs ----------------------------
(***************************************************************************)
(* More TLAPS proofs about FetchQueue: what a termination signal stops,    *)
(* why the local buffer always has room for what the drain puts back, and  *)
(* that no retry budget is cut short while XPENDING answers.               *)
(***************************************************************************)
EXTENDS FetchQueueProofs

(***************************************************************************)
(* A worker that has been told to stop.                                    *)
(***************************************************************************)

(* Once the flag is up, no step takes the worker to a read it was not in:  *)
(* LoopTop, DrainDone and AfterEmptyClaim each look at the flag.           *)
LEMMA StopsReadingStep ==
    ASSUME TypeOK, [Next]_vars, NEW w \in Worker,
           shutdown[w], pc'[w] \in {"claim", "readnew"}
    PROVE  pc'[w] = pc[w]
<1> USE DEF TypeOK, redis, effects, loop, Goto
<1>1. ASSUME NEW v \in Worker, Process(v)
      PROVE  pc'[w] = pc[w]
  BY <1>1 DEF Process, Start, Crash, RequestShutdown, EngineStops, Gone
<1>2. ASSUME NEW v \in Worker, Loop(v)
      PROVE  pc'[w] = pc[w]
  BY <1>2 DEF Loop, LoopTop, PopDue, DrainNext, DrainDone, LeaveBatch,
              DiscardInvalid, ConsumeEntry, BuildRaises
<1>3. ASSUME NEW v \in Worker, Read(v)
      PROVE  pc'[w] = pc[w]
  BY <1>3 DEF Read, NothingToClaim, ReclaimPending, ParseClaim, ReadNew,
              ReadNothing, ReadFails, AfterEmptyClaim
<1>4. ASSUME NEW v \in Worker, Pipeline(v)
      PROVE  pc'[w] = pc[w]
  BY <1>4 DEF Pipeline, PutObject, PublishSucceeds, PublishFails,
              AckSucceeds, AckFails
<1>5. ASSUME NEW v \in Worker, NEW c \in flight[v], Respond(v, c)
      PROVE  pc'[w] = pc[w]
  BY <1>5 DEF Respond
<1>6. CASE UNCHANGED vars
  BY <1>6 DEF vars
<1> QED
  BY <1>1, <1>2, <1>3, <1>4, <1>5, <1>6 DEF Next

(* FR-022 of spec 003 and FR-016 of spec 007, for any number of workers,   *)
(* faults and commands: a worker begins no read after its signal.          *)
THEOREM StopMeansNoRead == Spec => ShutdownStopsReading
<1>1. TypeOK /\ [Next]_vars =>
        [\A w \in Worker : shutdown[w] /\ pc'[w] \in {"claim", "readnew"}
                             => pc'[w] = pc[w]]_vars
  BY StopsReadingStep
<1> QED
  BY <1>1, TypeCorrect, PTL DEF Spec, ShutdownStopsReading

(* What becomes of the batch of a worker: it stays as it is, or goes as a  *)
(* whole, with the loop or the process, and without any effect.            *)
Abandoned(w) ==
    /\ flight'[w] \subseteq flight[w]
    /\ entries'[w] # entries[w] =>
         /\ entries'[w] = {} /\ pc'[w] \in {"ended", "down"}
         /\ UNCHANGED <<pel, facts>>
         /\ pipe'[w] = NoItem
         /\ buffer'[w] = buffer[w] \/ pc'[w] = "down"

(* In a batch, a free worker that has been told to stop leaves the batch   *)
(* or goes away: DiscardInvalid, ConsumeEntry and BuildRaises ask for the  *)
(* flag first.                                                             *)
LEMMA AbandonsBatchStep ==
    ASSUME TypeOK, [Next]_vars, NEW w \in Worker,
           shutdown[w], pc[w] = "batch", Free(w)
    PROVE  Abandoned(w)
<1> USE DEF TypeOK, redis, effects, loop
<1>1. ASSUME flight'[w] \subseteq flight[w], entries'[w] = entries[w]
      PROVE  Abandoned(w)
  BY <1>1 DEF Abandoned
<1>2. ASSUME NEW v \in Worker, Crash(v) \/ EngineStops(v)
      PROVE  Abandoned(w)
  <2>1. Gone(v)
    BY <1>2 DEF Crash, EngineStops
  <2>2. CASE v = w
    BY <2>1, <2>2 DEF Gone, Goto, Abandoned
  <2>3. CASE v # w
    BY <1>1, <2>1, <2>3 DEF Gone
  <2> QED
    BY <2>2, <2>3
<1>3. ASSUME NEW v \in Worker, Start(v) \/ RequestShutdown(v)
      PROVE  Abandoned(w)
  BY <1>1, <1>3 DEF Start, RequestShutdown
<1>4. ASSUME NEW v \in Worker, DrainNext(v) \/ ConsumeEntry(v)
      PROVE  Abandoned(w)
  <2>1. v # w
    BY <1>4 DEF DrainNext, ConsumeEntry
  <2>2. entries'[w] = entries[w]
    BY <1>4, <2>1 DEF DrainNext, ConsumeEntry
  <2>3. \E c : BuildOrDelay(v, c)
    BY <1>4 DEF DrainNext, ConsumeEntry
  <2>4. flight'[w] = flight[w]
    BY <2>1, <2>3 DEF BuildOrDelay, BuildRequest, TerminalSkip, DelayCommand
  <2> QED
    BY <1>1, <2>2, <2>4
<1>5. ASSUME NEW v \in Worker, LeaveBatch(v)
      PROVE  Abandoned(w)
  <2>1. CASE v = w
    BY <1>5, <2>1 DEF LeaveBatch, Goto, Free, Abandoned
  <2>2. CASE v # w
    BY <1>1, <1>5, <2>2 DEF LeaveBatch
  <2> QED
    BY <2>1, <2>2
<1>6. ASSUME NEW v \in Worker,
             LoopTop(v) \/ PopDue(v) \/ DrainDone(v) \/ DiscardInvalid(v)
             \/ BuildRaises(v)
      PROVE  Abandoned(w)
  BY <1>1, <1>6 DEF LoopTop, PopDue, DrainDone, DiscardInvalid, BuildRaises
<1>7. ASSUME NEW v \in Worker, Read(v)
      PROVE  Abandoned(w)
  BY <1>1, <1>7 DEF Read, NothingToClaim, ReclaimPending, ParseClaim, ReadNew,
                    ReadNothing, ReadFails
<1>8. ASSUME NEW v \in Worker, Pipeline(v)
      PROVE  Abandoned(w)
  BY <1>1, <1>8 DEF Pipeline, PutObject, PublishSucceeds, PublishFails,
                    AckSucceeds, AckFails
<1>9. ASSUME NEW v \in Worker, NEW c \in flight[v], Respond(v, c)
      PROVE  Abandoned(w)
  BY <1>1, <1>9 DEF Respond
<1>10. CASE UNCHANGED vars
  BY <1>1, <1>10 DEF vars
<1> QED
  BY <1>2, <1>3, <1>4, <1>5, <1>6, <1>7, <1>8, <1>9, <1>10
     DEF Next, Process, Loop

(* FR-017 of spec 007 for the batch: whatever the other workers do, a      *)
(* stopping worker fetches, skips, delays and acknowledges no entry of the *)
(* batch it has read; the batch is abandoned as a whole.                   *)
THEOREM StopAbandonsTheBatch == Spec => ShutdownAbandonsBatch
<1>1. TypeOK /\ [Next]_vars =>
        [\A w \in Worker : shutdown[w] /\ pc[w] = "batch" /\ Free(w) =>
           Abandoned(w)]_vars
  BY AbandonsBatchStep
<1> QED
  BY <1>1, TypeCorrect, PTL DEF Spec, ShutdownAbandonsBatch, Abandoned

(***************************************************************************)
(* The local delayed buffer and its capacity.                              *)
(***************************************************************************)

(* pop_due's items are rebuilt before anything else is buffered: outside   *)
(* the drain none is left over.  This is what makes RequeueFits inductive. *)
RoomInv ==
    /\ RequeueFits
    /\ \A w \in Worker : due[w] # <<>> => pc[w] = "drain"

(* An ascending walk through indices above k is no longer than what is     *)
(* above k.                                                                *)
LEMMA AscendingLength ==
    ASSUME NEW n \in Nat, NEW k \in 0..n, NEW I \in SUBSET ((k + 1)..n),
           NEW h \in Ascending(I), NEW s
    PROVE  Len([i \in DOMAIN h |-> s[h[i]]]) \in 0..(n - k)
<1>1. /\ IsFiniteSet((k + 1)..n)
      /\ Cardinality((k + 1)..n) = n - k
  <2>1. k + 1 \in Int /\ n \in Int
    OBVIOUS
  <2>2. /\ IsFiniteSet((k + 1)..n)
        /\ Cardinality((k + 1)..n) = IF k + 1 > n THEN 0 ELSE n - (k + 1) + 1
    BY <2>1, FS_Interval
  <2>3. (IF k + 1 > n THEN 0 ELSE n - (k + 1) + 1) = n - k
    OBVIOUS
  <2> QED
    BY <2>2, <2>3
<1>2. /\ Cardinality(I) \in Nat
      /\ Cardinality(I) <= n - k
  BY <1>1, FS_Subset, FS_CardinalityType
<1>3. DOMAIN h = 1..Cardinality(I)
  BY DEF Ascending
<1> DEFINE c == Cardinality(I)
           t == [i \in 1..c |-> s[h[i]]]
<1>4. c \in Nat /\ c <= n - k
  BY <1>2
<1> HIDE DEF c
<1>5. Len(t) = c
  <2>1. t \in Seq({s[h[i]] : i \in 1..c})
    BY <1>4
  <2> QED
    BY <1>4, <2>1, LenProperties
<1> QED
  BY <1>3, <1>4, <1>5 DEF c

(* pop_due only ever takes items out. *)
LEMMA PopDueRoom ==
    ASSUME TypeOK, NEW w \in Worker, PopDue(w)
    PROVE  /\ Len(buffer'[w]) + Len(due'[w]) <= Len(buffer[w])
           /\ \A v \in Worker \ {w} : buffer'[v] = buffer[v] /\ due'[v] = due[v]
<1> DEFINE items == buffer[w]
           n == Len(items)
<1>1. items \in Seq(Command) /\ n \in Nat
  BY LenProperties DEF TypeOK
<1>2. PICK k \in 1..n :
        \E same \in SUBSET {SubSeq(items, 1, k)[i].msg : i \in 1..k} :
        \E h \in Ascending({i \in (k + 1)..n : items[i].msg \notin same}) :
          /\ due' = [due EXCEPT ![w] = SubSeq(items, 1, k)]
          /\ buffer' = [buffer EXCEPT ![w] = [i \in DOMAIN h |-> items[h[i]]]]
  BY DEF PopDue
<1>3. PICK same :
        \E h \in Ascending({i \in (k + 1)..n : items[i].msg \notin same}) :
          /\ due' = [due EXCEPT ![w] = SubSeq(items, 1, k)]
          /\ buffer' = [buffer EXCEPT ![w] = [i \in DOMAIN h |-> items[h[i]]]]
  BY <1>2
<1> DEFINE Kept == {i \in (k + 1)..n : items[i].msg \notin same}
<1>4. PICK h \in Ascending(Kept) :
        /\ due' = [due EXCEPT ![w] = SubSeq(items, 1, k)]
        /\ buffer' = [buffer EXCEPT ![w] = [i \in DOMAIN h |-> items[h[i]]]]
  BY <1>3
<1>5. /\ due'[w] = SubSeq(items, 1, k)
      /\ buffer'[w] = [i \in DOMAIN h |-> items[h[i]]]
      /\ \A v \in Worker \ {w} : buffer'[v] = buffer[v] /\ due'[v] = due[v]
  BY <1>4 DEF TypeOK
<1>6. Len(SubSeq(items, 1, k)) = k
  BY <1>1, SubSeqProperties
<1>7. Kept \in SUBSET ((k + 1)..n) /\ k \in 0..n
  BY <1>1
<1>8. Len([i \in DOMAIN h |-> items[h[i]]]) \in 0..(n - k)
  <2> HIDE DEF Kept, n
  <2> QED
    BY <1>1, <1>4, <1>7, AscendingLength
<1>9. Len(buffer'[w]) \in 0..(n - k) /\ Len(due'[w]) = k
  BY <1>5, <1>6, <1>8
<1> QED
  BY <1>1, <1>5, <1>9

(* LocalDelayedBuffer.add makes the buffer one item longer. *)
LEMMA InsertLength ==
    ASSUME NEW S, NEW s \in Seq(S), NEW c \in S, NEW i \in 0..Len(s)
    PROVE  Len(SubSeq(s, 1, i) \o <<c>> \o SubSeq(s, i + 1, Len(s))) = Len(s) + 1
<1> DEFINE p == SubSeq(s, 1, i)
           q == SubSeq(s, i + 1, Len(s))
<1>1. Len(s) \in Nat /\ i \in Nat /\ i <= Len(s)
  BY LenProperties
<1>2. p \in Seq(S) /\ Len(p) = i
  BY <1>1, SubSeqProperties
<1>3. q \in Seq(S) /\ Len(q) = Len(s) - i
  BY <1>1, SubSeqProperties
<1>4. <<c>> \in Seq(S) /\ Len(<<c>>) = 1
  OBVIOUS
<1> HIDE DEF p, q
<1>5. p \o <<c>> \in Seq(S) /\ Len(p \o <<c>>) = i + 1
  BY <1>2, <1>4, ConcatProperties
<1>6. Len(p \o <<c>> \o q) = Len(p \o <<c>>) + Len(q)
  BY <1>3, <1>5, ConcatProperties
<1>7. (i + 1) + (Len(s) - i) = Len(s) + 1
  BY <1>1
<1> QED
  BY <1>3, <1>5, <1>6, <1>7 DEF p, q

(* Building or delaying one command lengthens the buffer by one item at    *)
(* most, and only while it is not full.                                    *)
LEMMA BuildOrDelayRoom ==
    ASSUME TypeOK, NEW w \in Worker, NEW c \in Command, BuildOrDelay(w, c)
    PROVE  /\ \A v \in Worker \ {w} : buffer'[v] = buffer[v]
           /\ \/ buffer'[w] = buffer[w]
              \/ /\ ~IsFull(buffer[w])
                 /\ Len(buffer'[w]) = Len(buffer[w]) + 1
<1>1. CASE buffer' = buffer
  BY <1>1
<1>2. ASSUME NEW i \in 0..Len(buffer[w]),
             buffer' = [buffer EXCEPT ![w] =
                 SubSeq(@, 1, i) \o <<c>> \o SubSeq(@, i + 1, Len(@))]
      PROVE  /\ \A v \in Worker \ {w} : buffer'[v] = buffer[v]
             /\ Len(buffer'[w]) = Len(buffer[w]) + 1
  <2>1. buffer[w] \in Seq(Command)
    BY DEF TypeOK
  <2>2. buffer'[w] = SubSeq(buffer[w], 1, i) \o <<c>>
                       \o SubSeq(buffer[w], i + 1, Len(buffer[w]))
    BY <1>2 DEF TypeOK
  <2>3. Len(SubSeq(buffer[w], 1, i) \o <<c>>
              \o SubSeq(buffer[w], i + 1, Len(buffer[w]))) = Len(buffer[w]) + 1
    BY <2>1, InsertLength, Zenon
  <2>4. Len(buffer'[w]) = Len(buffer[w]) + 1
    BY <2>2, <2>3, Zenon
  <2> QED
    BY <1>2, <2>4 DEF TypeOK
<1> QED
  BY <1>1, <1>2 DEF BuildOrDelay, BuildRequest, TerminalSkip, DelayCommand

(* The buffer, the due items and their lengths. *)
LEMMA RoomTypes ==
    ASSUME TypeOK
    PROVE  \A w \in Worker : /\ Len(buffer[w]) \in Nat
                             /\ Len(due[w]) \in Nat
                             /\ due[w] = <<>> => Len(due[w]) = 0
BY LenProperties, EmptySeq DEF TypeOK

(* One worker's step leaves room everywhere if it leaves room there. *)
LEMMA RoomLocal ==
    ASSUME RoomInv, TypeOK, NEW w \in Worker,
           \A v \in Worker \ {w} : /\ buffer'[v] = buffer[v]
                                   /\ due'[v] = due[v]
                                   /\ pc'[v] = pc[v],
           Capacity > 0 => Len(buffer'[w]) + Len(due'[w]) <= Capacity,
           due'[w] # <<>> => pc'[w] = "drain"
    PROVE  RoomInv'
BY DEF RoomInv, RequeueFits

(* Every step leaves room for the items that are due. *)
LEMMA RoomStep == TypeOK /\ RoomInv /\ [Next]_vars => RoomInv'
<1> SUFFICES ASSUME TypeOK, RoomInv, [Next]_vars
             PROVE  RoomInv'
  OBVIOUS
<1> USE DEF redis, effects, loop
<1>0. /\ Capacity \in Nat
      /\ buffer \in [Worker -> Seq(Command)] /\ buffer' \in [Worker -> Seq(Command)]
      /\ due \in [Worker -> Seq(Command)] /\ due' \in [Worker -> Seq(Command)]
      /\ Capacity > 0 =>
           \A w \in Worker : Len(buffer[w]) + Len(due[w]) <= Capacity
  BY TypeStep, ConstantsAssumption DEF TypeOK, RoomInv, RequeueFits
<1>1. ASSUME NEW w \in Worker, PopDue(w)
      PROVE  RoomInv'
  <2>1. /\ Len(buffer'[w]) + Len(due'[w]) <= Len(buffer[w])
        /\ \A v \in Worker \ {w} : buffer'[v] = buffer[v] /\ due'[v] = due[v]
    BY <1>1, PopDueRoom
  <2>2. pc' = pc /\ pc[w] = "drain" /\ due[w] = <<>>
    BY <1>1 DEF PopDue
  <2>3. Capacity > 0 => Len(buffer[w]) <= Capacity
    BY <1>0
  <2>4. Capacity > 0 => Len(buffer'[w]) + Len(due'[w]) <= Capacity
    BY <1>0, <2>1, <2>3
  <2> QED
    BY <2>1, <2>2, <2>4, RoomLocal
<1>2. ASSUME NEW w \in Worker, DrainNext(w)
      PROVE  RoomInv'
  <2>1. due[w] \in Seq(Command) /\ due[w] # <<>>
    BY <1>2 DEF DrainNext, TypeOK
  <2>2. /\ Head(due[w]) \in Command
        /\ Len(Tail(due[w])) = Len(due[w]) - 1
    BY <2>1, HeadTailProperties
  <2>3. /\ \A v \in Worker \ {w} : buffer'[v] = buffer[v]
        /\ buffer'[w] = buffer[w] \/ Len(buffer'[w]) = Len(buffer[w]) + 1
    BY <1>2, <2>2, BuildOrDelayRoom DEF DrainNext
  <2>4. /\ pc' = pc /\ pc[w] = "drain"
        /\ due'[w] = Tail(due[w])
        /\ \A v \in Worker \ {w} : due'[v] = due[v]
    BY <1>2 DEF DrainNext, TypeOK
  <2>5. Capacity > 0 => Len(buffer'[w]) + Len(due'[w]) <= Capacity
    BY <1>0, <2>2, <2>3, <2>4
  <2> QED
    BY <2>3, <2>4, <2>5, RoomLocal
<1>3. ASSUME NEW w \in Worker, DrainDone(w)
      PROVE  RoomInv'
  BY <1>3 DEF DrainDone, Goto, RoomInv, RequeueFits, TypeOK
<1>4. ASSUME NEW w \in Worker, ConsumeEntry(w)
      PROVE  RoomInv'
  <2>1. PICK e \in entries[w] : BuildOrDelay(w, e)
    BY <1>4 DEF ConsumeEntry
  <2>2. due[w] = <<>> /\ due' = due /\ pc' = pc
    BY <1>4 DEF ConsumeEntry, RoomInv
  <2>3. /\ \A v \in Worker \ {w} : buffer'[v] = buffer[v]
        /\ \/ buffer'[w] = buffer[w]
           \/ ~IsFull(buffer[w]) /\ Len(buffer'[w]) = Len(buffer[w]) + 1
    BY <2>1, BuildOrDelayRoom DEF TypeOK
  <2>4. Len(due[w]) = 0
    BY <2>2, RoomTypes
  <2>5. Capacity > 0 => Len(buffer'[w]) + Len(due'[w]) <= Capacity
    BY <1>0, <2>2, <2>3, <2>4 DEF IsFull
  <2> QED
    BY <2>2, <2>3, <2>5, RoomLocal
<1>5. ASSUME NEW w \in Worker, Crash(w) \/ EngineStops(w)
      PROVE  RoomInv'
  <2>1. Gone(w)
    BY <1>5 DEF Crash, EngineStops
  <2>2. /\ buffer'[w] = <<>> /\ due'[w] = <<>>
        /\ \A v \in Worker \ {w} : /\ buffer'[v] = buffer[v]
                                   /\ due'[v] = due[v]
                                   /\ pc'[v] = pc[v]
    BY <2>1 DEF Gone, Goto, TypeOK
  <2>3. Len(buffer'[w]) + Len(due'[w]) <= Capacity
    BY <1>0, <2>2, EmptySeq
  <2> QED
    BY <2>2, <2>3, RoomLocal
<1>r. ASSUME NEW w \in Worker, BuildRaises(w)
      PROVE  RoomInv'
  <2>1. /\ buffer' = buffer /\ due'[w] = <<>>
        /\ \A v \in Worker \ {w} : due'[v] = due[v] /\ pc'[v] = pc[v]
    BY <1>r DEF BuildRaises, Goto, TypeOK
  <2>2. Capacity > 0 => Len(buffer'[w]) + Len(due'[w]) <= Capacity
    BY <1>0, <2>1, EmptySeq, RoomTypes
  <2> QED
    BY <2>1, <2>2, RoomLocal
<1>6. ASSUME NEW w \in Worker,
             \/ Start(w) \/ RequestShutdown(w) \/ LoopTop(w) \/ LeaveBatch(w)
             \/ DiscardInvalid(w)
      PROVE  RoomInv'
  BY <1>6 DEF Start, RequestShutdown, LoopTop, LeaveBatch, DiscardInvalid,
              Goto, RoomInv, RequeueFits, TypeOK
<1>7. ASSUME NEW w \in Worker, Read(w)
      PROVE  RoomInv'
  BY <1>7 DEF Read, NothingToClaim, ReclaimPending, ParseClaim, ReadNew,
              ReadNothing, ReadFails, AfterEmptyClaim, Goto, RoomInv,
              RequeueFits, TypeOK
<1>8. ASSUME NEW w \in Worker, Pipeline(w)
      PROVE  UNCHANGED <<buffer, due, pc>>
  BY <1>8 DEF Pipeline, PutObject, PublishSucceeds, PublishFails,
              AckSucceeds, AckFails
<1>9. ASSUME NEW w \in Worker, NEW c \in flight[w], Respond(w, c)
      PROVE  UNCHANGED <<buffer, due, pc>>
  BY <1>9 DEF Respond
<1>10. ASSUME UNCHANGED <<buffer, due, pc>>
       PROVE  RoomInv'
  BY <1>10 DEF RoomInv, RequeueFits
<1>11. CASE UNCHANGED vars
  BY <1>10, <1>11 DEF vars
<1> QED
  BY <1>1, <1>2, <1>3, <1>4, <1>5, <1>r, <1>6, <1>7, <1>8, <1>9, <1>10, <1>11
     DEF Next, Process, Loop

(* LocalDelayedBuffer: with any capacity, any number of workers and any    *)
(* order of pops, delays and losses, what pop_due() took out still fits.   *)
THEOREM PoppedItemsFit == Spec => []RequeueFits
<1>1. Init => RoomInv
  BY ConstantsAssumption DEF Init, RoomInv, RequeueFits
<1>2. TypeOK /\ RoomInv /\ [Next]_vars => RoomInv'
  BY RoomStep
<1>3. RoomInv => RequeueFits
  BY DEF RoomInv
<1> QED
  BY <1>1, <1>2, <1>3, TypeCorrect, PTL DEF Spec

(***************************************************************************)
(* The retry budget.  delivery_count answers FETCH_QUEUE_MAX_DELIVERIES    *)
(* when XPENDING fails, which by default exceeds every retry budget; the   *)
(* theorem is about the executor whose XPENDING answers, and about         *)
(* commands whose own budget is at least that number.                      *)
(***************************************************************************)
CountIsHonest ==
    "xpending" \notin Faults \/ \A m \in Msg : MaxDeliveries <= MaxRetries[m]

(* An entry that is still pending has used up its retries. *)
Spent(m) == m \in pel => times[m] > MaxRetries[m]

(* A command whose delivery count says so is right. *)
HonestCommand ==
    {c \in Delivered : c.deliveries > MaxRetries[c.msg] => Spent(c.msg)}

(* Whatever a worker holds was read with an honest count, and stays honest *)
(* while other workers claim the entry again or settle it.                 *)
BudgetInv ==
    /\ entries \in [Worker -> SUBSET HonestCommand]
    /\ buffer \in [Worker -> Seq(HonestCommand)]
    /\ due \in [Worker -> Seq(HonestCommand)]
    /\ flight \in [Worker -> SUBSET HonestCommand]
    /\ \A w \in Worker :
         ~Free(w) /\ pipe[w].kind = "retry_exhausted" => Spent(pipe[w].msg)
    /\ \A f \in facts :
         /\ f.msg \in 1..cursor
         /\ f.kind = "retry_exhausted" => Spent(f.msg)

(* The delivery counts of delivered entries never go back, and a settled   *)
(* entry is never pending again.                                           *)
LEMMA SpentStays ==
    ASSUME TypeOK, [Next]_vars, NEW m \in 1..cursor, Spent(m)
    PROVE  Spent(m)'
<1> USE ConstantsAssumption, CapAssumption DEF redis, effects, loop
<1>0. m \in Msg /\ times[m] \in Nat /\ MaxRetries[m] \in Nat /\ cursor \in Nat
  BY DEF TypeOK, Msg
<1>1. ASSUME NEW k \in Nat, Deliver(k)
      PROVE  Spent(m)'
  BY <1>0, <1>1 DEF Deliver, Spent
<1>2. ASSUME NEW w \in Worker, Reads(w)
      PROVE  Spent(m)'
  <2>1. \E k \in 0..ReadCount : Deliver(k)
    BY <1>2 DEF Reads, ReadNew, ReadFails
  <2> QED
    BY <1>1, <2>1
<1>3. ASSUME NEW w \in Worker, ReclaimPending(w)
      PROVE  Spent(m)'
  <2>1. PICK S \in SUBSET pel :
          times' = [n \in Msg |-> IF n \in S THEN Bump(times[n]) ELSE times[n]]
    BY <1>3 DEF ReclaimPending
  <2>2. times[m] > MaxRetries[m] => times'[m] > MaxRetries[m]
    BY <1>0, <2>1 DEF Bump
  <2> QED
    BY <1>3, <2>2 DEF ReclaimPending, Spent
<1>4. ASSUME pel' \subseteq pel, times' = times
      PROVE  Spent(m)'
  BY <1>4 DEF Spent
<1>5. ASSUME NEW w \in Worker, Acks(w)
      PROVE  Spent(m)'
  <2>1. pel' \subseteq pel /\ times' = times
    BY <1>5 DEF Acks, DiscardInvalid, AckSucceeds, AckFails
  <2> QED
    BY <1>4, <2>1
<1>6. ASSUME NEW w \in Worker,
             Process(w) \/ (Loop(w) /\ ~DiscardInvalid(w))
      PROVE  Spent(m)'
  <2>1. UNCHANGED <<pel, times>>
    BY <1>6 DEF Process, Start, Crash, RequestShutdown, EngineStops, Gone,
                Loop, LoopTop, PopDue, DrainNext, DrainDone, LeaveBatch,
                ConsumeEntry, BuildRaises
  <2> QED
    BY <1>4, <2>1
<1>7. ASSUME NEW w \in Worker,
             NothingToClaim(w) \/ ParseClaim(w) \/ ReadNothing(w)
      PROVE  Spent(m)'
  <2>1. UNCHANGED <<pel, times>>
    BY <1>7 DEF NothingToClaim, ParseClaim, ReadNothing
  <2> QED
    BY <1>4, <2>1
<1>8. ASSUME NEW w \in Worker,
             PutObject(w) \/ PublishSucceeds(w) \/ PublishFails(w)
      PROVE  Spent(m)'
  <2>1. UNCHANGED <<pel, times>>
    BY <1>8 DEF PutObject, PublishSucceeds, PublishFails
  <2> QED
    BY <1>4, <2>1
<1>9. ASSUME NEW w \in Worker, NEW c \in flight[w], Respond(w, c)
      PROVE  Spent(m)'
  <2>1. UNCHANGED <<pel, times>>
    BY <1>9 DEF Respond
  <2> QED
    BY <1>4, <2>1
<1>10. CASE UNCHANGED vars
  BY <1>4, <1>10 DEF vars
<1> QED
  BY <1>2, <1>3, <1>5, <1>6, <1>7, <1>8, <1>9, <1>10
     DEF Next, Loop, Read, Pipeline, Reads, Acks

(* So what was honest stays honest. *)
LEMMA HonestGrows ==
    ASSUME TypeOK, [Next]_vars
    PROVE  HonestCommand \subseteq HonestCommand'
<1>1. Delivered \subseteq Delivered'
  BY LiveGrows
<1>2. ASSUME NEW c \in HonestCommand
      PROVE  c \in HonestCommand'
  <2>1. c \in Delivered /\ c.msg \in 1..cursor
    BY DEF HonestCommand, Delivered
  <2>2. Spent(c.msg) => Spent(c.msg)'
    BY <2>1, SpentStays
  <2> QED
    BY <1>1, <2>1, <2>2 DEF HonestCommand
<1> QED
  BY <1>2

(* Commands only move between the batch, the buffer, the due items and the *)
(* engine: new ones come from the two reads alone.                         *)
LEMMA MovesKeep ==
    ASSUME TypeOK, [Next]_vars, NEW S, S \subseteq Command,
           entries \in [Worker -> SUBSET S], buffer \in [Worker -> Seq(S)],
           due \in [Worker -> Seq(S)], flight \in [Worker -> SUBSET S],
           \A w \in Worker : ParseClaim(w) \/ ReadNew(w) =>
                               entries' \in [Worker -> SUBSET S]
    PROVE  /\ entries' \in [Worker -> SUBSET S]
           /\ buffer' \in [Worker -> Seq(S)]
           /\ due' \in [Worker -> Seq(S)]
           /\ flight' \in [Worker -> SUBSET S]
<1> DEFINE Kept == /\ entries' \in [Worker -> SUBSET S]
                   /\ buffer' \in [Worker -> Seq(S)]
                   /\ due' \in [Worker -> Seq(S)]
                   /\ flight' \in [Worker -> SUBSET S]
<1> USE DEF redis, effects, loop
<1>1. ASSUME NEW w \in Worker, Crash(w) \/ EngineStops(w)
      PROVE  Kept
  <2>1. Gone(w)
    BY <1>1 DEF Crash, EngineStops
  <2>2. <<>> \in Seq(S)
    BY EmptySeq
  <2>3. entries' \in [Worker -> SUBSET S] /\ flight' \in [Worker -> SUBSET S]
    BY <2>1 DEF Gone
  <2>4. buffer' \in [Worker -> Seq(S)] /\ due' \in [Worker -> Seq(S)]
    BY <2>1, <2>2 DEF Gone
  <2> QED
    BY <2>3, <2>4
<1>2. ASSUME NEW w \in Worker,
             \/ Start(w) \/ RequestShutdown(w) \/ LoopTop(w) \/ DrainDone(w)
             \/ NothingToClaim(w) \/ ReclaimPending(w) \/ ReadNothing(w)
             \/ ReadFails(w)
      PROVE  Kept
  BY <1>2 DEF Start, RequestShutdown, LoopTop, DrainDone, NothingToClaim,
              ReclaimPending, ReadNothing, ReadFails
<1>3. ASSUME NEW w \in Worker, PopDue(w)
      PROVE  Kept
  <2>1. buffer' \in [Worker -> Seq(S)] /\ due' \in [Worker -> Seq(S)]
    BY <1>3, PopDueKeeps
  <2> QED
    BY <1>3, <2>1 DEF PopDue
<1>4. ASSUME NEW w \in Worker, DrainNext(w)
      PROVE  Kept
  <2>1. Head(due[w]) \in S /\ Tail(due[w]) \in Seq(S)
    BY <1>4, HeadTailProperties DEF DrainNext
  <2>2. buffer' \in [Worker -> Seq(S)] /\ flight' \in [Worker -> SUBSET S]
    BY <1>4, <2>1, BuildOrDelayKeeps DEF DrainNext, TypeOK
  <2> QED
    BY <1>4, <2>1, <2>2 DEF DrainNext
<1>5. ASSUME NEW w \in Worker, ConsumeEntry(w)
      PROVE  Kept
  <2>1. PICK e \in entries[w] :
          entries' = [entries EXCEPT ![w] = @ \ {e}] /\ BuildOrDelay(w, e)
    BY <1>5 DEF ConsumeEntry
  <2>2. e \in S
    BY <2>1
  <2>3. buffer' \in [Worker -> Seq(S)] /\ flight' \in [Worker -> SUBSET S]
    BY <2>1, <2>2, BuildOrDelayKeeps DEF TypeOK
  <2> QED
    BY <1>5, <2>1, <2>3 DEF ConsumeEntry
<1>6. ASSUME NEW w \in Worker, LeaveBatch(w) \/ DiscardInvalid(w)
      PROVE  Kept
  <2>1. entries' \in [Worker -> SUBSET S]
    <3>1. \/ entries' = [entries EXCEPT ![w] = {}]
          \/ \E e : entries' = [entries EXCEPT ![w] = @ \ {e}]
      BY <1>6 DEF LeaveBatch, DiscardInvalid
    <3> QED
      BY <3>1
  <2> QED
    BY <1>6, <2>1 DEF LeaveBatch, DiscardInvalid
<1>r. ASSUME NEW w \in Worker, BuildRaises(w)
      PROVE  Kept
  <2>1. <<>> \in Seq(S)
    BY EmptySeq
  <2>2. entries' \in [Worker -> SUBSET S] /\ due' \in [Worker -> Seq(S)]
    BY <1>r, <2>1 DEF BuildRaises
  <2> QED
    BY <1>r, <2>2 DEF BuildRaises
<1>7. ASSUME NEW w \in Worker, ParseClaim(w) \/ ReadNew(w)
      PROVE  Kept
  BY <1>7 DEF ParseClaim, ReadNew
<1>8. ASSUME NEW w \in Worker, Pipeline(w)
      PROVE  Kept
  BY <1>8 DEF Pipeline, PutObject, PublishSucceeds, PublishFails,
              AckSucceeds, AckFails
<1>9. ASSUME NEW w \in Worker, NEW c \in flight[w], Respond(w, c)
      PROVE  Kept
  BY <1>9 DEF Respond
<1>10. CASE UNCHANGED vars
  BY <1>10 DEF vars
<1> QED
  BY <1>1, <1>2, <1>3, <1>4, <1>5, <1>6, <1>r, <1>7, <1>8, <1>9, <1>10
     DEF Next, Process, Loop, Read

(* _consume_messages and delivery_count: what a read hands over is honest. *)
LEMMA ReadsAreHonest ==
    ASSUME CountIsHonest, TypeOK, HeldWasDelivered, [Next]_vars,
           entries \in [Worker -> SUBSET HonestCommand'],
           NEW w \in Worker, ParseClaim(w) \/ ReadNew(w)
    PROVE  entries' \in [Worker -> SUBSET HonestCommand']
<1> USE ConstantsAssumption DEF redis
<1>1. CASE ParseClaim(w)
  <2>1. UNCHANGED <<cursor, pel, times>> /\ claimed[w] \subseteq 1..cursor
    BY <1>1 DEF ParseClaim, HeldWasDelivered
  <2>2. ASSUME NEW m \in claimed[w], NEW lost \in SUBSET claimed[w],
               lost # {} => "xpending" \in Faults
        PROVE  [msg |-> m, deliveries |-> DeliveryCount(m, lost)] \in HonestCommand'
    <3>1. m \in 1..cursor /\ m \in Msg /\ times[m] \in Nat
      BY <2>1 DEF TypeOK, Msg
    <3>2. DeliveryCount(m, lost) \in Nat
      BY <3>1 DEF DeliveryCount
    <3>3. DeliveryCount(m, lost) > MaxRetries[m] => Spent(m)'
      <4>1. CASE m \in pel \ lost
        BY <2>1, <4>1 DEF DeliveryCount, Spent
      <4>2. CASE m \notin pel
        BY <2>1, <4>2 DEF Spent
      <4>3. CASE m \in lost
        <5>1. MaxDeliveries <= MaxRetries[m] /\ MaxRetries[m] \in Nat
          BY <2>2, <3>1, <4>3 DEF CountIsHonest
        <5>2. DeliveryCount(m, lost) = MaxDeliveries
          BY <4>3 DEF DeliveryCount
        <5> QED
          BY <5>1, <5>2
      <4> QED
        BY <4>1, <4>2, <4>3
    <3> QED
      BY <2>1, <3>1, <3>2, <3>3 DEF HonestCommand, Delivered
  <2>3. \/ entries' = entries
        \/ \E lost \in SUBSET claimed[w] :
             /\ lost # {} => "xpending" \in Faults
             /\ entries' = [entries EXCEPT ![w] =
                    {[msg |-> m, deliveries |-> DeliveryCount(m, lost)] :
                        m \in claimed[w]}]
    BY <1>1 DEF ParseClaim
  <2> HIDE DEF HonestCommand
  <2> QED
    BY <2>2, <2>3
<1>2. CASE ReadNew(w)
  <2>1. PICK k \in 1..ReadCount :
          /\ Deliver(k)
          /\ \/ UNCHANGED entries
             \/ entries' = [entries EXCEPT ![w] =
                    {[msg |-> m, deliveries |-> 1] :
                        m \in (cursor + 1)..(cursor + k)}]
    BY <1>2 DEF ReadNew
  <2>2. ASSUME NEW m \in (cursor + 1)..(cursor + k)
        PROVE  [msg |-> m, deliveries |-> 1] \in HonestCommand'
    <3>1. cursor \in Nat /\ k \in Nat /\ cursor' = cursor + k /\ cursor + k <= N
      BY <2>1 DEF Deliver, TypeOK
    <3>2. m \in 1..cursor' /\ m \in Msg
      BY <3>1 DEF Msg
    <3>3. times'[m] = 1
      BY <2>1, <3>2 DEF Deliver
    <3>4. 1 > MaxRetries[m] => Spent(m)'
      BY <3>3 DEF Spent
    <3> QED
      BY <3>2, <3>4 DEF HonestCommand, Delivered
  <2> HIDE DEF HonestCommand
  <2> QED
    BY <2>1, <2>2
<1> QED
  BY <1>1, <1>2

(* An item enters the pipeline as retry_exhausted only from a response to  *)
(* a command whose count exceeds its budget.                               *)
LEMMA ExhaustedEntry ==
    ASSUME TypeOK, [Next]_vars, NEW w \in Worker,
           ~Free(w)', pipe'[w].kind = "retry_exhausted"
    PROVE  \/ /\ ~Free(w) /\ pipe[w].kind = "retry_exhausted"
              /\ pipe'[w].msg = pipe[w].msg
           \/ \E c \in flight[w] : /\ c.deliveries > MaxRetries[c.msg]
                                   /\ pipe'[w].msg = c.msg
<1> DEFINE Same == /\ ~Free(w) /\ pipe[w].kind = "retry_exhausted"
                   /\ pipe'[w].msg = pipe[w].msg
<1> USE DEF redis, effects, loop
<1>0. pipe \in [Worker -> Item \cup {NoItem}] /\ flight[w] \subseteq Command
  BY DEF TypeOK
<1>1. ASSUME pipe'[w] = pipe[w]
      PROVE  Same
  BY <1>1 DEF Free
<1>2. ASSUME NEW v \in Worker, Crash(v) \/ EngineStops(v)
      PROVE  Same
  <2>1. pipe'[w] = pipe[w] \/ pipe'[w] = NoItem
    BY <1>0, <1>2 DEF Crash, EngineStops, Gone
  <2> QED
    BY <1>1, <2>1 DEF Free
<1>3. ASSUME NEW v \in Worker,
             \/ Start(v) \/ RequestShutdown(v) \/ LoopTop(v) \/ PopDue(v)
             \/ DrainDone(v) \/ LeaveBatch(v) \/ DiscardInvalid(v)
             \/ BuildRaises(v) \/ Read(v)
      PROVE  Same
  BY <1>1, <1>3 DEF Start, RequestShutdown, LoopTop, PopDue, DrainDone,
                    LeaveBatch, DiscardInvalid, BuildRaises, Read, NothingToClaim,
                    ReclaimPending, ParseClaim, ReadNew, ReadNothing, ReadFails
<1>4. ASSUME NEW v \in Worker, DrainNext(v) \/ ConsumeEntry(v)
      PROVE  Same
  <2>1. \E c : BuildOrDelay(v, c)
    BY <1>4 DEF DrainNext, ConsumeEntry
  <2>2. \/ pipe' = pipe
        \/ \E m : pipe' = [pipe EXCEPT ![v] =
                    [msg |-> m, kind |-> "skipped", stage |-> "publish"]]
    BY <2>1, BuildOrDelayPipe
  <2>3. pipe'[w] = pipe[w] \/ pipe'[w].kind = "skipped"
    BY <1>0, <2>2
  <2> QED
    BY <1>1, <2>3
<1>5. ASSUME NEW v \in Worker, PutObject(v)
      PROVE  Same
  <2>1. ~Free(v) /\ pipe[v] \in Item
    BY <1>5, PipeItem, AtStageBusy DEF PutObject
  <2>2. \/ pipe' = [pipe EXCEPT ![v] = [pipe[v] EXCEPT !.stage = "publish"]]
        \/ pipe' = [pipe EXCEPT ![v] = [pipe[v] EXCEPT !.kind = "storage_failed",
                                                       !.stage = "publish"]]
    BY <1>5, <2>1 DEF PutObject, Item
  <2>3. ASSUME NEW x \in Item
        PROVE  /\ [x EXCEPT !.stage = "publish"].msg = x.msg
               /\ [x EXCEPT !.stage = "publish"].kind = x.kind
               /\ [x EXCEPT !.kind = "storage_failed", !.stage = "publish"].kind
                    = "storage_failed"
    BY DEF Item
  <2>4. \/ pipe'[w] = pipe[w]
        \/ /\ w = v
           /\ \/ pipe'[w] = [pipe[w] EXCEPT !.stage = "publish"]
              \/ pipe'[w] = [pipe[w] EXCEPT !.kind = "storage_failed",
                                            !.stage = "publish"]
    BY <1>0, <2>2
  <2> QED
    BY <1>1, <2>1, <2>3, <2>4
<1>6. ASSUME NEW v \in Worker, PublishSucceeds(v)
      PROVE  Same
  <2>1. ~Free(v) /\ pipe[v] \in Item
    BY <1>6, PipeItem, AtStageBusy DEF PublishSucceeds
  <2>2. pipe' = [pipe EXCEPT ![v] = [pipe[v] EXCEPT !.stage = "ack"]]
    BY <1>6 DEF PublishSucceeds
  <2>3. /\ [pipe[v] EXCEPT !.stage = "ack"].msg = pipe[v].msg
        /\ [pipe[v] EXCEPT !.stage = "ack"].kind = pipe[v].kind
    BY <2>1 DEF Item
  <2>4. pipe'[w] = pipe[w] \/ (w = v /\ pipe'[w] = [pipe[v] EXCEPT !.stage = "ack"])
    BY <1>0, <2>2
  <2> QED
    BY <1>1, <2>1, <2>3, <2>4
<1>7. ASSUME NEW v \in Worker, PublishFails(v) \/ AckSucceeds(v) \/ AckFails(v)
      PROVE  Same
  <2>1. pipe'[w] = pipe[w] \/ pipe'[w] = NoItem
    BY <1>0, <1>7 DEF PublishFails, AckSucceeds, AckFails
  <2> QED
    BY <1>1, <2>1 DEF Free
<1>8. ASSUME NEW v \in Worker, NEW c \in flight[v], Respond(v, c)
      PROVE  \/ Same
             \/ /\ v = w /\ c.deliveries > MaxRetries[c.msg]
                /\ pipe'[w].msg = c.msg
  <2>1. CASE pipe'[w] = pipe[w]
    BY <1>1, <2>1
  <2>2. CASE pipe'[w] # pipe[w]
    <3>1. v = w /\ \E kind \in {"retry_exhausted", "stored", "non_snapshot"},
                      stage \in {"store", "publish"} :
            pipe'[w] = [msg |-> c.msg, kind |-> kind, stage |-> stage]
      BY <1>0, <1>8, <2>2 DEF Respond, FetchFailed, FetchSucceeded, EnterPipeline
    <3>2. CASE ~ShouldRetry(c)
      <4>1. c \in Command /\ c.msg \in Msg /\ MaxRetries[c.msg] \in Nat
        BY <1>0, <3>1, ConstantsAssumption DEF Command
      <4>2. c.deliveries > MaxRetries[c.msg]
        BY <3>2, <4>1 DEF ShouldRetry, Command
      <4> QED
        BY <3>1, <4>2
    <3>3. CASE ShouldRetry(c)
      <4>1. FetchSucceeded(w, c)
        BY <1>8, <2>2, <3>1, <3>3 DEF Respond, FetchFailed
      <4>2. pipe'[w].kind \in {"stored", "non_snapshot"}
        BY <1>0, <2>2, <4>1 DEF FetchSucceeded, EnterPipeline
      <4> QED
        BY <4>2
    <3> QED
      BY <3>2, <3>3
  <2> QED
    BY <2>1, <2>2
<1>9. CASE UNCHANGED vars
  BY <1>1, <1>9 DEF vars
<1> QED
  BY <1>2, <1>3, <1>4, <1>5, <1>6, <1>7, <1>8, <1>9
     DEF Next, Process, Loop, Pipeline

(* BudgetInv is inductive beside IInv. *)
LEMMA BudgetStep ==
    ASSUME CountIsHonest, IInv, BudgetInv, [Next]_vars
    PROVE  BudgetInv'
<1> USE DEF IInv
<1>1. HonestCommand \subseteq HonestCommand'
  BY HonestGrows
<1>2. HonestCommand' \subseteq Command
  <2>1. TypeOK'
    BY TypeStep
  <2>2. cursor' \in Nat /\ cursor' <= N
    BY <2>1, ConstantsAssumption DEF TypeOK
  <2> QED
    BY <2>2, ConstantsAssumption DEF HonestCommand, Delivered, Command, Msg
<1>3. /\ entries \in [Worker -> SUBSET HonestCommand']
      /\ buffer \in [Worker -> Seq(HonestCommand')]
      /\ due \in [Worker -> Seq(HonestCommand')]
      /\ flight \in [Worker -> SUBSET HonestCommand']
  <2>1. \A S, T : S \subseteq T => \A s \in Seq(S) : s \in Seq(T)
    BY SeqMonotonic
  <2>2. \A w \in Worker : /\ buffer[w] \in Seq(HonestCommand')
                          /\ due[w] \in Seq(HonestCommand')
    BY <1>1, <2>1 DEF BudgetInv
  <2> QED
    BY <1>1, <2>2 DEF BudgetInv
<1>4. \A w \in Worker : ParseClaim(w) \/ ReadNew(w) =>
                          entries' \in [Worker -> SUBSET HonestCommand']
  BY <1>3, ReadsAreHonest
<1>5. /\ entries' \in [Worker -> SUBSET HonestCommand']
      /\ buffer' \in [Worker -> Seq(HonestCommand')]
      /\ due' \in [Worker -> Seq(HonestCommand')]
      /\ flight' \in [Worker -> SUBSET HonestCommand']
  <2> DEFINE S == HonestCommand'
  <2>1. S \subseteq Command /\ entries \in [Worker -> SUBSET S]
        /\ buffer \in [Worker -> Seq(S)] /\ due \in [Worker -> Seq(S)]
        /\ flight \in [Worker -> SUBSET S]
        /\ \A w \in Worker : ParseClaim(w) \/ ReadNew(w) =>
                               entries' \in [Worker -> SUBSET S]
    BY <1>2, <1>3, <1>4
  <2> HIDE DEF S
  <2>2. /\ entries' \in [Worker -> SUBSET S] /\ buffer' \in [Worker -> Seq(S)]
        /\ due' \in [Worker -> Seq(S)] /\ flight' \in [Worker -> SUBSET S]
    BY <2>1, MovesKeep
  <2> QED
    BY <2>2 DEF S
<1>6. \A m \in 1..cursor : m \in 1..cursor' /\ (Spent(m) => Spent(m)')
  BY LiveGrows, SpentStays
<1> DEFINE SpentNext(m) == m \in pel' => times'[m] > MaxRetries[m]
<1>7. ASSUME NEW w \in Worker, ~Free(w)', pipe'[w].kind = "retry_exhausted"
      PROVE  SpentNext(pipe'[w].msg)
  <2>1. CASE /\ ~Free(w) /\ pipe[w].kind = "retry_exhausted"
             /\ pipe'[w].msg = pipe[w].msg
    <3>1. pipe[w].msg \in 1..cursor /\ Spent(pipe[w].msg)
      BY <2>1 DEF HeldWasDelivered, BudgetInv
    <3>2. SpentNext(pipe[w].msg)
      BY <1>6, <3>1 DEF Spent
    <3> QED
      BY <2>1, <3>2
  <2>2. ASSUME NEW c \in flight[w], c.deliveries > MaxRetries[c.msg],
               pipe'[w].msg = c.msg
        PROVE  SpentNext(pipe'[w].msg)
    <3>1. c \in HonestCommand'
      BY <1>3
    <3> QED
      BY <2>2, <3>1 DEF HonestCommand, Spent
  <2> QED
    BY <1>7, <2>1, <2>2, ExhaustedEntry
<1>8. ASSUME NEW f \in facts'
      PROVE  /\ f.msg \in 1..cursor'
             /\ f.kind = "retry_exhausted" => Spent(f.msg)'
  <2>1. CASE f \in facts
    BY <1>6, <2>1 DEF BudgetInv, Spent
  <2>2. CASE f \notin facts
    <3>1. PICK w \in Worker : Publishes(w)
      BY <1>8, <2>2, FactsFrame
    <3>2. /\ AtStage(w, "publish") /\ pipe[w] \in Item
          /\ f = [msg |-> pipe[w].msg, kind |-> pipe[w].kind]
      BY <1>8, <2>2, <3>1, PublishesEffect
    <3>3. ~Free(w)
      BY <3>2, AtStageBusy
    <3>4. pipe[w].msg \in 1..cursor
      BY <3>3 DEF HeldWasDelivered
    <3>5. f.msg = pipe[w].msg /\ f.kind = pipe[w].kind
      BY <3>2
    <3>6. f.kind = "retry_exhausted" => Spent(f.msg)
      BY <3>3, <3>5 DEF BudgetInv
    <3> QED
      BY <1>6, <3>4, <3>5, <3>6 DEF Spent
  <2> QED
    BY <2>1, <2>2
<1> QED
  BY <1>5, <1>7, <1>8 DEF BudgetInv, Spent, Free

(* ADR-0008: while XPENDING answers, retry_exhausted about a command that  *)
(* is still pending means more deliveries than effective_max_retries, for  *)
(* any number of workers claiming, fetching and acknowledging it at once.  *)
THEOREM BudgetsAreGranted ==
    ASSUME CountIsHonest
    PROVE  Spec => []BudgetNeverCutShort
<1>1. Init => BudgetInv
  BY EmptySeq DEF Init, BudgetInv, Free
<1>2. IInv /\ BudgetInv /\ [Next]_vars => BudgetInv'
  BY BudgetStep
<1>3. BudgetInv => BudgetNeverCutShort
  BY DEF BudgetInv, BudgetNeverCutShort, Spent
<1> QED
  BY <1>1, <1>2, <1>3, InductiveInvariant, PTL DEF Spec

=============================================================================
