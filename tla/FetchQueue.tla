----------------------------- MODULE FetchQueue -----------------------------
(***************************************************************************)
(* The core of crawler-executor: worker processes that take fetch commands *)
(* from one Redis Streams consumer group, fetch them, store the page,      *)
(* publish a crawl_attempt fact to Kafka and only then XACK the command.   *)
(*                                                                         *)
(* A worker is one Scrapy process.  Its consumption loop (FetchQueueSpider *)
(* .start), the response callbacks and the item pipeline share the reactor *)
(* thread, so none of them moves while the pipeline works on an item;      *)
(* RedisStreamsFetchConsumer.read runs in a thread of its own and          *)
(* interleaves with everything.  A termination signal may arrive anywhere. *)
(*                                                                         *)
(* Time is not modelled here.  Which pending entries have been idle long   *)
(* enough for XAUTOCLAIM, which delayed commands are due, and how many new *)
(* entries a blocking XREADGROUP finds are nondeterministic choices.       *)
(***************************************************************************)
EXTENDS Integers, Sequences, FiniteSets

CONSTANTS
    Worker,         \* worker processes (one per node)
    N,              \* stream entries, numbered in stream order
    Invalid,        \* entries parse_fetch_command rejects (FetchCommandError)
    Unparsable,     \* entries on which parsing raises another exception
    MaxRetries,     \* effective_max_retries of each entry
    MaxDeliveries,  \* FETCH_QUEUE_MAX_DELIVERIES
    ReadCount,      \* FETCH_QUEUE_READ_COUNT
    MaxMessages,    \* max_messages (0: no limit)
    Capacity,       \* LOCAL_DELAYED_BUFFER_CAPACITY (0: no limit)
    StopReading,    \* STOP_READING_WHEN_DELAYED_BUFFER_FULL
    Decisions,      \* what policy and pacer may decide: see Decision
    Answers,        \* how sites may answer: see Answer
    Faults,         \* dependency calls that may fail: see Fault
    DeliveryCap,    \* bound: times_delivered is counted up to this value
    MaxStops        \* bound: crashes and signals in one behaviour

Msg == 1..N
Decision == {"request", "delay", "skip", "raise"}
Answer == {"html", "other", "retryable", "malformed"}
Fault == {"xautoclaim", "xpending", "xreadgroup", "xack", "storage", "kafka"}
FactKind == {"stored", "storage_failed", "non_snapshot", "retry_exhausted",
             "skipped"}
Fact == [msg : Msg, kind : FactKind]

(* A decoded command: the entry and the delivery count it was read with. *)
Command == [msg : Msg, deliveries : Nat]

(* The item the pipeline is working on; NoItem when the reactor is free. *)
Item == [msg : Msg, kind : FactKind, stage : {"store", "publish", "ack"}]
NoItem == [stage |-> "none"]

Location == {"down", "loop", "drain", "claim", "parse", "readnew", "batch",
             "ended"}

ASSUME ConstantsAssumption ==
    /\ N \in Nat
    /\ Invalid \subseteq Msg
    /\ Unparsable \subseteq Msg \ Invalid
    /\ MaxRetries \in [Msg -> Nat]
    /\ MaxDeliveries \in Nat
    /\ ReadCount \in Nat \ {0}
    /\ MaxMessages \in Nat
    /\ Capacity \in Nat
    /\ StopReading \in BOOLEAN
    /\ Decisions \subseteq Decision
    /\ Answers \subseteq Answer
    /\ Faults \subseteq Fault
    /\ DeliveryCap \in Nat \ {0}
    /\ MaxStops \in Nat

(* Saturating the count must not hide an exhausted retry budget. *)
ASSUME CapAssumption == \A m \in Msg : MaxRetries[m] < DeliveryCap

VARIABLES
    cursor,     \* last-delivered-id of the consumer group
    pel,        \* the group's pending entries list
    times,      \* times_delivered of every entry
    facts,      \* crawl_attempt facts in Kafka
    objects,    \* entries whose page is in the object store
    pc,         \* where a worker's consumption loop is
    shutdown,   \* consumer._shutdown
    claimed,    \* XAUTOCLAIM reply being parsed by the read thread
    entries,    \* the batch read() returned, not yet consumed
    buffer,     \* LocalDelayedBuffer._items, sorted by eligible_at_ms
    due,        \* items pop_due() returned, not yet rebuilt
    flight,     \* requests handed to the Scrapy engine
    pipe,       \* the item in the pipeline
    seen,       \* seen_messages, counted up to MaxMessages
    stops       \* crashes and signals so far

redis == <<cursor, pel, times>>
effects == <<facts, objects>>
loop == <<claimed, entries, buffer, due, seen>>
vars == <<redis, effects, pc, shutdown, loop, flight, pipe, stops>>

Free(w) == pipe[w] = NoItem

\* Mutant: one item too many fits.
IsFullOffByOne(b) == Capacity > 0 /\ Len(b) > Capacity

IsFull(b) == Capacity > 0 /\ Len(b) >= Capacity
MaxReached(w) == MaxMessages > 0 /\ seen[w] >= MaxMessages
Bump(n) == IF n < DeliveryCap THEN n + 1 ELSE n
Goto(w, l) == pc' = [pc EXCEPT ![w] = l]

Init ==
    /\ cursor = 0
    /\ pel = {}
    /\ times = [m \in Msg |-> 0]
    /\ facts = {}
    /\ objects = {}
    /\ pc = [w \in Worker |-> "down"]
    /\ shutdown = [w \in Worker |-> FALSE]
    /\ claimed = [w \in Worker |-> {}]
    /\ entries = [w \in Worker |-> {}]
    /\ buffer = [w \in Worker |-> <<>>]
    /\ due = [w \in Worker |-> <<>>]
    /\ flight = [w \in Worker |-> {}]
    /\ pipe = [w \in Worker |-> NoItem]
    /\ seen = [w \in Worker |-> 0]
    /\ stops = 0

-----------------------------------------------------------------------------
(***************************************************************************)
(* The life of the process.                                                *)
(***************************************************************************)

(* start() up to its loop.  ensure_group creates the group at id 0 the     *)
(* first time and finds BUSYGROUP afterwards: the cursor never moves.      *)
Start(w) ==
    /\ pc[w] = "down"
    /\ Goto(w, "loop")
    /\ UNCHANGED <<redis, effects, shutdown, loop, flight, pipe, stops>>

(* Everything a process holds in memory is gone with it. *)
Gone(w) ==
    /\ Goto(w, "down")
    /\ shutdown' = [shutdown EXCEPT ![w] = FALSE]
    /\ claimed' = [claimed EXCEPT ![w] = {}]
    /\ entries' = [entries EXCEPT ![w] = {}]
    /\ buffer' = [buffer EXCEPT ![w] = <<>>]
    /\ due' = [due EXCEPT ![w] = <<>>]
    /\ flight' = [flight EXCEPT ![w] = {}]
    /\ pipe' = [pipe EXCEPT ![w] = NoItem]
    /\ seen' = [seen EXCEPT ![w] = 0]
    /\ UNCHANGED <<redis, effects>>

(* SIGKILL, an out-of-memory kill, a lost node. *)
Crash(w) ==
    /\ pc[w] # "down"
    /\ stops < MaxStops
    /\ stops' = stops + 1
    /\ Gone(w)

(* SIGTERM or SIGINT: the handler only raises the flag. *)
RequestShutdown(w) ==
    /\ pc[w] # "down"
    /\ ~shutdown[w]
    /\ stops < MaxStops
    /\ stops' = stops + 1
    /\ shutdown' = [shutdown EXCEPT ![w] = TRUE]
    /\ UNCHANGED <<redis, effects, pc, loop, flight, pipe>>

(* Scrapy closes the spider: after a signal with requests possibly still   *)
(* unfinished, or when the loop has ended and the engine is idle.          *)
EngineStops(w) ==
    /\ pc[w] # "down"
    /\ Free(w)
    /\ shutdown[w] \/ (pc[w] = "ended" /\ flight[w] = {})
    /\ Gone(w)
    /\ UNCHANGED stops

-----------------------------------------------------------------------------
(***************************************************************************)
(* What becomes of one valid command: _build_or_delay_request.  A policy   *)
(* pause or an expired deadline yields a terminal item, a cooldown or the  *)
(* host/IP pacer delays, anything else is handed to the engine; unless the *)
(* decision raises (BuildRaises, below).                                   *)
(***************************************************************************)
BuildRequest(w, c) ==
    /\ "request" \in Decisions
    /\ flight' = [flight EXCEPT ![w] = @ \cup {c}]
    /\ UNCHANGED <<buffer, pipe>>

EnterPipeline(w, c, kind, stage) ==
    pipe' = [pipe EXCEPT ![w] = [msg |-> c.msg, kind |-> kind, stage |-> stage]]

TerminalSkip(w, c) ==
    /\ "skip" \in Decisions
    /\ EnterPipeline(w, c, "skipped", "publish")
    /\ UNCHANGED <<buffer, flight>>

(* A full buffer drops the command here; the entry stays in the PEL. *)
DelayCommand(w, c) ==
    /\ "delay" \in Decisions
    /\ IF IsFull(buffer[w])
         THEN UNCHANGED buffer
         ELSE \E i \in 0..Len(buffer[w]) :
                buffer' = [buffer EXCEPT ![w] =
                    SubSeq(@, 1, i) \o <<c>> \o SubSeq(@, i + 1, Len(@))]
    /\ UNCHANGED <<flight, pipe>>

BuildOrDelay(w, c) ==
    BuildRequest(w, c) \/ TerminalSkip(w, c) \/ DelayCommand(w, c)

-----------------------------------------------------------------------------
(***************************************************************************)
(* The consumption loop.  An iteration that finds the worker paused only   *)
(* sleeps and is not a step.                                               *)
(***************************************************************************)
LoopTop(w) ==
    /\ pc[w] = "loop"
    /\ Free(w)
    /\ Goto(w, IF shutdown[w] \/ MaxReached(w) THEN "ended" ELSE "drain")
    /\ UNCHANGED <<redis, effects, shutdown, loop, flight, pipe, stops>>

(* The ways to walk through the set I of indices in ascending order: one. *)
Ascending(I) ==
    {h \in [1..Cardinality(I) -> I] :
        \A i, j \in 1..Cardinality(I) : i < j => h[i] < h[j]}

(* The due items are a prefix of the sorted buffer.  What pop_due keeps    *)
(* leaves out every item with the key of a due one, so a second copy of a  *)
(* command that is not due yet may vanish with the first.                  *)
PopDue(w) ==
    /\ pc[w] = "drain"
    /\ Free(w)
    /\ due[w] = <<>>
    /\ ~shutdown[w]
    /\ \E k \in 1..Len(buffer[w]) :
        LET items  == buffer[w]
            popped == SubSeq(items, 1, k)
        IN  \E same \in SUBSET {popped[i].msg : i \in 1..k} :
            \E h \in Ascending({i \in (k + 1)..Len(items) :
                                    items[i].msg \notin same}) :
              /\ due' = [due EXCEPT ![w] = popped]
              /\ buffer' = [buffer EXCEPT ![w] =
                                [i \in DOMAIN h |-> items[h[i]]]]
    /\ UNCHANGED <<redis, effects, pc, shutdown, claimed, entries, flight,
                   pipe, seen, stops>>

(* The flag is not looked at between two due items. *)
DrainNext(w) ==
    /\ pc[w] = "drain"
    /\ Free(w)
    /\ due[w] # <<>>
    /\ due' = [due EXCEPT ![w] = Tail(@)]
    /\ BuildOrDelay(w, Head(due[w]))
    /\ UNCHANGED <<redis, effects, pc, shutdown, claimed, entries, seen, stops>>

(* No item is due: wait for room, or read.  read() returns nothing under   *)
(* the flag, which ends the loop.                                          *)
DrainDone(w) ==
    /\ pc[w] = "drain"
    /\ Free(w)
    /\ due[w] = <<>>
    /\ Goto(w, IF StopReading /\ IsFull(buffer[w]) THEN "loop"
               ELSE IF shutdown[w] THEN "ended" ELSE "claim")
    /\ UNCHANGED <<redis, effects, shutdown, loop, flight, pipe, stops>>

-----------------------------------------------------------------------------
(***************************************************************************)
(* The read thread.                                                        *)
(***************************************************************************)

\* Mutant: read() does not look at the flag again.
AfterEmptyClaimUnchecked(w) == Goto(w, "readnew")

(* reclaim_pending returned nothing: read() looks at the flag again. *)
AfterEmptyClaim(w) ==
    Goto(w, IF shutdown[w] THEN "ended" ELSE "readnew")

NothingToClaim(w) ==
    /\ pc[w] = "claim"
    /\ AfterEmptyClaim(w)
    /\ UNCHANGED <<redis, effects, shutdown, loop, flight, pipe, stops>>

(* XAUTOCLAIM hands over at most ReadCount idle entries, whoever held them *)
(* before, this very worker included, and counts one more delivery.  When  *)
(* the reply is lost the entries are claimed all the same.                 *)
ReclaimPending(w) ==
    /\ pc[w] = "claim"
    /\ \E S \in (SUBSET pel) \ {{}} :
        /\ Cardinality(S) <= ReadCount
        /\ times' = [m \in Msg |-> IF m \in S THEN Bump(times[m]) ELSE times[m]]
        /\ \/ /\ claimed' = [claimed EXCEPT ![w] = S]
              /\ Goto(w, "parse")
           \/ /\ "xautoclaim" \in Faults
              /\ UNCHANGED claimed
              /\ AfterEmptyClaim(w)
    /\ UNCHANGED <<cursor, pel, effects, shutdown, entries, buffer, due, seen,
                   flight, pipe, stops>>

(* delivery_count: XPENDING of one entry; when it fails, or the entry has  *)
(* been acknowledged meanwhile, FETCH_QUEUE_MAX_DELIVERIES stands in.      *)
DeliveryCount(m, unanswered) ==
    IF m \in pel \ unanswered THEN times[m] ELSE MaxDeliveries

(* An exception other than FetchCommandError leaves read() and start(). *)
ParseClaim(w) ==
    /\ pc[w] = "parse"
    /\ claimed' = [claimed EXCEPT ![w] = {}]
    /\ IF claimed[w] \cap Unparsable # {}
         THEN /\ Goto(w, "ended")
              /\ UNCHANGED entries
         ELSE /\ Goto(w, "batch")
              /\ \E lost \in SUBSET claimed[w] :
                   /\ lost # {} => "xpending" \in Faults
                   /\ entries' = [entries EXCEPT ![w] =
                        {[msg |-> m, deliveries |-> DeliveryCount(m, lost)] :
                            m \in claimed[w]}]
    /\ UNCHANGED <<redis, effects, shutdown, buffer, due, seen, flight, pipe,
                   stops>>

\* Mutant: the last-delivered entry is delivered again.
DeliverFromCursor(k) ==
    LET fresh == cursor..(cursor + k)
    IN  /\ cursor + k <= N
        /\ cursor' = cursor + k
        /\ pel' = pel \cup fresh
        /\ times' = [m \in Msg |-> IF m \in fresh THEN 1 ELSE times[m]]

(* XREADGROUP at the server: the next k new entries become pending. *)
Deliver(k) ==
    LET fresh == (cursor + 1)..(cursor + k)
    IN  /\ cursor + k <= N
        /\ cursor' = cursor + k
        /\ pel' = pel \cup fresh
        /\ times' = [m \in Msg |-> IF m \in fresh THEN 1 ELSE times[m]]

ReadNew(w) ==
    /\ pc[w] = "readnew"
    /\ \E k \in 1..ReadCount :
        LET fresh == (cursor + 1)..(cursor + k)
        IN  /\ Deliver(k)
            /\ IF fresh \cap Unparsable # {}
                 THEN /\ Goto(w, "ended")
                      /\ UNCHANGED entries
                 ELSE /\ Goto(w, "batch")
                      /\ entries' = [entries EXCEPT ![w] =
                            {[msg |-> m, deliveries |-> 1] : m \in fresh}]
    /\ UNCHANGED <<effects, shutdown, claimed, buffer, due, seen, flight, pipe,
                   stops>>

(* The block time passes without a new entry. *)
ReadNothing(w) ==
    /\ pc[w] = "readnew"
    /\ Goto(w, IF shutdown[w] \/ (MaxMessages > 0 /\ buffer[w] = <<>>)
               THEN "ended" ELSE "loop")
    /\ UNCHANGED <<redis, effects, shutdown, loop, flight, pipe, stops>>

(* read() re-raises and start() does not catch: the loop is over.  Entries *)
(* delivered with a lost reply stay in the PEL.                            *)
ReadFails(w) ==
    /\ pc[w] = "readnew"
    /\ "xreadgroup" \in Faults
    /\ \E k \in 0..ReadCount : Deliver(k)
    /\ Goto(w, "ended")
    /\ UNCHANGED <<effects, shutdown, loop, flight, pipe, stops>>

-----------------------------------------------------------------------------
(***************************************************************************)
(* Consuming the batch, in stream order.                                   *)
(***************************************************************************)
FirstEntry(w, e) ==
    /\ e \in entries[w]
    /\ \A o \in entries[w] : e.msg <= o.msg

LeaveBatch(w) ==
    /\ pc[w] = "batch"
    /\ Free(w)
    /\ \/ entries[w] = {} /\ Goto(w, "loop")
       \/ /\ entries[w] # {}
          /\ shutdown[w] \/ MaxReached(w)
          /\ Goto(w, "ended")
    /\ entries' = [entries EXCEPT ![w] = {}]
    /\ UNCHANGED <<redis, effects, shutdown, claimed, buffer, due, seen, flight,
                   pipe, stops>>

\* Mutant: the validity of the entry is not examined.
DiscardAny(w) ==
    /\ pc[w] = "batch"
    /\ Free(w)
    /\ ~shutdown[w] /\ ~MaxReached(w)
    /\ \E e \in entries[w] :
        /\ FirstEntry(w, e)
        /\ pel' = pel \ {e.msg}
        /\ entries' = [entries EXCEPT ![w] = @ \ {e}]
    /\ UNCHANGED <<cursor, times, effects, pc, shutdown, claimed, buffer, due,
                   seen, flight, pipe, stops>>

\* Mutant: an undecodable entry is acknowledged, whatever the flag says.
DiscardUnderShutdown(w) ==
    /\ pc[w] = "batch"
    /\ Free(w)
    /\ ~MaxReached(w)
    /\ \E e \in entries[w] :
        /\ FirstEntry(w, e)
        /\ e.msg \in Invalid
        /\ pel' = pel \ {e.msg}
        /\ entries' = [entries EXCEPT ![w] = @ \ {e}]
    /\ UNCHANGED <<cursor, times, effects, pc, shutdown, claimed, buffer, due,
                   seen, flight, pipe, stops>>

(* An undecodable entry is acknowledged at once, without a fact; an        *)
(* exception of that XACK is not caught and ends the loop.                 *)
DiscardInvalid(w) ==
    /\ pc[w] = "batch"
    /\ Free(w)
    /\ ~shutdown[w] /\ ~MaxReached(w)
    /\ \E e \in entries[w] :
        /\ FirstEntry(w, e)
        /\ e.msg \in Invalid
        /\ \/ /\ pel' = pel \ {e.msg}
              /\ entries' = [entries EXCEPT ![w] = @ \ {e}]
              /\ UNCHANGED pc
           \/ /\ "xack" \in Faults
              /\ pel' \in {pel, pel \ {e.msg}}
              /\ entries' = [entries EXCEPT ![w] = {}]
              /\ Goto(w, "ended")
    /\ UNCHANGED <<cursor, times, effects, shutdown, claimed, buffer, due, seen,
                   flight, pipe, stops>>

\* Mutant: the flag is only looked at between batches.
ConsumeUnderShutdown(w) ==
    /\ pc[w] = "batch"
    /\ Free(w)
    /\ ~MaxReached(w)
    /\ \E e \in entries[w] :
        /\ FirstEntry(w, e)
        /\ e.msg \notin Invalid
        /\ entries' = [entries EXCEPT ![w] = @ \ {e}]
        /\ BuildOrDelay(w, e)
    /\ seen' = [seen EXCEPT ![w] = IF @ < MaxMessages THEN @ + 1 ELSE @]
    /\ UNCHANGED <<redis, effects, pc, shutdown, claimed, due, stops>>

ConsumeEntry(w) ==
    /\ pc[w] = "batch"
    /\ Free(w)
    /\ ~shutdown[w] /\ ~MaxReached(w)
    /\ \E e \in entries[w] :
        /\ FirstEntry(w, e)
        /\ e.msg \notin Invalid
        /\ entries' = [entries EXCEPT ![w] = @ \ {e}]
        /\ BuildOrDelay(w, e)
    /\ seen' = [seen EXCEPT ![w] = IF @ < MaxMessages THEN @ + 1 ELSE @]
    /\ UNCHANGED <<redis, effects, pc, shutdown, claimed, due, stops>>

(* An EgressPolicyError of build_sticky_pool_assignment, or an exception   *)
(* out of _policy_decision, is caught by nobody and ends the loop: of the  *)
(* popped items and of the batch nothing is left but the PEL.              *)
BuildRaises(w) ==
    /\ "raise" \in Decisions
    /\ Free(w)
    /\ \/ pc[w] = "drain" /\ due[w] # <<>>
       \/ /\ pc[w] = "batch"
          /\ ~shutdown[w] /\ ~MaxReached(w)
          /\ \E e \in entries[w] : FirstEntry(w, e) /\ e.msg \notin Invalid
    /\ Goto(w, "ended")
    /\ due' = [due EXCEPT ![w] = <<>>]
    /\ entries' = [entries EXCEPT ![w] = {}]
    /\ UNCHANGED <<redis, effects, shutdown, claimed, buffer, seen, flight,
                   pipe, stops>>

-----------------------------------------------------------------------------
(***************************************************************************)
(* Responses: parse and errback.                                           *)
(***************************************************************************)
\* Mutant: the last permitted retry is not granted.
ShouldRetryOffByOne(c) == c.deliveries < MaxRetries[c.msg]

ShouldRetry(c) == c.deliveries <= MaxRetries[c.msg]

(* "retryable" is a retryable status or a download exception.  With budget *)
(* left nothing is published: the entry stays in the PEL.                  *)
FetchFailed(w, c) ==
    /\ "retryable" \in Answers
    /\ IF ShouldRetry(c) THEN UNCHANGED pipe
       ELSE EnterPipeline(w, c, "retry_exhausted", "publish")

(* "malformed": a status outside 100..599.  validate_crawl_attempt raises  *)
(* before anything is published and the item is lost.                      *)
FetchSucceeded(w, c) ==
    \/ "html" \in Answers /\ EnterPipeline(w, c, "stored", "store")
    \/ "other" \in Answers /\ EnterPipeline(w, c, "non_snapshot", "publish")
    \/ "malformed" \in Answers /\ UNCHANGED pipe

Respond(w, c) ==
    /\ Free(w)
    /\ c \in flight[w]
    /\ flight' = [flight EXCEPT ![w] = @ \ {c}]
    /\ FetchFailed(w, c) \/ FetchSucceeded(w, c)
    /\ UNCHANGED <<redis, effects, pc, shutdown, loop, stops>>

-----------------------------------------------------------------------------
(***************************************************************************)
(* The content pipeline: put_object, publish_crawl_attempt, XACK.          *)
(***************************************************************************)
AtStage(w, stage) == pipe[w].stage = stage

\* Mutant: the fact claims an object that was never uploaded.
PutObjectIgnoringFailure(w) ==
    /\ AtStage(w, "store")
    /\ \/ objects' = objects \cup {pipe[w].msg}
       \/ "storage" \in Faults /\ UNCHANGED objects
    /\ pipe' = [pipe EXCEPT ![w].stage = "publish"]
    /\ UNCHANGED <<redis, facts, pc, shutdown, loop, flight, stops>>

(* A StorageError changes what the fact will say, never whether it is sent. *)
PutObject(w) ==
    /\ AtStage(w, "store")
    /\ \/ /\ objects' = objects \cup {pipe[w].msg}
          /\ pipe' = [pipe EXCEPT ![w].stage = "publish"]
       \/ /\ "storage" \in Faults
          /\ UNCHANGED objects
          /\ pipe' = [pipe EXCEPT ![w].kind = "storage_failed",
                                  ![w].stage = "publish"]
    /\ UNCHANGED <<redis, facts, pc, shutdown, loop, flight, stops>>

PublishSucceeds(w) ==
    /\ AtStage(w, "publish")
    /\ facts' = facts \cup {[msg |-> pipe[w].msg, kind |-> pipe[w].kind]}
    /\ pipe' = [pipe EXCEPT ![w].stage = "ack"]
    /\ UNCHANGED <<redis, objects, pc, shutdown, loop, flight, stops>>

\* Mutant: a failed publish goes on to the XACK.
PublishFailureAcked(w) ==
    /\ AtStage(w, "publish")
    /\ "kafka" \in Faults
    /\ UNCHANGED facts
    /\ pipe' = [pipe EXCEPT ![w].stage = "ack"]
    /\ UNCHANGED <<redis, objects, pc, shutdown, loop, flight, stops>>

(* PublishError: the item ends here, unacknowledged.  After a flush timeout *)
(* the fact may have reached the broker nevertheless.                      *)
PublishFails(w) ==
    /\ AtStage(w, "publish")
    /\ "kafka" \in Faults
    /\ facts' \in {facts,
                   facts \cup {[msg |-> pipe[w].msg, kind |-> pipe[w].kind]}}
    /\ pipe' = [pipe EXCEPT ![w] = NoItem]
    /\ UNCHANGED <<redis, objects, pc, shutdown, loop, flight, stops>>

(* XACK of an entry that is no longer pending succeeds and does nothing. *)
AckSucceeds(w) ==
    /\ AtStage(w, "ack")
    /\ pel' = pel \ {pipe[w].msg}
    /\ pipe' = [pipe EXCEPT ![w] = NoItem]
    /\ UNCHANGED <<cursor, times, effects, pc, shutdown, loop, flight, stops>>

(* ack_stream_message swallows the exception. *)
AckFails(w) ==
    /\ AtStage(w, "ack")
    /\ "xack" \in Faults
    /\ pel' \in {pel, pel \ {pipe[w].msg}}
    /\ pipe' = [pipe EXCEPT ![w] = NoItem]
    /\ UNCHANGED <<cursor, times, effects, pc, shutdown, loop, flight, stops>>

-----------------------------------------------------------------------------
Process(w) == Start(w) \/ Crash(w) \/ RequestShutdown(w) \/ EngineStops(w)

Loop(w) ==
    \/ LoopTop(w) \/ PopDue(w) \/ DrainNext(w) \/ DrainDone(w)
    \/ LeaveBatch(w) \/ DiscardInvalid(w) \/ ConsumeEntry(w) \/ BuildRaises(w)

Read(w) ==
    \/ NothingToClaim(w) \/ ReclaimPending(w) \/ ParseClaim(w)
    \/ ReadNew(w) \/ ReadNothing(w) \/ ReadFails(w)

Pipeline(w) ==
    \/ PutObject(w)
    \/ PublishSucceeds(w) \/ PublishFails(w)
    \/ AckSucceeds(w) \/ AckFails(w)

Next == \E w \in Worker :
    \/ Process(w) \/ Loop(w) \/ Read(w) \/ Pipeline(w)
    \/ \E c \in flight[w] : Respond(w, c)

Spec == Init /\ [][Next]_vars

(***************************************************************************)
(* Fairness.  Threads and timers run; a dependency does not fail for ever, *)
(* a delayed item comes due, and the pacer does not put one command off for *)
(* ever; an entry left idle is claimed by a worker that keeps reading.     *)
(* Nothing is assumed of the sites: they may answer "retryable" each time. *)
(***************************************************************************)
ReclaimOf(w, m) == ReclaimPending(w) /\ m \in claimed'[w]
StartOf(w, m) ==
    /\ DrainNext(w) \/ ConsumeEntry(w)
    /\ \E c \in flight'[w] \ flight[w] : c.msg = m
AnswerOf(w, m) == \E c \in flight[w] : c.msg = m /\ Respond(w, c)

Fairness == \A w \in Worker :
    /\ WF_vars(Start(w) \/ EngineStops(w))
    /\ WF_vars(Loop(w)) /\ WF_vars(Read(w)) /\ WF_vars(Pipeline(w))
    /\ SF_vars(ReadNew(w)) /\ SF_vars(PopDue(w))
    /\ SF_vars(PublishSucceeds(w)) /\ SF_vars(AckSucceeds(w))
    /\ \A m \in Msg :
        SF_vars(ReclaimOf(w, m)) /\ SF_vars(StartOf(w, m)) /\ SF_vars(AnswerOf(w, m))

LiveSpec == Spec /\ Fairness

-----------------------------------------------------------------------------
(***************************************************************************)
(* Properties.                                                             *)
(***************************************************************************)

(* Shapes, and what only delivered entries can be found in. *)
TypeOK ==
    /\ cursor \in 0..N
    /\ pel \subseteq 1..cursor
    /\ times \in [Msg -> 0..DeliveryCap]
    /\ facts \subseteq Fact
    /\ objects \subseteq Msg
    /\ pc \in [Worker -> Location]
    /\ shutdown \in [Worker -> BOOLEAN]
    /\ claimed \in [Worker -> SUBSET Msg]
    /\ entries \in [Worker -> SUBSET Command]
    /\ buffer \in [Worker -> Seq(Command)]
    /\ due \in [Worker -> Seq(Command)]
    /\ flight \in [Worker -> SUBSET Command]
    /\ pipe \in [Worker -> Item \cup {NoItem}]
    /\ seen \in [Worker -> Nat]
    /\ stops \in 0..MaxStops

(* ADR-0006: a command that left the queue for good, by whatever path of   *)
(* retries, takeovers, crashes and lost replies, was undecodable or has a  *)
(* crawl_attempt fact.  (pipelines.py acks only after the publish.)        *)
NoLostCommand ==
    \A m \in 1..cursor :
        m \in pel \/ m \in Invalid \/ \E f \in facts : f.msg = m

(* A fact that reports storage_result=stored names an object that exists,  *)
(* although upload, publish and acknowledgement can each fail in between.  *)
StoredFactHasObject == \A f \in facts : f.kind = "stored" => f.msg \in objects

(***************************************************************************)
(* Why these hold: what a worker keeps in memory about entries, whoever    *)
(* has claimed them meanwhile.                                             *)
(***************************************************************************)
Delivered == [msg : 1..cursor, deliveries : Nat]
LiveCommand == [msg : 1..cursor \ Invalid, deliveries : Nat]

(* Everything held was delivered by the group; behind the validity check   *)
(* there are only decodable commands.                                      *)
HeldWasDelivered ==
    /\ claimed \in [Worker -> SUBSET (1..cursor)]
    /\ entries \in [Worker -> SUBSET Delivered]
    /\ buffer \in [Worker -> Seq(LiveCommand)]
    /\ due \in [Worker -> Seq(LiveCommand)]
    /\ flight \in [Worker -> SUBSET LiveCommand]
    /\ \A w \in Worker : ~Free(w) => pipe[w].msg \in 1..cursor \ Invalid

(* An item that will be published as stored has its object, and an item    *)
(* that waits for its XACK has its fact.                                   *)
PipelineInOrder == \A w \in Worker :
    /\ AtStage(w, "publish") \/ AtStage(w, "ack") =>
         (pipe[w].kind = "stored" => pipe[w].msg \in objects)
    /\ AtStage(w, "ack") => \E f \in facts : f.msg = pipe[w].msg

IInv ==
    /\ TypeOK
    /\ NoLostCommand
    /\ StoredFactHasObject
    /\ HeldWasDelivered
    /\ PipelineInOrder

(* While a command is pending, a retry_exhausted fact about it means it    *)
(* really was delivered more often than effective_max_retries.  (Settled   *)
(* commands are exempt: delivery_count answers MaxDeliveries for them.)    *)
BudgetNeverCutShort ==
    \A f \in facts :
        f.kind = "retry_exhausted" /\ f.msg \in pel
            => times[f.msg] > MaxRetries[f.msg]

(* A command the local buffer once accepted is never dropped for want of   *)
(* room when the drain puts it back: the popped items still fit.           *)
RequeueFits ==
    Capacity > 0 =>
        \A w \in Worker : Len(buffer[w]) + Len(due[w]) <= Capacity

(* FR-022 of spec 003, FR-016 of spec 007: once the flag is up a worker    *)
(* begins no further XAUTOCLAIM or XREADGROUP; at most the read already    *)
(* under way returns.                                                      *)
ShutdownStopsReading == [][\A w \in Worker :
    shutdown[w] /\ pc'[w] \in {"claim", "readnew"} => pc'[w] = pc[w]]_vars

(* FR-017 of spec 007 for the batch: the entries a stopping worker has     *)
(* read and not begun are left to the PEL, down to the last one.  It       *)
(* begins no request, and an entry leaves the batch only with the whole    *)
(* batch, as the worker leaves the loop or is gone: it is neither          *)
(* acknowledged nor skipped nor delayed.                                   *)
ShutdownAbandonsBatch == [][\A w \in Worker :
    shutdown[w] /\ pc[w] = "batch" /\ Free(w) =>
        /\ flight'[w] \subseteq flight[w]
        /\ entries'[w] # entries[w] =>
             /\ entries'[w] = {} /\ pc'[w] \in {"ended", "down"}
             /\ UNCHANGED <<pel, facts>>
             /\ pipe'[w] = NoItem
             /\ buffer'[w] = buffer[w] \/ pc'[w] = "down"]_vars

(***************************************************************************)
(* Three statements of the documents that the code does not keep.          *)
(***************************************************************************)

(* Section 7 of the research of spec 007: the signal at once stops the     *)
(* making of new requests when the delayed buffer is drained.  DrainNext   *)
(* does not look at the flag: what pop_due had returned by then, and was   *)
(* not built yet, is still handed to the engine.                           *)
ShutdownStartsNothing == [][\A w \in Worker :
    shutdown[w] => flight'[w] \subseteq flight[w]]_vars

(* FR-013 of spec 003: no message, however broken, ends the loop of a      *)
(* worker nobody has told to stop (dependencies healthy, no message limit). *)
BadMessageNeverEndsLoop == [][\A w \in Worker :
    pc[w] \in {"parse", "readnew", "batch"} /\ pc'[w] = "ended"
        => shutdown[w]]_vars

(* ADR-0006: every message XREADGROUP handed out ends in a published fact  *)
(* and an XACK, or as a discarded invalid message.                         *)
EveryMessageConcludes == \A m \in Msg : <>(m <= cursor /\ m \notin pel)

-----------------------------------------------------------------------------
(* The executor implements the command ledger. *)
Status(m) == IF m > cursor THEN "queued"
             ELSE IF m \in pel THEN "pending" ELSE "settled"

Ledger == INSTANCE CommandLedger WITH status <- [m \in Msg |-> Status(m)]

(* Every step of every worker is a step of the ledger or changes nothing   *)
(* in it: commands are settled once, for good, and only when backed.       *)
ImplementsLedger == Ledger!Spec
=============================================================================
