----------------------------- MODULE IdleClaims -----------------------------
(***************************************************************************)
(* FetchQueue with the idle times of the pending entries: XAUTOCLAIM hands *)
(* over the first ReadCount entries that have been idle for MinIdle, in    *)
(* stream order from 0-0 at each call (reclaim_pending ignores the cursor  *)
(* it returns), and makes them young again.  Entries further back wait     *)
(* until those in front of them are settled or young.                      *)
(*                                                                         *)
(* Some entries (Poison) are never settled: each answer to them has a      *)
(* status that the crawl_attempt schema rejects.                           *)
(***************************************************************************)
EXTENDS MCFetchQueue

CONSTANTS
    MinIdle,    \* FETCH_QUEUE_CLAIM_MIN_IDLE_MS, in units of time
    PassTime,   \* bound: from one XAUTOCLAIM of a running loop to the next
    Poison      \* entries whose answers are all malformed

(* CLAIM_MIN_IDLE exceeds the longest local delay and the blocking         *)
(* publishes that keep the loop from reading, so often that all poisoned   *)
(* entries can be scanned before the first of them is idle again.          *)
ASSUME IdleAssumption ==
    /\ MinIdle \in Nat /\ PassTime \in Nat \ {0}
    /\ PassTime < MinIdle
    /\ Poison \subseteq Msg
    /\ ((Cardinality(Poison) + ReadCount - 1) \div ReadCount) * PassTime < MinIdle

VARIABLES
    idle,       \* of each pending entry, up to MinIdle
    since       \* of each running loop: time since its last XAUTOCLAIM

timed == <<vars, idle, since>>

TimedInit ==
    /\ Init
    /\ idle = [m \in Msg |-> 0]
    /\ since = [w \in Worker |-> 0]

Running(w) == pc[w] \notin {"down", "ended"}

Tick ==
    /\ \A w \in Worker : Running(w) => since[w] < PassTime
    /\ idle' = [m \in Msg |-> IF m \in pel /\ idle[m] < MinIdle
                              THEN idle[m] + 1 ELSE idle[m]]
    /\ since' = [w \in Worker |-> IF Running(w) THEN since[w] + 1 ELSE 0]
    /\ UNCHANGED vars

\* Mutant: claim_min_idle_ms is not passed on.
IdleIgnored(m) == m \in pel

(* XAUTOCLAIM: the idle times it looks for. *)
IsIdle(m) == m \in pel /\ idle[m] >= MinIdle

IdleEntries == {m \in pel : IsIdle(m)}

(* The entries an XAUTOCLAIM from 0-0 hands over. *)
Scanned(S) ==
    /\ S \subseteq IdleEntries
    /\ Cardinality(S) = ReadCount \/ S = IdleEntries
    /\ Cardinality(S) <= ReadCount
    /\ \A m \in S, n \in IdleEntries \ S : m < n

(* The claim of FetchQueue, of these entries. *)
ReclaimScanned(w) == \E S \in (SUBSET pel) \ {{}} :
    /\ Scanned(S)
    /\ ReclaimPending(w)
    /\ times' = [m \in Msg |-> IF m \in S THEN Bump(times[m]) ELSE times[m]]
    /\ claimed'[w] \in {claimed[w], S}
    /\ idle' = [m \in Msg |-> IF m \in S THEN 0 ELSE idle[m]]
    /\ since' = [since EXCEPT ![w] = 0]

(* No entry is idle, or the call fails before it reaches the server. *)
FindNothing(w) ==
    /\ IdleEntries = {} \/ "xautoclaim" \in Faults
    /\ NothingToClaim(w)
    /\ since' = [since EXCEPT ![w] = 0]
    /\ UNCHANGED idle

(* An entry is young when it is delivered; a settled one has no age. *)
NoClaim ==
    /\ idle' = [m \in Msg |-> IF m \in pel' THEN idle[m] ELSE 0]
    /\ since' = [w \in Worker |-> IF pc'[w] \in {"down", "ended"} THEN 0
                                  ELSE since[w]]

ReadOn(w) ==
    \/ ReclaimScanned(w) \/ FindNothing(w)
    \/ (ParseClaim(w) \/ ReadNew(w) \/ ReadNothing(w) \/ ReadFails(w)) /\ NoClaim

(* A poisoned entry is answered with a malformed status, others are not. *)
AnswerTo(w, c) ==
    /\ Respond(w, c)
    /\ IF c.msg \in Poison THEN pipe'[w] = NoItem
       ELSE pipe'[w] = NoItem => ShouldRetry(c)
    /\ NoClaim

TimedNext == Tick \/ \E w \in Worker :
    \/ (Process(w) \/ Loop(w) \/ Pipeline(w)) /\ NoClaim
    \/ ReadOn(w)
    \/ \E c \in flight[w] : AnswerTo(w, c)

(***************************************************************************)
(* Time passes, threads run, and what depends on somebody else does not    *)
(* fail for ever: see Fairness of FetchQueue.  But nothing is assumed of   *)
(* which entry is claimed.                                                 *)
(***************************************************************************)
TimedFairness ==
    /\ SF_timed(Tick)
    /\ \A w \in Worker :
        /\ WF_timed((Start(w) \/ EngineStops(w)) /\ NoClaim)
        /\ WF_timed(Loop(w) /\ NoClaim)
        /\ WF_timed(ReadOn(w))
        /\ WF_timed(Pipeline(w) /\ NoClaim)
        /\ SF_timed(ReadNew(w) /\ NoClaim)
        /\ SF_timed(PopDue(w) /\ NoClaim)
        /\ SF_timed(PublishSucceeds(w) /\ NoClaim)
        /\ SF_timed(AckSucceeds(w) /\ NoClaim)
        /\ \A m \in Msg :
            /\ SF_timed(StartOf(w, m) /\ NoClaim)
            /\ SF_timed(\E c \in flight[w] : c.msg = m /\ AnswerTo(w, c))

TimedSpec == TimedInit /\ [][TimedNext]_timed /\ TimedFairness

(* Each other entry is settled in the end, through crashes, Kafka outages, *)
(* a full local buffer and sites that fail every fetch, although the       *)
(* entries in front of it in the scan may never be.                        *)
EventuallySettled ==
    \A m \in Msg \ Poison : <>(m <= cursor /\ m \notin pel)
=============================================================================
