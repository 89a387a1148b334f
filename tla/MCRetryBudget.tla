---------------------------- MODULE MCRetryBudget ----------------------------
(***************************************************************************)
(* FetchQueue with a history variable that counts, for every entry, the    *)
(* fetches of it that failed.  A delivery is not a failed fetch: the entry *)
(* may have been delivered again because its fact could not be published.  *)
(***************************************************************************)
EXTENDS MCFetchQueue

VARIABLE failures

HInit == Init /\ failures = [m \in Msg |-> 0]

(* parse and errback published nothing, or the end of the retries. *)
Silent == {NoItem} \cup
          [msg : Msg, kind : {"retry_exhausted"}, stage : {"publish"}]

FailedFetch(w, c) ==
    /\ Respond(w, c)
    /\ pipe'[w] \in Silent
    /\ failures' = [failures EXCEPT ![c.msg] = Bump(@)]

OtherAnswer(w, c) ==
    /\ Respond(w, c)
    /\ pipe'[w] \notin Silent
    /\ UNCHANGED failures

(* XAUTOCLAIM's minimum idle time outlasts every fetch: no entry a worker  *)
(* is still fetching or publishing is claimed, so only a failed publish or *)
(* a failed fetch is behind a second delivery.                             *)
Patient == \A w, v \in Worker : \A m \in claimed'[w] \ claimed[w] :
    pipe[v] = NoItem /\ \A c \in flight[v] : c.msg # m

HNext ==
    /\ \E w \in Worker :
        \/ (Process(w) \/ Loop(w) \/ Read(w) \/ Pipeline(w)) /\ UNCHANGED failures
        \/ \E c \in flight[w] : FailedFetch(w, c) \/ OtherAnswer(w, c)
    /\ Patient

HSpec == HInit /\ [][HNext]_<<vars, failures>>

(* ADR-0008, FR-015 of spec 007: a Kafka publish failure does not count    *)
(* against max_retries, so a retry_exhausted fact means that more than     *)
(* MaxRetries fetches failed.                                              *)
KafkaFailuresAreFree ==
    \A f \in facts :
        f.kind = "retry_exhausted" => failures[f.msg] > MaxRetries[f.msg]
=============================================================================
