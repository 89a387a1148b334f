--------------------------- MODULE CommandLedger ---------------------------
(***************************************************************************)
(* What the executor promises about fetch commands, with no worker, no     *)
(* consumer group and no retry in sight: a command is queued by the        *)
(* control plane, taken by the executor, and settled (XACKed) exactly once *)
(* and only when it is either undecodable or backed by a published         *)
(* crawl_attempt fact; a fact that says its page was stored is backed by   *)
(* an uploaded object.  FetchQueue implements this ledger.                 *)
(***************************************************************************)
EXTENDS Integers

CONSTANTS
    N,          \* number of commands, in stream order
    Invalid,    \* the commands that are settled without a fact
    FactKind    \* the outcomes a crawl_attempt can report

Msg == 1..N
Fact == [msg : Msg, kind : FactKind]

VARIABLES
    status,     \* "queued", "pending" or "settled", per command
    facts,      \* crawl_attempt facts published so far
    objects     \* commands whose page is in the object store

vars == <<status, facts, objects>>

Backed(m) == m \in Invalid \/ \E f \in facts : f.msg = m

Init ==
    /\ status = [m \in Msg |-> "queued"]
    /\ facts = {}
    /\ objects = {}

(* A batch of queued commands is handed to the executor. *)
Take(S) ==
    /\ \A m \in S : status[m] = "queued"
    /\ status' = [m \in Msg |-> IF m \in S THEN "pending" ELSE status[m]]
    /\ UNCHANGED <<facts, objects>>

Store(m) ==
    /\ status[m] # "queued"
    /\ m \notin Invalid
    /\ objects' = objects \cup {m}
    /\ UNCHANGED <<status, facts>>

(* Delivery is at least once, so a settled command may be published again. *)
Publish(m, kind) ==
    /\ status[m] # "queued"
    /\ m \notin Invalid
    /\ kind = "stored" => m \in objects
    /\ facts' = facts \cup {[msg |-> m, kind |-> kind]}
    /\ UNCHANGED <<status, objects>>

Settle(m) ==
    /\ status[m] = "pending"
    /\ Backed(m)
    /\ status' = [status EXCEPT ![m] = "settled"]
    /\ UNCHANGED <<facts, objects>>

Next ==
    \/ \E S \in SUBSET Msg : Take(S)
    \/ \E m \in Msg : Store(m) \/ Settle(m)
    \/ \E m \in Msg, kind \in FactKind : Publish(m, kind)

Spec == Init /\ [][Next]_vars
=============================================================================
