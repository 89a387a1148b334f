---------------------------- MODULE CommandGate ----------------------------
(***************************************************************************)
(* What the spider does with a fetch command before its request exists:    *)
(* _build_or_delay_request asks the runtime policy, skips the command if   *)
(* its scope is paused or its deadline has passed, and, where the policy   *)
(* asks for the sticky pool, starts the request or keeps the command in    *)
(* the local delayed buffer.  A delayed command that comes due goes        *)
(* through the same gate once more, under the policy of that moment.       *)
(*                                                                         *)
(* Which address is chosen and for how long a command is put off is        *)
(* Politeness's matter: here the pacer may ask for any of its delays.      *)
(* What becomes of a skipped command, and of redeliveries, is FetchQueue's *)
(* matter: here any command may arrive, with any deadline, also one that   *)
(* has been here before.                                                   *)
(***************************************************************************)
EXTENDS RuntimePolicy

CONSTANTS
    Message,        \* places in the worker for commands it holds
    Strategy,       \* values of EGRESS_SELECTION_STRATEGY in the settings
    Delay,          \* how far off a pacer or a cooldown may put a command
    TimeLeft,       \* seconds to the deadline when a command arrives
    RetryTimes      \* RETRY_TIMES of Scrapy's RetryMiddleware

ASSUME GateAssumption ==
    /\ Strategy \subseteq {"STICKY_POOL", "STICKY_BY_HOST", "ROUND_ROBIN"}
    /\ Delay \subseteq Nat \ {0}
    /\ TimeLeft \subseteq Nat
    /\ RetryTimes \in Nat

VARIABLES
    own,        \* EGRESS_SELECTION_STRATEGY of this process
    held,       \* the command in each place
    ordered     \* history: the document the operators may count on, if any

gateVars == <<vars, own, held, ordered>>

Absent == [stage |-> "absent"]
Held(stage, m, left, due, sends) ==
    [stage |-> stage, command |-> m, left |-> left, due |-> due,
     sends |-> sends]

(* left: a set of at most one number, empty for a command without deadline *)
Deadlines == {{}} \cup {{n} : n \in TimeLeft}

Expired(left) == \E n \in left : n <= 0

(* The time left to a deadline or an eligible_at_ms d seconds from now; how *)
(* long it has passed matters only as far as the clock may be set back.    *)
Moved(n, step) == IF n + step < -MaxBack THEN n ELSE n + step
Shifted(h, step) ==
    IF h.stage = "absent" THEN h
    ELSE [h EXCEPT !.left = {Moved(n, step) : n \in @}, !.due = Moved(@, step)]

GateInit ==
    /\ Init
    /\ own \in Strategy
    /\ held = [g \in Message |-> Absent]
    /\ ordered = {}

-----------------------------------------------------------------------------
(***************************************************************************)
(* _build_or_delay_request, up to the request or its absence.              *)
(***************************************************************************)
(* egress_identities are resolved at the start, and only for STICKY_POOL.  *)
HasPool == own = "STICKY_POOL"

WantsPool(p) ==
    (IF "strategy" \in DOMAIN p THEN p.strategy ELSE own) = "STICKY_POOL"

\* Mutant: a delayed command has passed the pause when it was delayed.
SkipsPausedOnArrival(g, m) ==
    IsPaused(PolicyFor(doc, m)) /\ held[g].stage = "absent"

SkipsPaused(g, m) == IsPaused(PolicyFor(doc, m))

\* Mutant: a delayed command has passed the deadline when it was delayed.
SkipsExpiredOnArrival(g, left) == Expired(left) /\ held[g].stage = "absent"

SkipsExpired(g, left) == Expired(left)

(* _terminal_skip_item: the command leaves the spider as a fact.           *)
Skip(g) ==
    /\ held' = [held EXCEPT ![g] = Absent]
    /\ UNCHANGED running

StartRequest(g, m, left) ==
    /\ WantsPool(PolicyFor(doc, m)) => HasPool
    /\ held' = [held EXCEPT ![g] = Held("sent", m, left, 0, 1)]
    /\ UNCHANGED running

(* _delay_command, for the pacer or because every candidate cools down.    *)
DelayCommand(g, m, left) ==
    /\ WantsPool(PolicyFor(doc, m)) /\ HasPool
    /\ \E d \in Delay :
         held' = [held EXCEPT ![g] = Held("delayed", m, left, d, 0)]
    /\ UNCHANGED running

(* build_sticky_pool_assignment raises, outside any try: start() ends.     *)
NoPool(g, m) ==
    /\ WantsPool(PolicyFor(doc, m)) /\ ~HasPool
    /\ held' = [held EXCEPT ![g] = Absent]
    /\ running' = FALSE

(* The document a decision can rely on: on disk for the reload interval.   *)
Relied == IF quiet >= Interval + lag /\ Accepts(content) THEN {content}
          ELSE ordered

BuildOrDelay(g, m, left) ==
    /\ Decide
    /\ ordered' = Relied
    /\ UNCHANGED own
    /\ \/ SkipsPaused(g, m) /\ Skip(g)
       \/ ~SkipsPaused(g, m) /\ SkipsExpired(g, left) /\ Skip(g)
       \/ /\ ~SkipsPaused(g, m) /\ ~SkipsExpired(g, left)
          /\ \/ StartRequest(g, m, left)
             \/ DelayCommand(g, m, left)
             \/ NoPool(g, m)

(* A command from the stream.                                              *)
Arrive(g) ==
    /\ held[g].stage = "absent"
    /\ \E m \in Command, left \in Deadlines : BuildOrDelay(g, m, left)

(* _drain_due_delayed_requests                                             *)
Drain(g) ==
    /\ held[g].stage = "delayed"
    /\ held[g].due <= 0
    /\ BuildOrDelay(g, held[g].command, held[g].left)

-----------------------------------------------------------------------------
(***************************************************************************)
(* The engine, the clock, the operators.                                   *)
(***************************************************************************)
(* RetryMiddleware sends a request again without asking the spider.        *)
Resend(g) ==
    /\ held[g].stage = "sent"
    /\ held[g].sends <= RetryTimes
    /\ held' = [held EXCEPT ![g].sends = @ + 1]
    /\ UNCHANGED <<vars, own, ordered>>

(* The response, or the last failure, reaches the spider.                  *)
Conclude(g) ==
    /\ held[g].stage = "sent"
    /\ held' = [held EXCEPT ![g] = Absent]
    /\ UNCHANGED <<vars, own, ordered>>

GateTick ==
    /\ Tick
    /\ held' = [g \in Message |-> Shifted(held[g], -1)]
    /\ UNCHANGED <<own, ordered>>

GateSetBack ==
    /\ SetBack
    /\ held' = [g \in Message |-> Shifted(held[g], 1)]
    /\ UNCHANGED <<own, ordered>>

(* Once a newer valid document has been on disk, it may be in force.       *)
GateReplaceFile ==
    /\ ReplaceFile
    /\ ordered' = IF Accepts(content') THEN {} ELSE ordered
    /\ UNCHANGED <<own, held>>

(* The buffer is lost; what was in it stays pending in the stream.  The    *)
(* settings may have changed.                                              *)
GateRestart ==
    /\ Restart
    /\ own' \in Strategy
    /\ held' = [g \in Message |-> Absent]
    /\ ordered' = {}

GateNext ==
    \/ GateTick \/ GateSetBack \/ GateReplaceFile \/ GateRestart
    \/ Current /\ UNCHANGED <<own, held, ordered>>
    \/ \E g \in Message : Arrive(g) \/ Drain(g) \/ Resend(g) \/ Conclude(g)

GateSpec == GateInit /\ [][GateNext]_gateVars

-----------------------------------------------------------------------------
(***************************************************************************)
(* Properties.                                                             *)
(***************************************************************************)
GateTypeOK ==
    /\ TypeOK
    /\ own \in Strategy
    /\ \A g \in Message : held[g] = Absent \/
         /\ held[g].stage \in {"delayed", "sent"}
         /\ held[g].command \in Command
         /\ \A n \in held[g].left : n \in Int
         /\ held[g].due \in Int
         /\ held[g].sends \in 0..(RetryTimes + 1)
    /\ ordered \in SUBSET Content

Sends(g) == IF held[g].stage = "sent" THEN held[g].sends ELSE 0

Starts(g) == Sends(g) = 0 /\ Sends(g)' = 1

(* FR-009, FR-007 of spec 007: if the document in force pauses the most    *)
(* specific scope it has for a command, the command is neither requested   *)
(* nor delayed; no second entry for that scope can lift the pause.         *)
ScopePauseHonoured == [][\A g \in Message :
    Decide /\ held'[g] # held[g] /\ held'[g].stage # "absent" =>
        \A i \in DOMAIN Scopes[doc], k \in DOMAIN ScopeMatchOrder :
            /\ Matches(doc, i, held'[g].command, k)
            /\ \A j \in DOMAIN Scopes[doc], l \in DOMAIN ScopeMatchOrder :
                 Matches(doc, j, held'[g].command, l) => k <= l
            => ~IsPaused(Scopes[doc][i].policy @@ Default[doc])]_gateVars

(* User stories 1 to 3 of spec 007 together: once a command has been       *)
(* decided while a pausing document had been on disk for the reload        *)
(* interval, no request of the paused scope starts, not even one that was  *)
(* delayed before the pause or after the file had broken, until a newer    *)
(* valid document is written or the process starts afresh.                 *)
PauseHolds == [][\A g \in Message : Starts(g) =>
    \A d \in ordered' : ~IsPaused(PolicyFor(d, held'[g].command))]_gateVars

(* User story 4 of spec 007: the first request of a command is sent before *)
(* its deadline, whatever delays came first; only what RetryMiddleware     *)
(* repeats may be sent after it, and no more than RETRY_TIMES of it.       *)
DeadlineBoundsFirstSend == [][\A g \in Message :
    Sends(g)' > Sends(g) /\ Expired(held'[g].left) =>
        Sends(g) > 0 /\ Sends(g)' <= RetryTimes + 1]_gateVars
=============================================================================
