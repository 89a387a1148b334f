----------------------------- MODULE Politeness -----------------------------
(***************************************************************************)
(* When a fetch command may start, and through which egress identity: the  *)
(* sticky pool of its host, the pacer of host and identity, the cooldowns  *)
(* and backoffs that SoftBan keeps in Redis, and the eligibility times of  *)
(* the local delayed buffer (whose capacity is FetchQueue's matter).       *)
(*                                                                         *)
(* The reactor thread decides about one command at a time and records a    *)
(* signal without a pause, so neither meets the other half done.           *)
(***************************************************************************)
EXTENDS SoftBan, EgressIdentity, FiniteSetsExt

CONSTANTS
    Command,        \* in the order of the stream
    HostOf,         \* _command_host: the hostname of each command
    NetlocOf,       \* request_host: the netloc of its url, with any port
    Refreshed,      \* the netlocs a meta refresh may lead it on to
    MinDelay,       \* HOST_IP_MIN_DELAY_MS
    Jitter,         \* HOST_IP_JITTER_MS
    SlowdownFactor, \* HOST_SLOWDOWN_FACTOR
    MayGo           \* bound: the addresses a restart may find gone

ASSUME PolitenessAssumption ==
    /\ Command \subseteq Nat
    /\ HostOf \in [Command -> Host]
    /\ NetlocOf \in [Command -> Host]
    /\ Refreshed \in [Command -> SUBSET Host]
    /\ \A ip \in Local : IdentityOf(ip) \in Identity
    /\ Score \in [Host -> [Identity -> Nat]]
    /\ {MinDelay, Jitter} \subseteq Nat
    /\ SlowdownFactor \in Nat \ {0}

VARIABLES
    addresses,  \* egress_identities: the local addresses of the process
    candidates, \* the sticky pools that build_sticky_pool_assignment makes
                \* of them, for each command anew
    localWait,  \* _pacer_states: what is left of next_allowed_at
    status,     \* where a command is
    dueIn,      \* delayed: what is left of eligible_at
    via,        \* in flight: the identity
    rest        \* history: time since the pair's last start, up to Interval

Interval == MinDelay * SlowdownFactor

egress == <<addresses, candidates>>
spider == <<egress, localWait, status, dueIn, via, rest>>
vars == <<softBan, spider>>

Pools(A) == [h \in Host |-> Assignment(h, A)]

Init ==
    /\ SoftBanInit
    /\ addresses = Local
    /\ candidates = Pools(Local)
    /\ localWait = [p \in Pair |-> 0]
    /\ status = [c \in Command |-> "queued"]
    /\ dueIn = [c \in Command |-> 0]
    /\ via = [c \in Command |-> {}]
    /\ rest = [p \in Pair |-> Interval]

Tick ==
    /\ SoftBanTick
    /\ localWait' = [p \in Pair |-> Less(localWait[p])]
    /\ dueIn' = [c \in Command |-> Less(dueIn[c])]
    /\ rest' = [p \in Pair |-> SmallerOf(rest[p] + 1, Interval)]
    /\ UNCHANGED <<egress, status, via>>

(* A new process: the pacer's memory is gone, what is not done is claimed  *)
(* again.  No spacing is promised across it.  Its addresses are resolved   *)
(* anew: some of MayGo are gone.                                           *)
Restart ==
    /\ Fault
    /\ \E lost \in SUBSET (addresses \cap MayGo) :
        /\ lost # addresses
        /\ addresses' = addresses \ lost
        /\ candidates' = Pools(addresses \ lost)
    /\ localWait' = [p \in Pair |-> 0]
    /\ status' = [c \in Command |->
                     IF status[c] = "done" THEN "done" ELSE "queued"]
    /\ dueIn' = [c \in Command |-> 0]
    /\ via' = [c \in Command |-> {}]
    /\ rest' = [p \in Pair |-> Interval]
    /\ recording' = NothingToRecord
    /\ UNCHANGED <<counters, states, challenged>>

-----------------------------------------------------------------------------
(***************************************************************************)
(* What the spider sees in Redis: everything, or one read fails and what   *)
(* it would have told is unknown.                                          *)
(***************************************************************************)
\* Mutant: a state in Redis replaces the local one, whatever it says.
RemoteWait(p) == IF backoff[p].level > 0 THEN backoff[p].wait ELSE localWait[p]

(* _host_ip_pacer_state: the later of the two. *)
HostIpWait(p) == LargerOf(localWait[p], backoff[p].wait)

Pool(h) == {candidates[h][k] : k \in DOMAIN candidates[h]}

InCooldown == {i \in Identity : cooldown[i] > 0}

AllSeen == [cooling |-> InCooldown,
            offered |-> [p \in Pair |-> HostIpWait(p)],
            chosen  |-> [p \in Pair |-> HostIpWait(p)]]

(* "offered" is read while candidates are examined, "chosen" once more for *)
(* the one that was selected. *)
OneUnseen(h) ==
    {[AllSeen EXCEPT !.cooling = @ \ {i}] : i \in Pool(h)} \cup
    {[AllSeen EXCEPT !.offered[p] = localWait[p]] : p \in {h} \X Pool(h)} \cup
    {[AllSeen EXCEPT !.chosen[p] = localWait[p]] : p \in {h} \X Pool(h)}

-----------------------------------------------------------------------------
(***************************************************************************)
(* select_from_sticky_pool and _build_or_delay_request.                    *)
(***************************************************************************)
(* The best candidate of the non-empty set S. *)
Best(h, S) == CHOOSE i \in S : \E k \in DOMAIN candidates[h] :
    /\ candidates[h][k] = i
    /\ \A l \in 1..(k - 1) : candidates[h][l] \notin S

Usable(h, see) == Pool(h) \ see.cooling
Free(h, see) == {i \in Usable(h, see) : see.offered[<<h, i>>] = 0}

\* Mutant: the best candidate, whether it is backed off or not.
SelectedFirst(h, see) == Best(h, Usable(h, see))

(* If each is backed off, the best of them all the same. *)
Selected(h, see) ==
    Best(h, IF Free(h, see) # {} THEN Free(h, see) ELSE Usable(h, see))

(* pacer_decision *)
Eligible(p, see) == see.chosen[p] = 0

\* Mutant: a slowdown's factor comes on top of the spider's own.
MarkRequestStartedTwiceAsSlow(p) == \E jitter \in 0..Jitter :
    localWait' = [localWait EXCEPT
        ![p] = Interval * SlowdownFactor + jitter]

(* _host_slowdown_factor and mark_request_started: the factor a slowdown   *)
(* brings along and the spider's own are one setting, read twice.          *)
MarkRequestStarted(p) == \E jitter \in 0..Jitter :
    localWait' = [localWait EXCEPT ![p] = Interval + jitter]

StartRequest(c, p) ==
    /\ MarkRequestStarted(p)
    /\ status' = [status EXCEPT ![c] = "flight"]
    /\ via' = [via EXCEPT ![c] = {p[2]}]
    /\ dueIn' = [dueIn EXCEPT ![c] = 0]
    /\ rest' = [rest EXCEPT ![p] = 0]

DelayCommand(c, eligibleIn) ==
    /\ status' = [status EXCEPT ![c] = "delayed"]
    /\ dueIn' = [dueIn EXCEPT ![c] = eligibleIn]
    /\ UNCHANGED <<localWait, via, rest>>

(* The earliest end of a cooldown, but not now. *)
CooldownEnd(h, see) ==
    LargerOf(1, Min({cooldown[i] : i \in Pool(h) \cap see.cooling}))

BuildOrDelay(c, see) ==
    LET h == HostOf[c]
        p == <<h, Selected(h, see)>>
    IN  IF Usable(h, see) = {} THEN DelayCommand(c, CooldownEnd(h, see))
        ELSE IF Eligible(p, see) THEN StartRequest(c, p)
        ELSE DelayCommand(c, see.chosen[p])

(* The next one in the stream. *)
IsNext(c) == /\ status[c] = "queued"
             /\ \A d \in Command : status[d] = "queued" => c <= d

\* Mutant: the delayed buffer is drained only while there is more to read.
IsDueWhileReading(c) == IsNext(c) \/
    /\ status[c] = "delayed" /\ dueIn[c] = 0
    /\ \E d \in Command : status[d] = "queued"

(* Read from the stream just now, or popped from the delayed buffer. *)
IsDue(c) == IsNext(c) \/ (status[c] = "delayed" /\ dueIn[c] = 0)

Decide(c) ==
    /\ recording = NothingToRecord
    /\ IsDue(c)
    /\ BuildOrDelay(c, AllSeen)
    /\ UNCHANGED <<softBan, egress>>

DecideHalfBlind(c) ==
    /\ recording = NothingToRecord
    /\ IsDue(c)
    /\ Fault
    /\ \E see \in OneUnseen(HostOf[c]) : BuildOrDelay(c, see)
    /\ UNCHANGED <<counters, states, recording, challenged, egress>>

(* The end of a request: the class of its status, and which patterns its   *)
(* body matches; or an exception.                                          *)
Outcome == [status : {"200", "429", "other", "exception"},
            body : SUBSET {"challenge", "anti_bot"}]

(* classify_response_signal, classify_exception_signal: a 429 is only that, *)
(* whatever its body says.                                                 *)
SignalOf(o) ==
    CASE o.status = "429" -> "http_429"
      [] o.status \in {"200", "other"} /\ "challenge" \in o.body -> "captcha_challenge"
      [] o.status = "200" /\ o.body = {"anti_bot"} -> "anti_bot_200"
      [] OTHER -> "ignored"

SignalsSeen == {SignalOf(o) : o \in Outcome}

(* LocalIpRotationMiddleware gives the request a host anew, each time it   *)
(* comes along: its netloc, which is not what the spider calls the host    *)
(* when the url has a port.  The middlewares see the last response only.   *)
FeedbackHosts(c) == {NetlocOf[c]} \cup Refreshed[c]

(* IpHealthCheckMiddleware: signals of other types lead to nothing. *)
Respond(c) ==
    /\ recording = NothingToRecord
    /\ status[c] = "flight"
    /\ status' = [status EXCEPT ![c] = "done"]
    /\ via' = [via EXCEPT ![c] = {}]
    /\ \E s \in SignalsSeen, i \in via[c], h \in FeedbackHosts(c) :
        IF s \in Signal THEN BeginRecording(<<h, i>>, s)
        ELSE UNCHANGED <<recording, challenged>>
    /\ UNCHANGED <<counters, states, faults, egress, localWait, dueIn, rest>>

Next ==
    \/ Tick \/ Restart
    \/ \E p \in Pair : ForgetBackoff(p) /\ UNCHANGED spider
    \/ RecordSignal /\ UNCHANGED spider
    \/ \E c \in Command : Decide(c) \/ DecideHalfBlind(c) \/ Respond(c)

Spec == Init /\ [][Next]_vars

(* What the reactor thread does next; it is never idle for ever. *)
ReactorStep ==
    \/ RecordSignal /\ UNCHANGED spider
    \/ \E c \in Command : Respond(c) \/ Decide(c)

Fairness == WF_vars(Tick) /\ WF_vars(ReactorStep)

LiveSpec == Spec /\ Fairness

-----------------------------------------------------------------------------
(***************************************************************************)
(* Properties.                                                             *)
(***************************************************************************)
TypeOK ==
    /\ SoftBanTypeOK
    /\ addresses \in (SUBSET Local) \ {{}}
    /\ candidates \in [Host -> Seq(Identity)]
    /\ localWait \in [Pair -> 0..(Interval + Jitter)]
    /\ status \in [Command -> {"queued", "delayed", "flight", "done"}]
    /\ dueIn \in [Command -> Nat]
    /\ via \in [Command -> SUBSET Identity]
    /\ rest \in [Pair -> 0..Interval]

(* User story 1 of spec 005 and the unit test of local perturbation: when  *)
(* a worker loses addresses, a host keeps the candidates that are left,    *)
(* and a host that used none of the lost ones keeps its pool as it is.     *)
PoolsAreSticky == [][addresses' # addresses /\ addresses' \subseteq addresses =>
    \A h \in Host : KeepsPool(h, addresses, addresses')]_vars

(* User story 2, scenario 1 of spec 005: the spider starts two commands of *)
(* a host through one identity at least Interval apart, whatever backoffs  *)
(* come, expire or cannot be read in between (within one life of the       *)
(* process).  What Scrapy does with a started request is outside: its slot *)
(* queue may bring two of them together again, and a repetition by its     *)
(* RetryMiddleware passes the spider by and keeps no distance.             *)
Spacing == [][\A c \in Command :
    status[c] # "flight" /\ status'[c] = "flight" =>
        \A i \in via'[c] : rest[<<HostOf[c], i>>] >= Interval]_vars

(* FR-004 and user story 1, scenario 3: while Redis answers, a command is  *)
(* put off only if each candidate of its host cools down or backs off, and *)
(* never starts on one that cools down, or that backs off under the name   *)
(* the spider has for the host, although the selection may fall on it.     *)
(* (Of feedback filed under another name the spider knows nothing.)        *)
DelayedForAReason == [][\A c \in Command : faults' = faults =>
    /\ dueIn'[c] > dueIn[c] =>
         \A i \in Pool(HostOf[c]) :
            cooldown[i] > 0 \/ HostIpWait(<<HostOf[c], i>>) > 0
    /\ status[c] # "flight" /\ status'[c] = "flight" =>
         \A i \in via'[c] :
            cooldown[i] = 0 /\ backoff[<<HostOf[c], i>>].wait = 0]_vars

(* User story 2, scenario 3 of spec 005: a delayed command is only         *)
(* delayed.  Each of finitely many commands is fetched in the end, through *)
(* cooldowns, backoffs and the requests that take its slot.                *)
EveryCommandFetched == <>(\A c \in Command : status[c] = "done")

(***************************************************************************)
(* A statement of the documents that the code does not keep.               *)
(***************************************************************************)

(* User story 3 of spec 005: the signals of a site bear on its scheduling. *)
(* No command starts through an identity while the backoff that requests   *)
(* to its netloc have brought upon that identity lasts, Redis answering.   *)
SiteBackoffsAreKept == [][\A c \in Command : faults' = faults =>
    (status[c] # "flight" /\ status'[c] = "flight" =>
        \A i \in via'[c] : backoff[<<NetlocOf[c], i>>].wait = 0)]_vars
=============================================================================
