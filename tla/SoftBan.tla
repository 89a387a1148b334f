------------------------------ MODULE SoftBan ------------------------------
(***************************************************************************)
(* The feedback about soft bans: SoftBanFeedbackController counts signals  *)
(* in Redis (FetchSafetyStateStore) and sets backoffs of a host and an     *)
(* egress identity, cooldowns of an identity and slowdowns of a host.      *)
(*                                                                         *)
(* One worker; its identities are its own, and what other workers tell     *)
(* about a host is left out.  A signal is recorded in three parts, each of *)
(* several Redis calls whose failure ends the part and nothing else        *)
(* (fail_open).  Recording takes no time.  Times are whole units, kept as  *)
(* what is left of them.  The ASN soft limit is left out: it is off by     *)
(* default, and nothing reads it.                                          *)
(***************************************************************************)
EXTENDS Integers, FiniteSets

CONSTANTS
    Host,               \* hosts as they are named: with a port, another one
    Identity,
    Challenge,          \* CROSS_DIMENSION_CHALLENGE_SIGNALS
    HostIpThreshold,    \* HOST_IP_SOFT_BAN_THRESHOLD
    IpThreshold,        \* IP_CROSS_HOST_CHALLENGE_THRESHOLD
    HostThreshold,      \* HOST_CROSS_IP_CHALLENGE_THRESHOLD
    Window,             \* SOFT_BAN_WINDOW_SECONDS
    BackoffBase,        \* HOST_IP_BACKOFF_BASE_MS
    BackoffMax,         \* HOST_IP_BACKOFF_MAX_MS
    Cooldown,           \* IP_COOLDOWN_SECONDS
    Slowdown,           \* HOST_SLOWDOWN_SECONDS
    MaxFaults           \* bound: Redis calls that fail, and restarts

Pair == Host \X Identity
Signal == Challenge \cup {"http_429"}       \* HOST_IP_BACKOFF_SIGNALS

ASSUME SoftBanAssumption ==
    /\ "http_429" \notin Challenge
    /\ {HostIpThreshold, IpThreshold, HostThreshold} \subseteq Nat \ {0}
    /\ {Window, Cooldown, Slowdown} \subseteq Nat \ {0}
    /\ BackoffBase \in Nat \ {0}
    /\ BackoffMax \in Nat /\ BackoffMax >= BackoffBase
    /\ MaxFaults \in Nat

VARIABLES
    pairSignals,    \* signal:host_ip counters
    ipSignals,      \* signal:ip counters of distinct hosts
    hostSignals,    \* signal:host counters of distinct identities
    backoff,        \* host_ip states: what is left of next_allowed_at, level
    cooldown,       \* ip states: what is left of cooldown_until
    slowdown,       \* host states: what is left of slowdown_until
    recording,      \* the signal that is being recorded
    faults,         \* Redis calls that have failed, and restarts
    challenged      \* history: the pairs that were challenged, per signal

counters == <<pairSignals, ipSignals, hostSignals>>
states == <<backoff, cooldown, slowdown>>
softBan == <<counters, states, recording, faults, challenged>>

Forever == -1           \* the TTL of a key whose first EXPIRE failed
NoSignals == [count |-> 0, ttl |-> 0]
NoMembers == [members |-> {}, count |-> 0, ttl |-> 0]
NoBackoff == [wait |-> 0, level |-> 0]
NothingToRecord == [stage |-> "none"]

SoftBanInit ==
    /\ pairSignals = [p \in Pair |-> [s \in Signal |-> NoSignals]]
    /\ ipSignals = [i \in Identity |-> [s \in Challenge |-> NoMembers]]
    /\ hostSignals = [h \in Host |-> [s \in Challenge |-> NoMembers]]
    /\ backoff = [p \in Pair |-> NoBackoff]
    /\ cooldown = [i \in Identity |-> 0]
    /\ slowdown = [h \in Host |-> 0]
    /\ recording = NothingToRecord
    /\ faults = 0
    /\ challenged = {}

Fault == faults < MaxFaults /\ faults' = faults + 1
NoFault == UNCHANGED faults

-----------------------------------------------------------------------------
(***************************************************************************)
(* Time.                                                                   *)
(***************************************************************************)
Less(t) == IF t > 0 THEN t - 1 ELSE t
Aged(c, none) == IF c.ttl = 1 THEN none ELSE [c EXCEPT !.ttl = Less(@)]

SoftBanTick ==
    /\ recording = NothingToRecord
    /\ pairSignals' = [p \in Pair |-> [s \in Signal |->
                            Aged(pairSignals[p][s], NoSignals)]]
    /\ ipSignals' = [i \in Identity |-> [s \in Challenge |->
                            Aged(ipSignals[i][s], NoMembers)]]
    /\ hostSignals' = [h \in Host |-> [s \in Challenge |->
                            Aged(hostSignals[h][s], NoMembers)]]
    /\ backoff' = [p \in Pair |-> [backoff[p] EXCEPT !.wait = Less(@)]]
    /\ cooldown' = [i \in Identity |-> Less(cooldown[i])]
    /\ slowdown' = [h \in Host |-> Less(slowdown[h])]
    /\ UNCHANGED <<recording, faults, challenged>>

(* The key of a backoff expires 24 hours after the last signal that set    *)
(* it: no counter that expires itself is at the threshold any more.        *)
ForgetBackoff(p) ==
    /\ recording = NothingToRecord
    /\ backoff[p].level > 0 /\ backoff[p].wait = 0
    /\ \A s \in Signal : pairSignals[p][s].count >= HostIpThreshold =>
          pairSignals[p][s].ttl = Forever
    /\ backoff' = [backoff EXCEPT ![p] = NoBackoff]
    /\ UNCHANGED <<counters, cooldown, slowdown, recording, faults, challenged>>

-----------------------------------------------------------------------------
(***************************************************************************)
(* increment_signal_window and increment_distinct_signal_window.  A failed *)
(* write leaves what was done before it, and the count is taken for zero.  *)
(* Above its threshold a count makes no difference.                        *)
(***************************************************************************)
SmallerOf(a, b) == IF a < b THEN a ELSE b
LargerOf(a, b) == IF a > b THEN a ELSE b

Counted(c) == [c EXCEPT !.count = SmallerOf(@ + 1, HostIpThreshold)]

(* A new key has no TTL before its EXPIRE. *)
Unexpired(c) == [c EXCEPT !.ttl = IF @ = 0 THEN Forever ELSE @]
Renewed(c) == [c EXCEPT !.ttl = Window]

(* Where a failed write may leave a counter; the last one is the answer to *)
(* EXPIRE that is lost. *)
HalfCounted(c) == {c, Unexpired(Counted(c)), Renewed(Counted(c))}

(* When HGETALL fails, the counter looks empty: the member is counted,     *)
(* whether it is there already or not. *)
JoinedUnread(c, member) == [c EXCEPT
    !.members = @ \cup {member},
    !.count = SmallerOf(@ + 1, LargerOf(IpThreshold, HostThreshold))]

(* A member that is there already is not counted again. *)
Joined(c, member) == IF member \in c.members THEN c ELSE JoinedUnread(c, member)

HalfJoined(c, member) ==
    {c, Unexpired([c EXCEPT !.members = @ \cup {member}]),
     Unexpired(Joined(c, member)), Renewed(Joined(c, member))}

-----------------------------------------------------------------------------
(***************************************************************************)
(* record_signal.                                                          *)
(***************************************************************************)
Delay(level) == SmallerOf(BackoffBase * 2^(level - 1), BackoffMax)

(* mark_backoff; beyond the longest delay, levels make no difference. *)
MarkBackoff(b) ==
    LET level == IF b.level > 0 /\ Delay(b.level) = BackoffMax THEN b.level
                 ELSE b.level + 1
    IN  [wait |-> Delay(level), level |-> level]

BeginRecording(p, s) ==
    /\ recording = NothingToRecord
    /\ recording' = [stage |-> "host_ip", pair |-> p, signal |-> s]
    /\ challenged' = challenged \cup ({s} \cap Challenge) \X {p[1]} \X {p[2]}

GoOn(stage) == recording' = [recording EXCEPT !.stage = stage]

\* Mutant: one signal more than configured is let through.
HostIpReachedLate(c) == c.count > HostIpThreshold

HostIpReached(c) == c.count >= HostIpThreshold

(* _record_host_ip_signal.  When the state cannot be read, the backoff     *)
(* starts anew.                                                            *)
RecordHostIp ==
    /\ recording.stage = "host_ip"
    /\ LET p == recording.pair
           s == recording.signal
           c == Renewed(Counted(pairSignals[p][s]))
       IN \/ /\ pairSignals' = [pairSignals EXCEPT ![p][s] = c]
             /\ IF HostIpReached(c)
                  THEN \/ /\ backoff' = [backoff EXCEPT ![p] = MarkBackoff(@)]
                          /\ NoFault
                       \/ /\ backoff' = [backoff EXCEPT ![p] = MarkBackoff(NoBackoff)]
                          /\ Fault
                  ELSE UNCHANGED backoff /\ NoFault
          \/ /\ \E half \in HalfCounted(pairSignals[p][s]) :
                  pairSignals' = [pairSignals EXCEPT ![p][s] = half]
             /\ UNCHANGED backoff
             /\ Fault
    /\ IF recording.signal \in Challenge THEN GoOn("ip")
       ELSE recording' = NothingToRecord
    /\ UNCHANGED <<ipSignals, hostSignals, cooldown, slowdown, challenged>>

CoolDown(i, c) == cooldown' =
    IF c.count >= IpThreshold THEN [cooldown EXCEPT ![i] = Cooldown] ELSE cooldown

(* _record_ip_challenge *)
RecordIp ==
    /\ recording.stage = "ip"
    /\ LET h == recording.pair[1]
           i == recording.pair[2]
           s == recording.signal
           Count(c) == ipSignals' = [ipSignals EXCEPT ![i][s] = c]
           seen == Joined(ipSignals[i][s], h)
           unread == JoinedUnread(ipSignals[i][s], h)
       IN \/ Count(Renewed(seen)) /\ CoolDown(i, seen) /\ NoFault
          \/ Count(Renewed(unread)) /\ CoolDown(i, unread) /\ Fault
          \/ /\ \E half \in HalfJoined(ipSignals[i][s], h) : Count(half)
             /\ UNCHANGED cooldown
             /\ Fault
    /\ GoOn("host")
    /\ UNCHANGED <<pairSignals, hostSignals, backoff, slowdown, challenged>>

SlowDown(h, c) == slowdown' =
    IF c.count >= HostThreshold THEN [slowdown EXCEPT ![h] = Slowdown] ELSE slowdown

(* _record_host_challenge *)
RecordHost ==
    /\ recording.stage = "host"
    /\ LET h == recording.pair[1]
           i == recording.pair[2]
           s == recording.signal
           Count(c) == hostSignals' = [hostSignals EXCEPT ![h][s] = c]
           seen == Joined(hostSignals[h][s], i)
           unread == JoinedUnread(hostSignals[h][s], i)
       IN \/ Count(Renewed(seen)) /\ SlowDown(h, seen) /\ NoFault
          \/ Count(Renewed(unread)) /\ SlowDown(h, unread) /\ Fault
          \/ /\ \E half \in HalfJoined(hostSignals[h][s], i) : Count(half)
             /\ UNCHANGED slowdown
             /\ Fault
    /\ recording' = NothingToRecord
    /\ UNCHANGED <<pairSignals, ipSignals, backoff, cooldown, challenged>>

RecordSignal == RecordHostIp \/ RecordIp \/ RecordHost

-----------------------------------------------------------------------------
(***************************************************************************)
(* Properties.                                                             *)
(***************************************************************************)
Ttl == 0..Window \cup {Forever}

SoftBanTypeOK ==
    /\ pairSignals \in [Pair -> [Signal ->
           [count : 0..HostIpThreshold, ttl : Ttl]]]
    /\ ipSignals \in [Identity -> [Challenge ->
           [members : SUBSET Host, count : Nat, ttl : Ttl]]]
    /\ hostSignals \in [Host -> [Challenge ->
           [members : SUBSET Identity, count : Nat, ttl : Ttl]]]
    /\ backoff \in [Pair -> [wait : 0..BackoffMax, level : Nat]]
    /\ cooldown \in [Identity -> 0..Cooldown]
    /\ slowdown \in [Host -> 0..Slowdown]
    /\ recording.stage \in {"none", "host_ip", "ip", "host"}
    /\ faults \in 0..MaxFaults
    /\ challenged \subseteq Challenge \X Host \X Identity

(* User story 3, scenarios 2 and 3 of spec 005: an identity cools down     *)
(* only after IpThreshold different hosts have challenged it in one way, a *)
(* host slows down only after HostThreshold identities were challenged     *)
(* there; what one pair does, however often, is nobody else's fault.  Each *)
(* failure of Redis stands in for one challenge at most.                   *)
CrossDimensionEvidence ==
    /\ \A i \in Identity : cooldown[i] > 0 => \E s \in Challenge :
         Cardinality({h \in Host : <<s, h, i>> \in challenged}) + faults
            >= IpThreshold
    /\ \A h \in Host : slowdown[h] > 0 => \E s \in Challenge :
         Cardinality({i \in Identity : <<s, h, i>> \in challenged}) + faults
            >= HostThreshold

(* User story 3, scenario 1: when a pair's signals have reached the        *)
(* threshold within the window, the pair is backing off or has done so,    *)
(* unless Redis failed or the worker stopped half way.                     *)
ThresholdMeansBackoff == \A p \in Pair, s \in Signal :
    faults = 0 /\ pairSignals[p][s].count >= HostIpThreshold =>
        backoff[p].level > 0
=============================================================================
