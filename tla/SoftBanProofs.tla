--------------------------- MODULE SoftBanProofs ---------------------------
(***************************************************************************)
(* TLAPS proofs about SoftBan and Politeness: for any hosts and            *)
(* identities, any thresholds, delays and windows, any commands, and any   *)
(* number of failing Redis calls and restarts.                             *)
(***************************************************************************)
EXTENDS PolitenessProofs

(***************************************************************************)
(* The invariant of the feedback.                                          *)
(***************************************************************************)
PairCounter == [count : 0..HostIpThreshold, ttl : Ttl]
DistinctCounter(M) == [members : SUBSET M, count : Nat, ttl : Ttl]
Recordings == {NothingToRecord} \cup
    [stage : {"host_ip"}, pair : Pair, signal : Signal] \cup
    [stage : {"ip", "host"}, pair : Pair, signal : Challenge]

(* What is being recorded is in the history already. *)
Witnessed ==
    /\ recording \in Recordings
    /\ recording # NothingToRecord /\ recording.signal \in Challenge =>
          <<recording.signal, recording.pair[1], recording.pair[2]>> \in challenged
    /\ IsFiniteSet(challenged)

(* A distinct counter holds members of E only, and counts no more than it  *)
(* holds but for one per failure of Redis.                                 *)
Grounded(c, E, n) ==
    /\ c.members \subseteq E /\ IsFiniteSet(c.members)
    /\ c.count <= Cardinality(c.members) + n

HostsIn(T, s, i) == {h \in Host : <<s, h, i>> \in T}
IdentitiesIn(T, s, h) == {i \in Identity : <<s, h, i>> \in T}
HostsThat(s, i) == HostsIn(challenged, s, i)
IdentitiesThat(s, h) == IdentitiesIn(challenged, s, h)

CountersGrounded ==
    /\ \A i \in Identity, s \in Challenge :
          Grounded(ipSignals[i][s], HostsThat(s, i), faults)
    /\ \A h \in Host, s \in Challenge :
          Grounded(hostSignals[h][s], IdentitiesThat(s, h), faults)

(* While Redis answers, each counter has its TTL. *)
CountersExpire == faults = 0 =>
    \A p \in Pair, s \in Signal : pairSignals[p][s].ttl # Forever

SoftBanInv ==
    /\ SoftBanTypeOK /\ Witnessed /\ CountersGrounded /\ CountersExpire
    /\ CrossDimensionEvidence /\ ThresholdMeansBackoff

(***************************************************************************)
(* Arithmetic: 2^n is the number of subsets of 1..n.                       *)
(***************************************************************************)
LEMMA PowersOfTwo ==
    ASSUME NEW n \in Nat
    PROVE  2^n \in Nat \ {0}
<1>1. IsFiniteSet(1..n) /\ Cardinality(1..n) = n
  BY FS_Interval
<1>2. IsFiniteSet(SUBSET (1..n)) /\ Cardinality(SUBSET (1..n)) = 2^n
  BY <1>1, FS_SUBSET
<1>3. SUBSET (1..n) # {}
  OBVIOUS
<1> QED
  BY <1>2, <1>3, FS_CardinalityType, FS_EmptySet

LEMMA PositiveProduct ==
    ASSUME NEW a \in Nat \ {0}, NEW b \in Nat \ {0}
    PROVE  a * b \in Nat \ {0}
OBVIOUS

(* FR-008: a backoff lasts at most BackoffMax, whatever its level. *)
LEMMA DelayType ==
    ASSUME NEW level \in Nat \ {0}
    PROVE  Delay(level) \in 1..BackoffMax
<1>1. level - 1 \in Nat
  OBVIOUS
<1>2. 2^(level - 1) \in Nat \ {0}
  BY <1>1, PowersOfTwo
<1> DEFINE full == BackoffBase * 2^(level - 1)
<1>3. full \in Nat \ {0}
  BY <1>2, PositiveProduct, SoftBanAssumption
<1>4. Delay(level) = SmallerOf(full, BackoffMax)
  BY DEF Delay
<1> HIDE DEF full
<1> QED
  BY <1>3, <1>4, SoftBanAssumption DEF SmallerOf

LEMMA MarkBackoffType ==
    ASSUME NEW b \in [wait : 0..BackoffMax, level : Nat]
    PROVE  /\ MarkBackoff(b) \in [wait : 0..BackoffMax, level : Nat]
           /\ MarkBackoff(b).level > 0
<1> DEFINE level == IF b.level > 0 /\ Delay(b.level) = BackoffMax THEN b.level
                    ELSE b.level + 1
<1>1. level \in Nat \ {0}
  OBVIOUS
<1>2. Delay(level) \in 0..BackoffMax
  BY <1>1, DelayType, SoftBanAssumption
<1>3. MarkBackoff(b) = [wait |-> Delay(level), level |-> level]
  BY DEF MarkBackoff
<1> HIDE DEF level
<1> QED
  BY <1>1, <1>2, <1>3

(***************************************************************************)
(* The counters.                                                           *)
(***************************************************************************)
LEMMA LessType ==
    /\ \A n \in Nat : \A t \in 0..n : Less(t) \in 0..n
    /\ \A t \in Ttl : Less(t) \in Ttl
BY SoftBanAssumption DEF Less, Ttl, Forever

LEMMA TtlType == {0, Window, Forever} \subseteq Ttl /\ Window # Forever
BY SoftBanAssumption DEF Ttl, Forever

LEMMA PairCounterType ==
    ASSUME NEW c \in PairCounter
    PROVE  /\ Aged(c, NoSignals) \in PairCounter
           /\ Renewed(Counted(c)) \in PairCounter
           /\ Renewed(Counted(c)).ttl # Forever
           /\ HalfCounted(c) \subseteq PairCounter
           /\ Aged(c, NoSignals).count \in {0, c.count}
           /\ c.ttl # Forever => Aged(c, NoSignals).ttl # Forever
<1> USE SoftBanAssumption, LessType, TtlType
<1>1. SmallerOf(c.count + 1, HostIpThreshold) \in 0..HostIpThreshold
  BY DEF PairCounter, SmallerOf
<1>2. Counted(c) \in PairCounter
  BY <1>1 DEF PairCounter, Counted
<1>3. \A d \in PairCounter : Renewed(d) \in PairCounter /\ Renewed(d).ttl = Window
  BY DEF PairCounter, Renewed
<1>4. \A d \in PairCounter : Unexpired(d) \in PairCounter
  BY DEF PairCounter, Unexpired
<1>5. Aged(c, NoSignals) \in PairCounter
  BY DEF PairCounter, Aged, NoSignals
<1>6. Aged(c, NoSignals).count \in {0, c.count}
  BY DEF PairCounter, Aged, NoSignals
<1>7. c.ttl # Forever => Aged(c, NoSignals).ttl # Forever
  BY DEF PairCounter, Aged, NoSignals, Less, Ttl, Forever
<1> QED
  BY <1>2, <1>3, <1>4, <1>5, <1>6, <1>7 DEF HalfCounted

LEMMA DistinctCounterType ==
    ASSUME NEW M, NEW c \in DistinctCounter(M)
    PROVE  /\ Renewed(c) \in DistinctCounter(M)
           /\ Unexpired(c) \in DistinctCounter(M)
           /\ Renewed(c).members = c.members /\ Renewed(c).count = c.count
           /\ Unexpired(c).members = c.members /\ Unexpired(c).count = c.count
           /\ Aged(c, NoMembers) \in DistinctCounter(M)
           /\ \/ Aged(c, NoMembers).members = {} /\ Aged(c, NoMembers).count = 0
              \/ /\ Aged(c, NoMembers).members = c.members
                 /\ Aged(c, NoMembers).count = c.count
<1> USE SoftBanAssumption, LessType, TtlType
<1>1. Renewed(c) = [members |-> c.members, count |-> c.count, ttl |-> Window]
  BY DEF DistinctCounter, Renewed
<1>2. Unexpired(c) = [members |-> c.members, count |-> c.count,
                      ttl |-> IF c.ttl = 0 THEN Forever ELSE c.ttl]
  BY DEF DistinctCounter, Unexpired
<1>3. c.ttl # 1 => Aged(c, NoMembers) =
          [members |-> c.members, count |-> c.count, ttl |-> Less(c.ttl)]
  BY DEF DistinctCounter, Aged
<1>4. c.ttl = 1 => Aged(c, NoMembers) = NoMembers
  BY DEF Aged
<1>5. c.members \in SUBSET M /\ c.count \in Nat /\ c.ttl \in Ttl
  BY DEF DistinctCounter
<1>6. (IF c.ttl = 0 THEN Forever ELSE c.ttl) \in Ttl /\ Less(c.ttl) \in Ttl
  BY <1>5
<1>7. Renewed(c) \in DistinctCounter(M) /\ Unexpired(c) \in DistinctCounter(M)
  BY <1>1, <1>2, <1>5, <1>6 DEF DistinctCounter
<1>8. Aged(c, NoMembers) \in DistinctCounter(M)
  BY <1>3, <1>4, <1>5, <1>6 DEF DistinctCounter, NoMembers
<1> QED
  BY <1>1, <1>2, <1>3, <1>4, <1>7, <1>8 DEF NoMembers

(* Evidence only grows, and an expired counter claims nothing.             *)
LEMMA GroundedStays ==
    ASSUME NEW M, NEW c \in DistinctCounter(M), NEW E, NEW F,
           NEW n \in Nat, NEW m \in Nat, Grounded(c, E, n), E \subseteq F, n <= m
    PROVE  /\ Grounded(c, F, m)
           /\ Grounded(Aged(c, NoMembers), F, m)
           /\ Grounded(Renewed(c), F, m)
           /\ Grounded(Unexpired(c), F, m)
<1>1. c.count \in Nat /\ Cardinality(c.members) \in Nat
  BY FS_CardinalityType DEF DistinctCounter, Grounded
<1>2. Grounded(c, F, m)
  BY <1>1 DEF Grounded
<1>3. IsFiniteSet({}) /\ Cardinality({}) = 0
  BY FS_EmptySet
<1>4. \A d : d.members = c.members /\ d.count = c.count => Grounded(d, F, m)
  BY <1>2 DEF Grounded
<1>5. \A d : d.members = {} /\ d.count = 0 => Grounded(d, F, m)
  BY <1>3 DEF Grounded
<1> QED
  BY <1>2, <1>4, <1>5, DistinctCounterType

(* A member that is counted twice costs a failure of Redis.                *)
LEMMA JoinGrounded ==
    ASSUME NEW M, NEW c \in DistinctCounter(M), NEW x \in M, NEW E, x \in E,
           NEW n \in Nat, Grounded(c, E, n)
    PROVE  /\ Joined(c, x) \in DistinctCounter(M)
           /\ JoinedUnread(c, x) \in DistinctCounter(M)
           /\ HalfJoined(c, x) \subseteq DistinctCounter(M)
           /\ Grounded(Joined(c, x), E, n)
           /\ Grounded(JoinedUnread(c, x), E, n + 1)
           /\ \A half \in HalfJoined(c, x) : Grounded(half, E, n + 1)
<1> DEFINE top == LargerOf(IpThreshold, HostThreshold)
           more == SmallerOf(c.count + 1, top)
           unread == JoinedUnread(c, x)
           uncounted == [c EXCEPT !.members = @ \cup {x}]
<1>1. c.members \in SUBSET M /\ c.count \in Nat /\ c.ttl \in Ttl
  BY DEF DistinctCounter
<1>2. more \in Nat /\ more <= c.count + 1
  <2>1. top \in Nat
    BY SoftBanAssumption DEF LargerOf
  <2> QED
    BY <1>1, <2>1 DEF SmallerOf
<1>3. unread = [members |-> c.members \cup {x}, count |-> more, ttl |-> c.ttl]
  <2>1. /\ unread.members = c.members \cup {x}
        /\ unread.count = more
        /\ unread.ttl = c.ttl
    BY DEF DistinctCounter, JoinedUnread
  <2>2. unread \in [{"members", "count", "ttl"} -> {c.members \cup {x}, more, c.ttl}]
    BY DEF DistinctCounter, JoinedUnread
  <2> QED
    BY <2>1, <2>2
<1>4. uncounted = [members |-> c.members \cup {x}, count |-> c.count, ttl |-> c.ttl]
  BY DEF DistinctCounter
<1> HIDE DEF more, unread, uncounted
<1>5. c.members \cup {x} \in SUBSET M
  BY <1>1
<1>6. unread \in DistinctCounter(M) /\ uncounted \in DistinctCounter(M)
  BY <1>1, <1>2, <1>3, <1>4, <1>5 DEF DistinctCounter
<1>7. /\ IsFiniteSet(c.members \cup {x})
      /\ Cardinality(c.members) \in Nat
      /\ Cardinality(c.members \cup {x}) =
            IF x \in c.members THEN Cardinality(c.members)
            ELSE Cardinality(c.members) + 1
  BY FS_AddElement, FS_CardinalityType DEF Grounded
<1>8. c.members \cup {x} \subseteq E
  BY DEF Grounded
<1>9. /\ Grounded(unread, E, n + 1)
      /\ x \notin c.members => Grounded(unread, E, n)
      /\ Grounded(uncounted, E, n + 1)
  BY <1>1, <1>2, <1>3, <1>4, <1>7, <1>8 DEF Grounded
<1>10. Joined(c, x) \in DistinctCounter(M) /\ Grounded(Joined(c, x), E, n)
  BY <1>6, <1>9 DEF Joined, unread
<1>11. /\ Grounded(c, E, n + 1)
       /\ Grounded(Unexpired(uncounted), E, n + 1)
       /\ Grounded(Unexpired(Joined(c, x)), E, n + 1)
       /\ Grounded(Renewed(Joined(c, x)), E, n + 1)
  <2>1. n + 1 \in Nat /\ n <= n + 1 /\ n + 1 <= n + 1
    OBVIOUS
  <2> QED
    BY <1>6, <1>9, <1>10, <2>1, GroundedStays
<1>12. HalfJoined(c, x) =
          {c, Unexpired(uncounted), Unexpired(Joined(c, x)), Renewed(Joined(c, x))}
  BY DEF HalfJoined, uncounted
<1>13. HalfJoined(c, x) \subseteq DistinctCounter(M)
  BY <1>6, <1>10, <1>12, DistinctCounterType
<1>14. \A half \in HalfJoined(c, x) : Grounded(half, E, n + 1)
  BY <1>11, <1>12
<1> QED
  BY <1>6, <1>9, <1>10, <1>13, <1>14 DEF unread

(***************************************************************************)
(* The steps of the feedback.                                              *)
(***************************************************************************)
CooldownEvidence(i) == \E s \in Challenge :
    Cardinality(HostsThat(s, i)) + faults >= IpThreshold
SlowdownEvidence(h) == \E s \in Challenge :
    Cardinality(IdentitiesThat(s, h)) + faults >= HostThreshold

(* The history and the number of failures only grow. *)
Grows ==
    /\ challenged \subseteq challenged' /\ IsFiniteSet(challenged')
    /\ faults' \in 0..MaxFaults /\ faults <= faults'

LEMMA TriplesFinite ==
    ASSUME NEW T, IsFiniteSet(T), NEW s, NEW x
    PROVE  IsFiniteSet(HostsIn(T, s, x)) /\ IsFiniteSet(IdentitiesIn(T, s, x))
<1> DEFINE H == HostsIn(T, s, x)
           I == IdentitiesIn(T, s, x)
           f == [h \in H |-> <<s, h, x>>]
           g == [i \in I |-> <<s, x, i>>]
<1>1. f \in Injection(H, T) /\ g \in Injection(I, T)
  BY DEF Injection, IsInjective, HostsIn, IdentitiesIn
<1> HIDE DEF f, g, H, I
<1>2. IsFiniteSet(H) /\ IsFiniteSet(I)
  BY <1>1, FS_Injection
<1> QED
  BY <1>2 DEF H, I

LEMMA FaultsType ==
    ASSUME SoftBanTypeOK
    PROVE  faults \in Nat /\ (Fault => faults' \in 1..MaxFaults /\ faults' = faults + 1)
BY SoftBanAssumption DEF SoftBanTypeOK, Fault

LEMMA EvidenceGrows ==
    ASSUME SoftBanInv, Grows
    PROVE  /\ \A i \in Identity, s \in Challenge :
                 /\ HostsThat(s, i) \subseteq HostsThat(s, i)'
                 /\ IsFiniteSet(HostsThat(s, i)')
           /\ \A h \in Host, s \in Challenge :
                 /\ IdentitiesThat(s, h) \subseteq IdentitiesThat(s, h)'
                 /\ IsFiniteSet(IdentitiesThat(s, h)')
           /\ \A i \in Identity : CooldownEvidence(i) => CooldownEvidence(i)'
           /\ \A h \in Host : SlowdownEvidence(h) => SlowdownEvidence(h)'
<1>1. faults \in Nat /\ faults' \in Nat /\ faults <= faults'
  BY SoftBanAssumption DEF SoftBanInv, SoftBanTypeOK, Grows
<1>2. ASSUME NEW i \in Identity, NEW s \in Challenge
      PROVE  /\ HostsThat(s, i) \subseteq HostsThat(s, i)'
             /\ IsFiniteSet(HostsThat(s, i)')
             /\ Cardinality(HostsThat(s, i)) + faults
                   <= Cardinality(HostsThat(s, i)') + faults'
             /\ Cardinality(HostsThat(s, i)) \in Nat
             /\ Cardinality(HostsThat(s, i)') \in Nat
  <2>1. HostsThat(s, i) \subseteq HostsThat(s, i)'
    BY DEF HostsThat, HostsIn, Grows
  <2>2. IsFiniteSet(HostsThat(s, i)')
    <3>1. IsFiniteSet(challenged')
      BY DEF Grows
    <3> QED
      BY <3>1, TriplesFinite DEF HostsThat
  <2>3. /\ Cardinality(HostsThat(s, i)) <= Cardinality(HostsThat(s, i)')
        /\ Cardinality(HostsThat(s, i)) \in Nat
        /\ Cardinality(HostsThat(s, i)') \in Nat
    BY <2>1, <2>2, FS_Subset, FS_CardinalityType
  <2> QED
    BY <1>1, <2>1, <2>2, <2>3
<1>3. ASSUME NEW h \in Host, NEW s \in Challenge
      PROVE  /\ IdentitiesThat(s, h) \subseteq IdentitiesThat(s, h)'
             /\ IsFiniteSet(IdentitiesThat(s, h)')
             /\ Cardinality(IdentitiesThat(s, h)) + faults
                   <= Cardinality(IdentitiesThat(s, h)') + faults'
             /\ Cardinality(IdentitiesThat(s, h)) \in Nat
             /\ Cardinality(IdentitiesThat(s, h)') \in Nat
  <2>1. IdentitiesThat(s, h) \subseteq IdentitiesThat(s, h)'
    BY DEF IdentitiesThat, IdentitiesIn, Grows
  <2>2. IsFiniteSet(IdentitiesThat(s, h)')
    <3>1. IsFiniteSet(challenged')
      BY DEF Grows
    <3> QED
      BY <3>1, TriplesFinite DEF IdentitiesThat
  <2>3. /\ Cardinality(IdentitiesThat(s, h)) <= Cardinality(IdentitiesThat(s, h)')
        /\ Cardinality(IdentitiesThat(s, h)) \in Nat
        /\ Cardinality(IdentitiesThat(s, h)') \in Nat
    BY <2>1, <2>2, FS_Subset, FS_CardinalityType
  <2> QED
    BY <1>1, <2>1, <2>2, <2>3
<1>4. IpThreshold \in Nat /\ HostThreshold \in Nat
  BY SoftBanAssumption
<1>5. ASSUME NEW i \in Identity, CooldownEvidence(i)
      PROVE  CooldownEvidence(i)'
  <2>1. PICK s \in Challenge : Cardinality(HostsThat(s, i)) + faults >= IpThreshold
    BY <1>5 DEF CooldownEvidence
  <2>2. Cardinality(HostsThat(s, i)') + faults' >= IpThreshold
    BY <1>1, <1>2, <1>4, <2>1
  <2> QED
    BY <2>2 DEF CooldownEvidence
<1>6. ASSUME NEW h \in Host, SlowdownEvidence(h)
      PROVE  SlowdownEvidence(h)'
  <2>1. PICK s \in Challenge :
           Cardinality(IdentitiesThat(s, h)) + faults >= HostThreshold
    BY <1>6 DEF SlowdownEvidence
  <2>2. Cardinality(IdentitiesThat(s, h)') + faults' >= HostThreshold
    BY <1>1, <1>3, <1>4, <2>1
  <2> QED
    BY <2>2 DEF SlowdownEvidence
<1> QED
  BY <1>2, <1>3, <1>5, <1>6

(* No cooldown or slowdown without evidence of its own.                    *)
LEMMA EvidenceKept ==
    ASSUME SoftBanInv, Grows,
           \A i \in Identity :
              cooldown'[i] > 0 => cooldown[i] > 0 \/ CooldownEvidence(i)',
           \A h \in Host :
              slowdown'[h] > 0 => slowdown[h] > 0 \/ SlowdownEvidence(h)'
    PROVE  CrossDimensionEvidence'
<1>1. /\ \A i \in Identity : cooldown[i] > 0 => CooldownEvidence(i)
      /\ \A h \in Host : slowdown[h] > 0 => SlowdownEvidence(h)
  BY DEF SoftBanInv, CrossDimensionEvidence, CooldownEvidence, SlowdownEvidence,
         HostsThat, IdentitiesThat, HostsIn, IdentitiesIn
<1>2. /\ \A i \in Identity : cooldown'[i] > 0 => CooldownEvidence(i)'
      /\ \A h \in Host : slowdown'[h] > 0 => SlowdownEvidence(h)'
  BY <1>1, EvidenceGrows
<1> QED
  BY <1>2 DEF CrossDimensionEvidence, CooldownEvidence, SlowdownEvidence,
              HostsThat, IdentitiesThat, HostsIn, IdentitiesIn

(* A counter that is left alone, or aged, is grounded still.               *)
LEMMA GroundedKept ==
    ASSUME SoftBanInv, Grows
    PROVE  /\ \A i \in Identity, s \in Challenge :
                 /\ ipSignals[i][s] \in DistinctCounter(Host)
                 /\ Grounded(ipSignals[i][s], HostsThat(s, i)', faults')
                 /\ Grounded(Aged(ipSignals[i][s], NoMembers),
                             HostsThat(s, i)', faults')
           /\ \A h \in Host, s \in Challenge :
                 /\ hostSignals[h][s] \in DistinctCounter(Identity)
                 /\ Grounded(hostSignals[h][s], IdentitiesThat(s, h)', faults')
                 /\ Grounded(Aged(hostSignals[h][s], NoMembers),
                             IdentitiesThat(s, h)', faults')
<1>1. faults \in Nat /\ faults' \in Nat /\ faults <= faults'
  BY SoftBanAssumption DEF SoftBanInv, SoftBanTypeOK, Grows
<1>2. ASSUME NEW i \in Identity, NEW s \in Challenge
      PROVE  /\ ipSignals[i][s] \in DistinctCounter(Host)
             /\ Grounded(ipSignals[i][s], HostsThat(s, i), faults)
  BY <1>2 DEF SoftBanInv, SoftBanTypeOK, CountersGrounded, DistinctCounter
<1>3. ASSUME NEW h \in Host, NEW s \in Challenge
      PROVE  /\ hostSignals[h][s] \in DistinctCounter(Identity)
             /\ Grounded(hostSignals[h][s], IdentitiesThat(s, h), faults)
  BY <1>3 DEF SoftBanInv, SoftBanTypeOK, CountersGrounded, DistinctCounter
<1> QED
  BY <1>1, <1>2, <1>3, EvidenceGrows, GroundedStays

LEMMA SoftBanStart == SoftBanInit => SoftBanInv
<1> SUFFICES ASSUME SoftBanInit PROVE SoftBanInv
  OBVIOUS
<1> USE SoftBanAssumption, TtlType DEF SoftBanInit
<1>0. IsFiniteSet({}) /\ Cardinality({}) = 0
  BY FS_EmptySet
<1>1. SoftBanTypeOK
  <2>1. NoSignals \in [count : 0..HostIpThreshold, ttl : Ttl]
    BY DEF NoSignals
  <2>2. \A M : NoMembers \in [members : SUBSET M, count : Nat, ttl : Ttl]
    BY DEF NoMembers
  <2>3. NoBackoff \in [wait : 0..BackoffMax, level : Nat]
    BY DEF NoBackoff
  <2>4. recording.stage \in {"none", "host_ip", "ip", "host"}
    BY DEF NothingToRecord
  <2> QED
    BY <2>1, <2>2, <2>3, <2>4 DEF SoftBanTypeOK
<1>2. Witnessed
  BY <1>0 DEF Witnessed, Recordings
<1>3. CountersGrounded
  <2>1. \A E : Grounded(NoMembers, E, 0)
    BY <1>0 DEF Grounded, NoMembers
  <2> QED
    BY <2>1 DEF CountersGrounded
<1>4. CountersExpire
  BY DEF CountersExpire, NoSignals, Forever
<1>5. CrossDimensionEvidence
  BY DEF CrossDimensionEvidence
<1>6. ThresholdMeansBackoff
  BY DEF ThresholdMeansBackoff, NoSignals
<1> QED
  BY <1>1, <1>2, <1>3, <1>4, <1>5, <1>6 DEF SoftBanInv

LEMMA SoftBanTickKeeps ==
    ASSUME SoftBanInv, SoftBanTick
    PROVE  SoftBanInv'
<1>1. Grows /\ faults' = faults
  BY SoftBanAssumption DEF SoftBanInv, SoftBanTypeOK, SoftBanTick, Grows, Witnessed
<1>2. ASSUME NEW p \in Pair, NEW s \in Signal
      PROVE  /\ pairSignals[p][s] \in PairCounter
             /\ pairSignals'[p][s] = Aged(pairSignals[p][s], NoSignals)
             /\ pairSignals'[p][s] \in PairCounter
             /\ pairSignals'[p][s].count \in {0, pairSignals[p][s].count}
             /\ faults = 0 => pairSignals'[p][s].ttl # Forever
             /\ backoff'[p].level = backoff[p].level
  <2>1. pairSignals[p][s] \in PairCounter
    BY DEF SoftBanInv, SoftBanTypeOK, PairCounter
  <2>2. pairSignals'[p][s] = Aged(pairSignals[p][s], NoSignals)
    BY DEF SoftBanTick
  <2>3. faults = 0 => pairSignals[p][s].ttl # Forever
    BY DEF SoftBanInv, CountersExpire
  <2>4. backoff'[p].level = backoff[p].level
    BY DEF SoftBanTick, SoftBanInv, SoftBanTypeOK
  <2> QED
    BY <2>1, <2>2, <2>3, <2>4, PairCounterType
<1>3. SoftBanTypeOK'
  <2>1. pairSignals' \in [Pair -> [Signal -> PairCounter]]
    BY <1>2 DEF SoftBanTick
  <2>2. ipSignals' \in [Identity -> [Challenge -> DistinctCounter(Host)]]
    BY <1>1, GroundedKept, DistinctCounterType DEF SoftBanTick
  <2>3. hostSignals' \in [Host -> [Challenge -> DistinctCounter(Identity)]]
    BY <1>1, GroundedKept, DistinctCounterType DEF SoftBanTick
  <2>4. backoff' \in [Pair -> [wait : 0..BackoffMax, level : Nat]]
    BY LessType, SoftBanAssumption DEF SoftBanTick, SoftBanInv, SoftBanTypeOK
  <2>5. cooldown' \in [Identity -> 0..Cooldown] /\ slowdown' \in [Host -> 0..Slowdown]
    BY LessType, SoftBanAssumption DEF SoftBanTick, SoftBanInv, SoftBanTypeOK
  <2> QED
    BY <2>1, <2>2, <2>3, <2>4, <2>5
    DEF SoftBanTick, SoftBanInv, SoftBanTypeOK, PairCounter, DistinctCounter
<1>4. Witnessed'
  BY DEF SoftBanTick, SoftBanInv, Witnessed
<1>5. CountersGrounded'
  BY <1>1, GroundedKept DEF SoftBanTick, CountersGrounded
<1>6. CountersExpire'
  BY <1>1, <1>2 DEF CountersExpire
<1>7. CrossDimensionEvidence'
  <2>1. \A i \in Identity : cooldown'[i] > 0 => cooldown[i] > 0
    BY DEF SoftBanTick, SoftBanInv, SoftBanTypeOK, Less
  <2>2. \A h \in Host : slowdown'[h] > 0 => slowdown[h] > 0
    BY DEF SoftBanTick, SoftBanInv, SoftBanTypeOK, Less
  <2> QED
    BY <1>1, <2>1, <2>2, EvidenceKept
<1>8. ThresholdMeansBackoff'
  BY <1>1, <1>2, SoftBanAssumption DEF SoftBanInv, ThresholdMeansBackoff
<1> QED
  BY <1>3, <1>4, <1>5, <1>6, <1>7, <1>8 DEF SoftBanInv

(* Steps that leave the counters and the cooldowns alone.                  *)
LEMMA QuietStepKeeps ==
    ASSUME SoftBanInv, Grows, Witnessed',
           recording'.stage \in {"none", "host_ip", "ip", "host"},
           UNCHANGED <<counters, cooldown, slowdown>>,
           backoff' \in [Pair -> [wait : 0..BackoffMax, level : Nat]],
           challenged' \subseteq Challenge \X Host \X Identity,
           ThresholdMeansBackoff'
    PROVE  SoftBanInv'
<1>1. SoftBanTypeOK'
  BY DEF SoftBanInv, SoftBanTypeOK, counters, Grows
<1>2. CountersGrounded'
  BY GroundedKept DEF CountersGrounded, counters
<1>3. CountersExpire'
  <2>1. faults' = 0 => faults = 0
    BY SoftBanAssumption DEF Grows, SoftBanInv, SoftBanTypeOK
  <2> QED
    BY <2>1 DEF SoftBanInv, CountersExpire, counters
<1>4. CrossDimensionEvidence'
  BY EvidenceKept
<1> QED
  BY <1>1, <1>2, <1>3, <1>4 DEF SoftBanInv

LEMMA ForgetKeeps ==
    ASSUME SoftBanInv, NEW p \in Pair, ForgetBackoff(p)
    PROVE  SoftBanInv'
<1>1. Grows /\ faults' = faults
  BY SoftBanAssumption DEF SoftBanInv, SoftBanTypeOK, ForgetBackoff, Grows, Witnessed
<1>2. backoff' \in [Pair -> [wait : 0..BackoffMax, level : Nat]]
  BY SoftBanAssumption DEF SoftBanInv, SoftBanTypeOK, ForgetBackoff, NoBackoff
<1>3. ASSUME NEW q \in Pair, NEW s \in Signal, faults = 0,
             pairSignals[q][s].count >= HostIpThreshold
      PROVE  backoff'[q].level > 0
  <2>1. backoff[q].level > 0 /\ pairSignals[q][s].ttl # Forever
    BY <1>3 DEF SoftBanInv, ThresholdMeansBackoff, CountersExpire
  <2>2. q # p
    BY <1>3, <2>1 DEF ForgetBackoff
  <2> QED
    BY <2>1, <2>2 DEF ForgetBackoff, SoftBanInv, SoftBanTypeOK
<1>4. ThresholdMeansBackoff'
  BY <1>1, <1>3 DEF ThresholdMeansBackoff, ForgetBackoff, counters
<1>5. Witnessed' /\ recording' = recording
  BY DEF ForgetBackoff, SoftBanInv, Witnessed
<1>6. recording.stage \in {"none", "host_ip", "ip", "host"}
  BY DEF SoftBanInv, SoftBanTypeOK
<1>7. challenged' \subseteq Challenge \X Host \X Identity
  BY DEF ForgetBackoff, SoftBanInv, SoftBanTypeOK
<1> QED
  BY <1>1, <1>2, <1>4, <1>5, <1>6, <1>7, QuietStepKeeps DEF ForgetBackoff

LEMMA RecordingType ==
    ASSUME SoftBanInv, recording.stage # "none"
    PROVE  /\ recording.pair \in Host \X Identity /\ recording.signal \in Signal
           /\ recording.pair = <<recording.pair[1], recording.pair[2]>>
           /\ recording.pair[1] \in Host /\ recording.pair[2] \in Identity
           /\ recording.stage \in {"ip", "host"} => recording.signal \in Challenge
           /\ \A t \in {"ip", "host"} : recording.signal \in Challenge =>
                 [recording EXCEPT !.stage = t] \in Recordings
           /\ \A t : [recording EXCEPT !.stage = t].pair = recording.pair
           /\ \A t : [recording EXCEPT !.stage = t].signal = recording.signal
           /\ \A t : [recording EXCEPT !.stage = t].stage = t
           /\ recording.signal \in Challenge =>
                 <<recording.signal, recording.pair[1], recording.pair[2]>>
                    \in challenged
<1>1. recording \in [stage : {"host_ip"}, pair : Pair, signal : Signal] \cup
                    [stage : {"ip", "host"}, pair : Pair, signal : Challenge]
  BY DEF SoftBanInv, Witnessed, Recordings, NothingToRecord
<1>2. recording # NothingToRecord
  BY DEF NothingToRecord
<1>3. recording.pair \in Pair /\ recording.signal \in Signal
  BY <1>1 DEF Signal
<1>4. recording.stage \in {"ip", "host"} => recording.signal \in Challenge
  BY <1>1
<1>5. recording.signal \in Challenge =>
         <<recording.signal, recording.pair[1], recording.pair[2]>> \in challenged
  BY <1>2 DEF SoftBanInv, Witnessed
<1>6. ASSUME NEW t
      PROVE  [recording EXCEPT !.stage = t] =
                [stage |-> t, pair |-> recording.pair, signal |-> recording.signal]
  BY <1>1
<1>7. \A t \in {"ip", "host"} : recording.signal \in Challenge =>
         [recording EXCEPT !.stage = t] \in Recordings
  BY <1>3, <1>6 DEF Recordings
<1> QED
  BY <1>3, <1>4, <1>5, <1>6, <1>7 DEF Pair

(* The next part of a recording, or its end.                               *)
LEMMA GoOnKeeps ==
    ASSUME SoftBanInv, UNCHANGED challenged,
           \/ recording' \in {recording, NothingToRecord}
           \/ /\ recording.stage # "none" /\ recording.signal \in Challenge
              /\ \E t \in {"ip", "host"} : GoOn(t)
    PROVE  /\ Witnessed'
           /\ recording'.stage \in {"none", "host_ip", "ip", "host"}
<1>1. CASE recording' = recording
  BY <1>1 DEF SoftBanInv, SoftBanTypeOK, Witnessed
<1>2. CASE recording' = NothingToRecord
  BY <1>2 DEF SoftBanInv, Witnessed, Recordings, NothingToRecord
<1>3. ASSUME NEW t \in {"ip", "host"}, GoOn(t),
             recording.stage # "none", recording.signal \in Challenge
      PROVE  /\ Witnessed'
             /\ recording'.stage \in {"none", "host_ip", "ip", "host"}
  <2>1. /\ recording' \in Recordings /\ recording'.stage = t
        /\ recording'.pair = recording.pair /\ recording'.signal = recording.signal
        /\ <<recording.signal, recording.pair[1], recording.pair[2]>> \in challenged
    BY <1>3, RecordingType DEF GoOn
  <2> QED
    BY <2>1 DEF Witnessed, SoftBanInv
<1> QED
  BY <1>1, <1>2, <1>3

LEMMA BeginKeeps ==
    ASSUME SoftBanInv, NEW p \in Pair, NEW s \in Signal, BeginRecording(p, s),
           UNCHANGED <<counters, states, faults>>
    PROVE  SoftBanInv'
<1>0. p[1] \in Host /\ p[2] \in Identity
  BY DEF Pair
<1>1. s \in Challenge => challenged' = challenged \cup {<<s, p[1], p[2]>>}
  BY DEF BeginRecording
<1>2. s \notin Challenge => challenged' = challenged
  BY DEF BeginRecording
<1>3. IsFiniteSet(challenged') /\ challenged \subseteq challenged'
  BY <1>1, <1>2, FS_AddElement DEF SoftBanInv, Witnessed
<1>4. challenged' \subseteq Challenge \X Host \X Identity
  BY <1>0, <1>1, <1>2 DEF SoftBanInv, SoftBanTypeOK
<1>5. Grows
  BY <1>3, SoftBanAssumption DEF Grows, SoftBanInv, SoftBanTypeOK
<1>6. /\ recording' \in Recordings /\ recording'.stage = "host_ip"
      /\ recording'.pair = p /\ recording'.signal = s
  BY DEF BeginRecording, Recordings
<1>7. Witnessed'
  BY <1>1, <1>3, <1>6 DEF Witnessed
<1>8. backoff' \in [Pair -> [wait : 0..BackoffMax, level : Nat]]
  BY DEF SoftBanInv, SoftBanTypeOK, states
<1>9. ThresholdMeansBackoff'
  BY DEF SoftBanInv, ThresholdMeansBackoff, counters, states
<1> QED
  BY <1>4, <1>5, <1>6, <1>7, <1>8, <1>9, QuietStepKeeps DEF states

(* A read that fails, or a restart. *)
LEMMA FaultKeeps ==
    ASSUME SoftBanInv, Fault, recording' \in {recording, NothingToRecord},
           UNCHANGED <<counters, states, challenged>>
    PROVE  SoftBanInv'
<1>1. faults' \in 1..MaxFaults /\ faults \in Nat /\ faults' = faults + 1
  BY FaultsType DEF SoftBanInv
<1>2. Grows
  BY <1>1, SoftBanAssumption DEF Grows, SoftBanInv, Witnessed
<1>3. /\ Witnessed'
      /\ recording'.stage \in {"none", "host_ip", "ip", "host"}
  BY GoOnKeeps
<1>4. backoff' \in [Pair -> [wait : 0..BackoffMax, level : Nat]]
  BY DEF SoftBanInv, SoftBanTypeOK, states
<1>5. ThresholdMeansBackoff'
  BY <1>1 DEF ThresholdMeansBackoff
<1>6. challenged' \subseteq Challenge \X Host \X Identity
  BY DEF SoftBanInv, SoftBanTypeOK
<1> QED
  BY <1>2, <1>3, <1>4, <1>5, <1>6, QuietStepKeeps DEF states

(* Recording changes no history; at most one call fails in each part.      *)
LEMMA RecordGrows ==
    ASSUME SoftBanInv, UNCHANGED challenged, Fault \/ NoFault
    PROVE  /\ Grows
           /\ Fault => faults' = faults + 1 /\ faults' # 0
           /\ faults \in Nat
<1>1. faults \in 0..MaxFaults /\ faults \in Nat
  BY SoftBanAssumption DEF SoftBanInv, SoftBanTypeOK
<1>2. Fault => faults' \in 1..MaxFaults /\ faults' = faults + 1
  BY FaultsType DEF SoftBanInv
<1>3. IsFiniteSet(challenged)
  BY DEF SoftBanInv, Witnessed
<1> QED
  BY <1>1, <1>2, <1>3, SoftBanAssumption DEF Grows, NoFault

LEMMA RecordHostIpKeeps ==
    ASSUME SoftBanInv, RecordHostIp
    PROVE  SoftBanInv'
<1> DEFINE p == recording.pair
           s == recording.signal
           c == pairSignals[p][s]
           d == Renewed(Counted(c))
<1>1. p \in Pair /\ s \in Signal
  BY RecordingType DEF RecordHostIp, Pair
<1>2. /\ pairSignals \in [Pair -> [Signal -> PairCounter]]
      /\ backoff \in [Pair -> [wait : 0..BackoffMax, level : Nat]]
  BY DEF SoftBanInv, SoftBanTypeOK, PairCounter
<1>3. c \in PairCounter
  BY <1>1, <1>2
<1>4. /\ d \in PairCounter /\ d.ttl # Forever
      /\ HalfCounted(c) \subseteq PairCounter
  BY <1>3, PairCounterType
<1>5. NoBackoff \in [wait : 0..BackoffMax, level : Nat]
  BY SoftBanAssumption DEF NoBackoff
<1>6. \/ /\ pairSignals' = [pairSignals EXCEPT ![p][s] = d]
         /\ \/ HostIpReached(d) /\ NoFault
                /\ backoff' = [backoff EXCEPT ![p] = MarkBackoff(backoff[p])]
            \/ HostIpReached(d) /\ Fault
                /\ backoff' = [backoff EXCEPT ![p] = MarkBackoff(NoBackoff)]
            \/ ~HostIpReached(d) /\ NoFault /\ UNCHANGED backoff
      \/ /\ \E half \in HalfCounted(c) :
               pairSignals' = [pairSignals EXCEPT ![p][s] = half]
         /\ UNCHANGED backoff /\ Fault
  BY <1>2, <1>1 DEF RecordHostIp
<1> HIDE DEF d
<1>7. PICK e \in PairCounter : pairSignals' = [pairSignals EXCEPT ![p][s] = e]
  BY <1>4, <1>6
<1>8. pairSignals' \in [Pair -> [Signal -> PairCounter]]
  <2>1. [pairSignals[p] EXCEPT ![s] = e] \in [Signal -> PairCounter]
    BY <1>1, <1>2
  <2> QED
    BY <1>2, <1>7, <2>1
<1>9. \A b \in [wait : 0..BackoffMax, level : Nat] :
        [backoff EXCEPT ![p] = MarkBackoff(b)] \in
            [Pair -> [wait : 0..BackoffMax, level : Nat]]
  BY <1>2, MarkBackoffType
<1>10. backoff' \in [Pair -> [wait : 0..BackoffMax, level : Nat]]
  <2>1. /\ backoff[p] \in [wait : 0..BackoffMax, level : Nat]
        /\ UNCHANGED backoff =>
              backoff' \in [Pair -> [wait : 0..BackoffMax, level : Nat]]
    BY <1>1, <1>2
  <2> QED
    BY <1>5, <1>6, <1>9, <2>1
<1>11. Grows /\ (Fault => faults' # 0) /\ faults \in Nat
  BY <1>6, RecordGrows DEF RecordHostIp
<1>12. /\ Witnessed'
       /\ recording'.stage \in {"none", "host_ip", "ip", "host"}
  BY GoOnKeeps DEF RecordHostIp
<1>13. SoftBanTypeOK'
  BY <1>8, <1>10, <1>11, <1>12
  DEF RecordHostIp, SoftBanInv, SoftBanTypeOK, PairCounter, Grows
<1>14. CountersGrounded'
  BY <1>11, GroundedKept DEF RecordHostIp, CountersGrounded
<1>15. CrossDimensionEvidence'
  BY <1>11, EvidenceKept DEF RecordHostIp
(* While nothing has failed, only this counter has changed, and its        *)
(* backoff was set if it has reached the threshold.                        *)
<1>16. ASSUME faults' = 0
       PROVE  /\ faults = 0
              /\ pairSignals' = [pairSignals EXCEPT ![p][s] = d]
              /\ \/ ~HostIpReached(d) /\ UNCHANGED backoff
                 \/ backoff' = [backoff EXCEPT ![p] = MarkBackoff(backoff[p])]
  BY <1>6, <1>11, <1>16 DEF NoFault
<1>17. CountersExpire'
  <2>1. ASSUME faults' = 0, NEW q \in Pair, NEW t \in Signal
        PROVE  pairSignals'[q][t].ttl # Forever
    <3>1. pairSignals[q][t].ttl # Forever
      BY <1>16, <2>1 DEF SoftBanInv, CountersExpire
    <3>2. pairSignals'[q][t] \in {d, pairSignals[q][t]}
      BY <1>1, <1>2, <1>16, <2>1
    <3> QED
      BY <1>4, <3>1, <3>2
  <2> QED
    BY <2>1 DEF CountersExpire
<1>18. ThresholdMeansBackoff'
  <2>1. ASSUME faults' = 0, NEW q \in Pair, NEW t \in Signal,
               pairSignals'[q][t].count >= HostIpThreshold
        PROVE  backoff'[q].level > 0
    <3>1. pairSignals[q][t].count >= HostIpThreshold => backoff[q].level > 0
      BY <1>16, <2>1 DEF SoftBanInv, ThresholdMeansBackoff
    <3>2. CASE q = p /\ backoff' = [backoff EXCEPT ![p] = MarkBackoff(backoff[p])]
      BY <1>1, <1>2, <3>2, MarkBackoffType
    <3>3. CASE backoff'[q] = backoff[q] /\ pairSignals'[q][t] = pairSignals[q][t]
      BY <2>1, <3>1, <3>3
    <3>4. CASE q = p /\ t = s /\ ~HostIpReached(d)
      <4>1. pairSignals'[q][t] = d
        BY <1>1, <1>2, <1>16, <2>1, <3>4
      <4> QED
        BY <2>1, <3>4, <4>1 DEF HostIpReached
    <3> QED
      BY <1>1, <1>2, <1>16, <2>1, <3>2, <3>3, <3>4
  <2> QED
    BY <2>1 DEF ThresholdMeansBackoff
<1> QED
  BY <1>12, <1>13, <1>14, <1>15, <1>17, <1>18 DEF SoftBanInv

(* A count that reaches a threshold shows as many challenges or failures.  *)
LEMMA CountIsEvidence ==
    ASSUME NEW M, NEW c \in DistinctCounter(M), NEW E, IsFiniteSet(E),
           NEW n \in Nat, Grounded(c, E, n), NEW t \in Nat, c.count >= t
    PROVE  Cardinality(E) + n >= t
<1>1. c.count \in Nat /\ c.members \in SUBSET E /\ c.count <= Cardinality(c.members) + n
  BY DEF DistinctCounter, Grounded
<1>2. /\ Cardinality(c.members) <= Cardinality(E)
      /\ Cardinality(c.members) \in Nat /\ Cardinality(E) \in Nat
  BY <1>1, FS_Subset, FS_CardinalityType
<1> QED
  BY <1>1, <1>2

LEMMA RecordIpKeeps ==
    ASSUME SoftBanInv, RecordIp
    PROVE  SoftBanInv'
<1>0. PICK h \in Host, i \in Identity, s \in Challenge :
         /\ recording.pair = <<h, i>> /\ recording.signal = s
         /\ <<s, h, i>> \in challenged
  BY RecordingType DEF RecordIp
<1> DEFINE c == ipSignals[i][s]
           seen == Joined(c, h)
           unread == JoinedUnread(c, h)
<1>1. h \in HostsThat(s, i)
  BY <1>0 DEF HostsThat, HostsIn
<1>2. c \in DistinctCounter(Host) /\ Grounded(c, HostsThat(s, i), faults)
  BY <1>1 DEF SoftBanInv, SoftBanTypeOK, CountersGrounded, DistinctCounter
<1>3. /\ ipSignals \in [Identity -> [Challenge -> DistinctCounter(Host)]]
      /\ cooldown \in [Identity -> 0..Cooldown]
  BY DEF SoftBanInv, SoftBanTypeOK, DistinctCounter
<1>4. Grows /\ faults \in Nat /\ (Fault => faults' = faults + 1)
  BY RecordGrows DEF RecordIp
<1>5. HostsThat(s, i)' = HostsThat(s, i)
  BY DEF RecordIp, HostsThat
<1>6. /\ seen \in DistinctCounter(Host) /\ unread \in DistinctCounter(Host)
      /\ HalfJoined(c, h) \subseteq DistinctCounter(Host)
      /\ Grounded(seen, HostsThat(s, i), faults)
      /\ Grounded(unread, HostsThat(s, i), faults + 1)
      /\ \A half \in HalfJoined(c, h) : Grounded(half, HostsThat(s, i), faults + 1)
  BY <1>1, <1>2, <1>4, JoinGrounded
<1>7. \/ /\ ipSignals' = [ipSignals EXCEPT ![i][s] = Renewed(seen)]
         /\ CoolDown(i, seen) /\ NoFault
      \/ /\ ipSignals' = [ipSignals EXCEPT ![i][s] = Renewed(unread)]
         /\ CoolDown(i, unread) /\ Fault
      \/ /\ \E half \in HalfJoined(c, h) :
               ipSignals' = [ipSignals EXCEPT ![i][s] = half]
         /\ UNCHANGED cooldown /\ Fault
  BY <1>0 DEF RecordIp
<1> HIDE DEF seen, unread
(* What is counted now, and whether the identity cools down for it.        *)
<1>8. PICK d \in DistinctCounter(Host) :
        /\ Grounded(d, HostsThat(s, i), faults')
        /\ ipSignals' = [ipSignals EXCEPT ![i][s] = d]
        /\ UNCHANGED cooldown \/ CoolDown(i, d)
  <2>0. faults + 1 \in Nat
    BY <1>4
  <2>1. CASE /\ ipSignals' = [ipSignals EXCEPT ![i][s] = Renewed(seen)]
             /\ CoolDown(i, seen) /\ NoFault
    <3>1. /\ Renewed(seen) \in DistinctCounter(Host)
          /\ Grounded(Renewed(seen), HostsThat(s, i), faults)
          /\ Renewed(seen).count = seen.count
      BY <1>4, <1>6, DistinctCounterType, GroundedStays
    <3>2. CoolDown(i, Renewed(seen)) /\ faults' = faults
      BY <2>1, <3>1 DEF CoolDown, NoFault
    <3> QED
      BY <2>1, <3>1, <3>2
  <2>2. CASE /\ ipSignals' = [ipSignals EXCEPT ![i][s] = Renewed(unread)]
             /\ CoolDown(i, unread) /\ Fault
    <3>1. /\ Renewed(unread) \in DistinctCounter(Host)
          /\ Grounded(Renewed(unread), HostsThat(s, i), faults + 1)
          /\ Renewed(unread).count = unread.count
      BY <1>4, <1>6, <2>0, DistinctCounterType, GroundedStays
    <3>2. CoolDown(i, Renewed(unread)) /\ faults' = faults + 1
      BY <1>4, <2>2, <3>1 DEF CoolDown
    <3> QED
      BY <2>2, <3>1, <3>2
  <2>3. CASE /\ \E half \in HalfJoined(c, h) :
                   ipSignals' = [ipSignals EXCEPT ![i][s] = half]
             /\ UNCHANGED cooldown /\ Fault
    BY <1>4, <1>6, <2>3
  <2> QED
    BY <1>7, <2>1, <2>2, <2>3
<1>9. ipSignals' \in [Identity -> [Challenge -> DistinctCounter(Host)]]
  <2>1. [ipSignals[i] EXCEPT ![s] = d] \in [Challenge -> DistinctCounter(Host)]
    BY <1>1, <1>3
  <2> QED
    BY <1>3, <1>8, <2>1
<1>10. cooldown' \in [Identity -> 0..Cooldown]
  BY <1>3, <1>8, SoftBanAssumption DEF CoolDown
<1>11. /\ Witnessed'
       /\ recording'.stage \in {"none", "host_ip", "ip", "host"}
  BY <1>0, GoOnKeeps DEF RecordIp
<1>12. SoftBanTypeOK'
  BY <1>4, <1>9, <1>10, <1>11
  DEF RecordIp, SoftBanInv, SoftBanTypeOK, DistinctCounter, Grows
<1>13. CountersGrounded'
  <2>1. ASSUME NEW j \in Identity, NEW t \in Challenge
        PROVE  Grounded(ipSignals'[j][t], HostsThat(t, j)', faults')
    <3>1. CASE j = i /\ t = s
      <4>1. ipSignals'[j][t] = d
        BY <1>1, <1>3, <1>8, <3>1
      <4> QED
        BY <1>5, <1>8, <3>1, <4>1
    <3>2. CASE ~(j = i /\ t = s)
      <4>1. ipSignals'[j][t] = ipSignals[j][t]
        BY <1>1, <1>3, <1>8, <3>2
      <4> QED
        BY <1>4, <4>1, GroundedKept
    <3> QED
      BY <3>1, <3>2
  <2>2. \A g \in Host, t \in Challenge :
           Grounded(hostSignals'[g][t], IdentitiesThat(t, g)', faults')
    BY <1>4, GroundedKept DEF RecordIp
  <2> QED
    BY <2>1, <2>2 DEF CountersGrounded
<1>14. CrossDimensionEvidence'
  <2>1. ASSUME NEW j \in Identity, cooldown'[j] > 0
        PROVE  cooldown[j] > 0 \/ CooldownEvidence(j)'
    <3>1. CASE cooldown'[j] = cooldown[j]
      BY <2>1, <3>1
    <3>2. CASE j = i /\ d.count >= IpThreshold
      <4>1. IsFiniteSet(HostsThat(s, i)') /\ faults' \in Nat
        BY <1>4, EvidenceGrows, SoftBanAssumption DEF Grows
      <4>2. Cardinality(HostsThat(s, i)') + faults' >= IpThreshold
        BY <1>5, <1>8, <3>2, <4>1, CountIsEvidence, SoftBanAssumption
      <4> QED
        BY <3>2, <4>2 DEF CooldownEvidence
    <3> QED
      BY <1>3, <1>8, <3>1, <3>2 DEF CoolDown
  <2> QED
    BY <1>4, <2>1, EvidenceKept DEF RecordIp
<1>15. CountersExpire' /\ ThresholdMeansBackoff'
  <2>1. faults' = 0 => faults = 0
    BY <1>4 DEF Grows
  <2> QED
    BY <2>1 DEF RecordIp, SoftBanInv, CountersExpire, ThresholdMeansBackoff
<1> QED
  BY <1>11, <1>12, <1>13, <1>14, <1>15 DEF SoftBanInv

LEMMA RecordHostKeeps ==
    ASSUME SoftBanInv, RecordHost
    PROVE  SoftBanInv'
<1>0. PICK h \in Host, i \in Identity, s \in Challenge :
         /\ recording.pair = <<h, i>> /\ recording.signal = s
         /\ <<s, h, i>> \in challenged
  BY RecordingType DEF RecordHost
<1> DEFINE c == hostSignals[h][s]
           seen == Joined(c, i)
           unread == JoinedUnread(c, i)
<1>1. i \in IdentitiesThat(s, h)
  BY <1>0 DEF IdentitiesThat, IdentitiesIn
<1>2. c \in DistinctCounter(Identity) /\ Grounded(c, IdentitiesThat(s, h), faults)
  BY <1>1 DEF SoftBanInv, SoftBanTypeOK, CountersGrounded, DistinctCounter
<1>3. /\ hostSignals \in [Host -> [Challenge -> DistinctCounter(Identity)]]
      /\ slowdown \in [Host -> 0..Slowdown]
  BY DEF SoftBanInv, SoftBanTypeOK, DistinctCounter
<1>4. Grows /\ faults \in Nat /\ (Fault => faults' = faults + 1)
  BY RecordGrows DEF RecordHost
<1>5. IdentitiesThat(s, h)' = IdentitiesThat(s, h)
  BY DEF RecordHost, IdentitiesThat
<1>6. /\ seen \in DistinctCounter(Identity) /\ unread \in DistinctCounter(Identity)
      /\ HalfJoined(c, i) \subseteq DistinctCounter(Identity)
      /\ Grounded(seen, IdentitiesThat(s, h), faults)
      /\ Grounded(unread, IdentitiesThat(s, h), faults + 1)
      /\ \A half \in HalfJoined(c, i) : Grounded(half, IdentitiesThat(s, h), faults + 1)
  BY <1>1, <1>2, <1>4, JoinGrounded
<1>7. \/ /\ hostSignals' = [hostSignals EXCEPT ![h][s] = Renewed(seen)]
         /\ SlowDown(h, seen) /\ NoFault
      \/ /\ hostSignals' = [hostSignals EXCEPT ![h][s] = Renewed(unread)]
         /\ SlowDown(h, unread) /\ Fault
      \/ /\ \E half \in HalfJoined(c, i) :
               hostSignals' = [hostSignals EXCEPT ![h][s] = half]
         /\ UNCHANGED slowdown /\ Fault
  BY <1>0 DEF RecordHost
<1> HIDE DEF seen, unread
(* What is counted now, and whether the host slows down for it.            *)
<1>8. PICK d \in DistinctCounter(Identity) :
        /\ Grounded(d, IdentitiesThat(s, h), faults')
        /\ hostSignals' = [hostSignals EXCEPT ![h][s] = d]
        /\ UNCHANGED slowdown \/ SlowDown(h, d)
  <2>0. faults + 1 \in Nat
    BY <1>4
  <2>1. CASE /\ hostSignals' = [hostSignals EXCEPT ![h][s] = Renewed(seen)]
             /\ SlowDown(h, seen) /\ NoFault
    <3>1. /\ Renewed(seen) \in DistinctCounter(Identity)
          /\ Grounded(Renewed(seen), IdentitiesThat(s, h), faults)
          /\ Renewed(seen).count = seen.count
      BY <1>4, <1>6, DistinctCounterType, GroundedStays
    <3>2. SlowDown(h, Renewed(seen)) /\ faults' = faults
      BY <2>1, <3>1 DEF SlowDown, NoFault
    <3> QED
      BY <2>1, <3>1, <3>2
  <2>2. CASE /\ hostSignals' = [hostSignals EXCEPT ![h][s] = Renewed(unread)]
             /\ SlowDown(h, unread) /\ Fault
    <3>1. /\ Renewed(unread) \in DistinctCounter(Identity)
          /\ Grounded(Renewed(unread), IdentitiesThat(s, h), faults + 1)
          /\ Renewed(unread).count = unread.count
      BY <1>4, <1>6, <2>0, DistinctCounterType, GroundedStays
    <3>2. SlowDown(h, Renewed(unread)) /\ faults' = faults + 1
      BY <1>4, <2>2, <3>1 DEF SlowDown
    <3> QED
      BY <2>2, <3>1, <3>2
  <2>3. CASE /\ \E half \in HalfJoined(c, i) :
                   hostSignals' = [hostSignals EXCEPT ![h][s] = half]
             /\ UNCHANGED slowdown /\ Fault
    BY <1>4, <1>6, <2>3
  <2> QED
    BY <1>7, <2>1, <2>2, <2>3
<1>9. hostSignals' \in [Host -> [Challenge -> DistinctCounter(Identity)]]
  <2>1. [hostSignals[h] EXCEPT ![s] = d] \in [Challenge -> DistinctCounter(Identity)]
    BY <1>1, <1>3
  <2> QED
    BY <1>3, <1>8, <2>1
<1>10. slowdown' \in [Host -> 0..Slowdown]
  BY <1>3, <1>8, SoftBanAssumption DEF SlowDown
<1>11. /\ Witnessed'
       /\ recording'.stage \in {"none", "host_ip", "ip", "host"}
  BY <1>0, GoOnKeeps DEF RecordHost
<1>12. SoftBanTypeOK'
  BY <1>4, <1>9, <1>10, <1>11
  DEF RecordHost, SoftBanInv, SoftBanTypeOK, DistinctCounter, Grows
<1>13. CountersGrounded'
  <2>1. ASSUME NEW j \in Host, NEW t \in Challenge
        PROVE  Grounded(hostSignals'[j][t], IdentitiesThat(t, j)', faults')
    <3>1. CASE j = h /\ t = s
      <4>1. hostSignals'[j][t] = d
        BY <1>1, <1>3, <1>8, <3>1
      <4> QED
        BY <1>5, <1>8, <3>1, <4>1
    <3>2. CASE ~(j = h /\ t = s)
      <4>1. hostSignals'[j][t] = hostSignals[j][t]
        BY <1>1, <1>3, <1>8, <3>2
      <4> QED
        BY <1>4, <4>1, GroundedKept
    <3> QED
      BY <3>1, <3>2
  <2>2. \A g \in Identity, t \in Challenge :
           Grounded(ipSignals'[g][t], HostsThat(t, g)', faults')
    BY <1>4, GroundedKept DEF RecordHost
  <2> QED
    BY <2>1, <2>2 DEF CountersGrounded
<1>14. CrossDimensionEvidence'
  <2>1. ASSUME NEW j \in Host, slowdown'[j] > 0
        PROVE  slowdown[j] > 0 \/ SlowdownEvidence(j)'
    <3>1. CASE slowdown'[j] = slowdown[j]
      BY <2>1, <3>1
    <3>2. CASE j = h /\ d.count >= HostThreshold
      <4>1. IsFiniteSet(IdentitiesThat(s, h)') /\ faults' \in Nat
        BY <1>4, EvidenceGrows, SoftBanAssumption DEF Grows
      <4>2. Cardinality(IdentitiesThat(s, h)') + faults' >= HostThreshold
        BY <1>5, <1>8, <3>2, <4>1, CountIsEvidence, SoftBanAssumption
      <4> QED
        BY <3>2, <4>2 DEF SlowdownEvidence
    <3> QED
      BY <1>3, <1>8, <3>1, <3>2 DEF SlowDown
  <2> QED
    BY <1>4, <2>1, EvidenceKept DEF RecordHost
<1>15. CountersExpire' /\ ThresholdMeansBackoff'
  <2>1. faults' = 0 => faults = 0
    BY <1>4 DEF Grows
  <2> QED
    BY <2>1 DEF RecordHost, SoftBanInv, CountersExpire, ThresholdMeansBackoff
<1> QED
  BY <1>11, <1>12, <1>13, <1>14, <1>15 DEF SoftBanInv

(***************************************************************************)
(* The spider.  Its steps are silent for the feedback, but for the signal  *)
(* of a response and for calls that fail.                                  *)
(***************************************************************************)
SpiderTypeOK ==
    /\ addresses \in (SUBSET Local) \ {{}}
    /\ localWait \in [Pair -> 0..(Interval + Jitter)]
    /\ status \in [Command -> {"queued", "delayed", "flight", "done"}]
    /\ dueIn \in [Command -> Nat]
    /\ via \in [Command -> SUBSET Identity]
    /\ rest \in [Pair -> 0..Interval]

PolitenessInv == SoftBanInv /\ SpiderTypeOK /\ PoolInv

LEMMA SoftBanStep ==
    ASSUME SoftBanInv, SpiderTypeOK, [Next]_vars
    PROVE  SoftBanInv'
<1>1. CASE UNCHANGED softBan
  BY <1>1 DEF softBan, counters, states, SoftBanInv, SoftBanTypeOK, Witnessed,
      CountersGrounded, HostsThat, IdentitiesThat, CountersExpire,
      CrossDimensionEvidence, ThresholdMeansBackoff
<1>2. CASE Tick
  BY <1>2, SoftBanTickKeeps DEF Tick
<1>3. CASE Restart
  BY <1>3, FaultKeeps DEF Restart
<1>4. ASSUME NEW p \in Pair, ForgetBackoff(p)
      PROVE  SoftBanInv'
  BY <1>4, ForgetKeeps
<1>5. CASE RecordSignal
  BY <1>5, RecordHostIpKeeps, RecordIpKeeps, RecordHostKeeps DEF RecordSignal
<1>6. ASSUME NEW c \in Command, DecideHalfBlind(c)
      PROVE  SoftBanInv'
  BY <1>6, FaultKeeps DEF DecideHalfBlind
<1>7. ASSUME NEW c \in Command, Respond(c)
      PROVE  SoftBanInv'
  <2>1. PICK s \in SignalsSeen, i \in via[c], h \in FeedbackHosts(c) :
           IF s \in Signal THEN BeginRecording(<<h, i>>, s)
           ELSE UNCHANGED <<recording, challenged>>
    BY <1>7 DEF Respond
  <2>2. <<h, i>> \in Pair
    BY PolitenessAssumption DEF FeedbackHosts, SpiderTypeOK, Pair
  <2>3. UNCHANGED <<counters, states, faults>>
    BY <1>7 DEF Respond
  <2> QED
    BY <1>1, <2>1, <2>2, <2>3, BeginKeeps DEF softBan
<1> QED
  BY <1>1, <1>2, <1>3, <1>4, <1>5, <1>6, <1>7 DEF Next, Decide, vars

(* A host is never without candidates. *)
LEMMA PoolNotEmpty ==
    ASSUME PoolInv, addresses # {}, NEW h \in Host
    PROVE  Pool(h) # {} /\ Pool(h) \subseteq Identity
<1>1. h \in DOMAIN Score /\ addresses \in SUBSET Local /\ addresses \in SUBSET addresses
  BY PolitenessAssumption DEF PoolInv
<1>2. PICK best \in addresses : \A ip \in addresses : ~Before(h, ip, best)
  BY <1>1, FirstOfSome
<1>3. Rivals(h, addresses, best) = {}
  BY <1>2 DEF Rivals
<1>4. Rank(h, addresses, best) = 0
  BY <1>1, <1>3, RankType, FS_EmptySet
<1>5. best \in StickyPool(h, addresses)
  BY <1>4, EgressAssumption DEF StickyPool
<1>6. /\ Cardinality(StickyPool(h, addresses)) \in Nat
      /\ IsFiniteSet(StickyPool(h, addresses))
  BY <1>1, RanksOfCandidates, LocalIsFinite, FS_Subset DEF StickyPool
<1>7. 1 \in 1..Cardinality(StickyPool(h, addresses))
  BY <1>5, <1>6, FS_EmptySet
<1>8. candidates[h] = Assignment(h, addresses)
  BY DEF PoolInv, Pools
<1>9. 1 \in DOMAIN candidates[h]
  BY <1>7, <1>8 DEF Assignment
<1>10. PICK n \in Nat : candidates[h] \in [1..n -> Identity]
  BY PoolType
<1> QED
  BY <1>9, <1>10 DEF Pool

(* A command whose candidates all cool down waits for the first of them. *)
LEMMA CooldownEndType ==
    ASSUME PolitenessInv, NEW h \in Host, NEW see \in {AllSeen} \cup OneUnseen(h),
           Usable(h, see) = {}
    PROVE  CooldownEnd(h, see) \in Nat
<1> DEFINE D == {cooldown[i] : i \in Pool(h) \cap see.cooling}
<1>1. Pool(h) # {} /\ Pool(h) \subseteq see.cooling /\ see.cooling \subseteq InCooldown
  <2>1. PoolInv /\ addresses # {}
    BY DEF PolitenessInv, SpiderTypeOK
  <2>2. Pool(h) # {}
    BY <2>1, PoolNotEmpty
  <2> QED
    BY <2>2, WhatIsSeen DEF Usable
<1>2. D # {}
  BY <1>1
<1>3. D \in SUBSET (1..Cooldown)
  BY <1>1, SoftBanAssumption DEF InCooldown, PolitenessInv, SoftBanInv, SoftBanTypeOK
<1> HIDE DEF D
<1>4. \E k \in D : \A l \in D : k <= l
  BY <1>2, <1>3, FirstPlace, SoftBanAssumption
<1>5. Min(D) \in D
  BY <1>4 DEF Min
<1>6. CooldownEnd(h, see) = LargerOf(1, Min(D))
  BY DEF CooldownEnd, D
<1>7. Min(D) \in Nat
  <2>1. Cooldown \in Nat
    BY SoftBanAssumption
  <2>2. D \subseteq Nat
    BY <1>3, <2>1
  <2> QED
    BY <1>5, <2>2
<1> QED
  BY <1>6, <1>7 DEF LargerOf

(* What is seen of a wait is a time. *)
LEMMA WaitType ==
    ASSUME PolitenessInv, NEW h, NEW see \in {AllSeen} \cup OneUnseen(h),
           NEW p \in Pair
    PROVE  see.chosen[p] \in Nat /\ HostIpWait(p) \in Nat
<1>1. localWait[p] \in Nat /\ backoff[p].wait \in Nat
  BY IntervalType, PolitenessAssumption, SoftBanAssumption
  DEF PolitenessInv, SpiderTypeOK, SoftBanInv, SoftBanTypeOK
<1>2. HostIpWait(p) \in Nat
  BY <1>1 DEF HostIpWait, LargerOf
<1> QED
  BY <1>1, <1>2, WhatIsSeen

LEMMA SelectedType ==
    ASSUME PoolInv, NEW h \in Host, NEW see, Usable(h, see) # {}
    PROVE  /\ Selected(h, see) \in Usable(h, see)
           /\ Free(h, see) # {} => Selected(h, see) \in Free(h, see)
           /\ <<h, Selected(h, see)>> \in Pair
<1>1. /\ Usable(h, see) \in SUBSET Pool(h)
      /\ Free(h, see) \in SUBSET Usable(h, see)
  BY DEF Usable, Free
<1>2. Free(h, see) # {} => Selected(h, see) \in Free(h, see)
  BY <1>1, BestIsOne DEF Selected
<1>3. Selected(h, see) \in Usable(h, see)
  BY <1>1, BestIsOne DEF Selected
<1>4. Usable(h, see) \subseteq Identity
  BY <1>1, BestIsOne
<1> QED
  BY <1>2, <1>3, <1>4 DEF Pair

LEMMA DecisionType ==
    ASSUME PolitenessInv, NEW c \in Command,
           NEW see \in {AllSeen} \cup OneUnseen(HostOf[c]), BuildOrDelay(c, see),
           UNCHANGED egress
    PROVE  SpiderTypeOK'
<1> DEFINE h == HostOf[c]
           p == <<h, Selected(h, see)>>
<1>0. h \in Host
  BY PolitenessAssumption
<1>1. ASSUME StartRequest(c, p), p \in Pair
      PROVE  SpiderTypeOK'
  <2>1. PICK jitter \in 0..Jitter :
           localWait' = [localWait EXCEPT ![p] = Interval + jitter]
    BY <1>1 DEF StartRequest, MarkRequestStarted
  <2>2. Interval + jitter \in 0..(Interval + Jitter) /\ 0 \in 0..Interval
    BY IntervalType, PolitenessAssumption
  <2>3. p[2] \in Identity
    BY <1>1 DEF Pair
  <2>4. localWait' \in [Pair -> 0..(Interval + Jitter)]
    BY <2>1, <2>2 DEF PolitenessInv, SpiderTypeOK
  <2>5. rest' \in [Pair -> 0..Interval]
    BY <1>1, <2>2 DEF StartRequest, PolitenessInv, SpiderTypeOK
  <2>6. /\ status' \in [Command -> {"queued", "delayed", "flight", "done"}]
        /\ dueIn' \in [Command -> Nat]
        /\ via' \in [Command -> SUBSET Identity]
    BY <1>1, <2>3 DEF StartRequest, PolitenessInv, SpiderTypeOK
  <2>7. UNCHANGED addresses
    BY DEF egress
  <2> QED
    BY <2>4, <2>5, <2>6, <2>7 DEF PolitenessInv, SpiderTypeOK, Interval
<1>2. ASSUME NEW t \in Nat, DelayCommand(c, t)
      PROVE  SpiderTypeOK'
  BY <1>2 DEF DelayCommand, PolitenessInv, SpiderTypeOK, egress, Interval
<1>3. CASE Usable(h, see) = {}
  BY <1>0, <1>2, <1>3, CooldownEndType DEF BuildOrDelay
<1>4. CASE Usable(h, see) # {}
  <2>1. p \in Pair
    BY <1>0, <1>4, SelectedType DEF PolitenessInv
  <2>2. see.chosen[p] \in Nat
    BY <2>1, WaitType
  <2> QED
    BY <1>1, <1>2, <1>4, <2>1, <2>2 DEF BuildOrDelay
<1> QED
  BY <1>3, <1>4

LEMMA SpiderTypeStep ==
    ASSUME PolitenessInv, [Next]_vars
    PROVE  SpiderTypeOK'
<1>1. CASE UNCHANGED spider
  BY <1>1 DEF spider, egress, PolitenessInv, SpiderTypeOK, Interval
<1>2. CASE Tick
  <2>1. Interval + Jitter \in Nat
    BY IntervalType, PolitenessAssumption
  <2>2. localWait' \in [Pair -> 0..(Interval + Jitter)]
    BY <1>2, <2>1, LessType DEF Tick, PolitenessInv, SpiderTypeOK
  <2>3. \A t \in Nat : Less(t) \in Nat
    BY DEF Less
  <2>4. dueIn' \in [Command -> Nat]
    BY <1>2, <2>3 DEF Tick, PolitenessInv, SpiderTypeOK
  <2>5. rest' \in [Pair -> 0..Interval]
    BY <1>2, IntervalType DEF Tick, PolitenessInv, SpiderTypeOK, SmallerOf
  <2> QED
    BY <1>2, <2>2, <2>4, <2>5
    DEF Tick, PolitenessInv, SpiderTypeOK, egress, Interval
<1>3. CASE Restart
  <2>1. 0 \in 0..(Interval + Jitter) /\ Interval \in 0..Interval
    BY IntervalType, PolitenessAssumption
  <2>2. addresses' \in (SUBSET Local) \ {{}}
    BY <1>3 DEF Restart, PolitenessInv, SpiderTypeOK
  <2>3. /\ localWait' \in [Pair -> 0..(Interval + Jitter)]
        /\ rest' \in [Pair -> 0..Interval]
    BY <1>3, <2>1 DEF Restart
  <2>4. /\ status' \in [Command -> {"queued", "delayed", "flight", "done"}]
        /\ dueIn' \in [Command -> Nat]
        /\ via' \in [Command -> SUBSET Identity]
    BY <1>3 DEF Restart
  <2> QED
    BY <2>2, <2>3, <2>4 DEF SpiderTypeOK, Interval
<1>4. ASSUME NEW c \in Command, Decide(c)
      PROVE  SpiderTypeOK'
  BY <1>4, DecisionType DEF Decide
<1>5. ASSUME NEW c \in Command, DecideHalfBlind(c)
      PROVE  SpiderTypeOK'
  BY <1>5, DecisionType DEF DecideHalfBlind
<1>6. ASSUME NEW c \in Command, Respond(c)
      PROVE  SpiderTypeOK'
  BY <1>6 DEF Respond, egress, PolitenessInv, SpiderTypeOK, Interval
<1> QED
  BY <1>1, <1>2, <1>3, <1>4, <1>5, <1>6 DEF Next, vars

LEMMA PolitenessInvariant == Spec => []PolitenessInv
<1>1. Init => PolitenessInv
  <2> SUFFICES ASSUME Init PROVE PolitenessInv
    OBVIOUS
  <2>1. SoftBanInv
    BY SoftBanStart DEF Init
  <2>2. SpiderTypeOK
    BY IntervalType, PolitenessAssumption, EgressAssumption DEF Init, SpiderTypeOK
  <2> QED
    BY <2>1, <2>2 DEF Init, PolitenessInv, PoolInv
<1>2. PolitenessInv /\ [Next]_vars => PolitenessInv'
  BY SoftBanStep, SpiderTypeStep, PoolStep DEF PolitenessInv
<1> QED
  BY <1>1, <1>2, PTL DEF Spec

(***************************************************************************)
(* The theorems.                                                           *)
(***************************************************************************)
(* TypeOK of the feedback's keys in Redis and of the spider's state, for   *)
(* any instance: in particular a backoff never exceeds its maximum.        *)
THEOREM PolitenessTypeOK == Spec => []TypeOK
<1>1. PolitenessInv => TypeOK
  <2> SUFFICES ASSUME PolitenessInv PROVE TypeOK
    OBVIOUS
  <2>1. SoftBanTypeOK /\ SpiderTypeOK
    BY DEF PolitenessInv, SoftBanInv
  <2>2. ASSUME NEW h \in Host
        PROVE  candidates[h] \in Seq(Identity)
    BY PoolType DEF PolitenessInv
  <2>3. candidates \in [Host -> Seq(Identity)]
    BY <2>2 DEF PolitenessInv, PoolInv, Pools
  <2> QED
    BY <2>1, <2>3 DEF TypeOK, SpiderTypeOK
<1> QED
  BY <1>1, PolitenessInvariant, PTL

(* User story 3, scenarios 2 and 3 of spec 005: no identity cools down and *)
(* no host slows down, but for the evidence of as many different hosts or  *)
(* identities as its threshold, failures of Redis counted in.              *)
THEOREM EvidenceForCooldowns == Spec => []CrossDimensionEvidence
<1>1. PolitenessInv => CrossDimensionEvidence
  BY DEF PolitenessInv, SoftBanInv
<1> QED
  BY <1>1, PolitenessInvariant, PTL

(* User story 3, scenario 1: while Redis answers and the worker runs, a    *)
(* pair whose signals reach the threshold within the window backs off.     *)
THEOREM ThresholdBacksOff == Spec => []ThresholdMeansBackoff
<1>1. PolitenessInv => ThresholdMeansBackoff
  BY DEF PolitenessInv, SoftBanInv
<1> QED
  BY <1>1, PolitenessInvariant, PTL

(***************************************************************************)
(* DelayedForAReason: a decision that sees everything.                     *)
(***************************************************************************)
HasReason(c) ==
    /\ dueIn'[c] > dueIn[c] =>
         \A i \in Pool(HostOf[c]) :
            cooldown[i] > 0 \/ HostIpWait(<<HostOf[c], i>>) > 0
    /\ status[c] # "flight" /\ status'[c] = "flight" =>
         \A i \in via'[c] :
            cooldown[i] = 0 /\ backoff[<<HostOf[c], i>>].wait = 0

LEMMA DecisionHasReason ==
    ASSUME PolitenessInv, NEW c \in Command, BuildOrDelay(c, AllSeen)
    PROVE  HasReason(c)
<1> DEFINE h == HostOf[c]
           p == <<h, Selected(h, AllSeen)>>
<1>0. h \in Host
  BY PolitenessAssumption
<1>1. \A q \in Pair : /\ AllSeen.offered[q] = HostIpWait(q)
                      /\ AllSeen.chosen[q] = HostIpWait(q)
                      /\ HostIpWait(q) \in Nat
  BY WaitType DEF AllSeen
<1>2. Usable(h, AllSeen) = {i \in Pool(h) : i \notin InCooldown}
  BY DEF Usable, AllSeen
<1>3. Pool(h) \subseteq Identity
  BY <1>0, PoolNotEmpty DEF PolitenessInv, SpiderTypeOK
<1>4. \A i \in Pool(h) : i \notin Usable(h, AllSeen) => cooldown[i] > 0
  BY <1>2, <1>3 DEF InCooldown
<1>5. ASSUME StartRequest(c, p), Eligible(p, AllSeen), Usable(h, AllSeen) # {}
      PROVE  HasReason(c)
  <2>1. /\ Selected(h, AllSeen) \in Usable(h, AllSeen) /\ p \in Pair
    BY <1>0, <1>5, SelectedType DEF PolitenessInv
  <2>2. p[2] \in Identity /\ p[2] \notin InCooldown
    BY <1>2, <2>1 DEF Pair
  <2>3. cooldown[p[2]] = 0
    BY <2>2 DEF InCooldown, PolitenessInv, SoftBanInv, SoftBanTypeOK
  <2>4. HostIpWait(p) = 0
    BY <1>1, <1>5, <2>1 DEF Eligible
  <2>5. backoff[p].wait \in Nat /\ localWait[p] \in Nat
    BY <2>1, IntervalType, PolitenessAssumption, SoftBanAssumption
    DEF PolitenessInv, SpiderTypeOK, SoftBanInv, SoftBanTypeOK
  <2>6. backoff[p].wait = 0
    BY <2>4, <2>5 DEF HostIpWait, LargerOf
  <2>7. via'[c] = {p[2]} /\ dueIn'[c] = 0 /\ dueIn[c] \in Nat
    BY <1>5 DEF StartRequest, PolitenessInv, SpiderTypeOK
  <2> QED
    BY <2>3, <2>6, <2>7 DEF HasReason
<1>6. ASSUME NEW t, DelayCommand(c, t), Usable(h, AllSeen) = {}
      PROVE  HasReason(c)
  BY <1>4, <1>6 DEF HasReason, DelayCommand, PolitenessInv, SpiderTypeOK
<1>7. ASSUME NEW t, DelayCommand(c, t), ~Eligible(p, AllSeen),
             Usable(h, AllSeen) # {}
      PROVE  HasReason(c)
  <2>1. p \in Pair
    BY <1>0, <1>7, SelectedType DEF PolitenessInv
  <2>2. Free(h, AllSeen) = {}
    <3>1. ASSUME Selected(h, AllSeen) \in Free(h, AllSeen)
          PROVE  FALSE
      BY <1>1, <1>7, <2>1, <3>1 DEF Free, Eligible
    <3> QED
      BY <1>0, <1>7, <3>1, SelectedType DEF PolitenessInv
  <2>3. ASSUME NEW i \in Pool(h), i \in Usable(h, AllSeen)
        PROVE  HostIpWait(<<h, i>>) > 0
    <3>1. <<h, i>> \in Pair
      BY <1>0, <1>3 DEF Pair
    <3>2. AllSeen.offered[<<h, i>>] # 0
      BY <2>2, <2>3 DEF Free
    <3> QED
      BY <1>1, <3>1, <3>2
  <2>4. status'[c] = "delayed"
    BY <1>7 DEF DelayCommand, PolitenessInv, SpiderTypeOK
  <2> QED
    BY <1>4, <2>3, <2>4 DEF HasReason
<1> QED
  BY <1>5, <1>6, <1>7 DEF BuildOrDelay

LEMMA OthersNeedNone ==
    ASSUME PolitenessInv, NEW c \in Command, dueIn'[c] \in 0..dueIn[c],
           status'[c] = "flight" => status[c] = "flight"
    PROVE  HasReason(c)
<1>1. dueIn[c] \in Nat
  BY DEF PolitenessInv, SpiderTypeOK
<1>2. ~(dueIn'[c] > dueIn[c])
  BY <1>1
<1> QED
  BY <1>2 DEF HasReason

LEMMA ReasonStep ==
    ASSUME PolitenessInv, [Next]_vars, NEW c \in Command, faults' = faults
    PROVE  HasReason(c)
<1>0. dueIn[c] \in Nat /\ faults \in Nat
  BY FaultsType DEF PolitenessInv, SpiderTypeOK, SoftBanInv
<1>1. CASE UNCHANGED spider
  <2>1. dueIn'[c] \in 0..dueIn[c] /\ status'[c] = status[c]
    BY <1>0, <1>1 DEF spider
  <2> QED
    BY <2>1, OthersNeedNone
<1>2. CASE Tick
  BY <1>0, <1>2, OthersNeedNone DEF Tick, Less
<1>3. ~Fault
  BY <1>0 DEF Fault
<1>4. ASSUME NEW d \in Command, Decide(d)
      PROVE  HasReason(c)
  <2>1. CASE d = c
    BY <1>4, <2>1, DecisionHasReason DEF Decide
  <2>2. CASE d # c
    BY <1>4, <2>2, OthersNeedNone
    DEF Decide, BuildOrDelay, StartRequest, DelayCommand, PolitenessInv,
        SpiderTypeOK
  <2> QED
    BY <2>1, <2>2
<1>5. ASSUME NEW d \in Command, Respond(d)
      PROVE  HasReason(c)
  BY <1>5, OthersNeedNone DEF Respond, PolitenessInv, SpiderTypeOK
<1> QED
  BY <1>1, <1>2, <1>3, <1>4, <1>5 DEF Next, vars, Restart, DecideHalfBlind

(* FR-004 and user story 1, scenario 3 of spec 005: while Redis answers, a *)
(* command is put off only if every candidate of its host is unfit, and is *)
(* never started on one that cools down, or that backs off under the name  *)
(* by which the spider looks it up.                                        *)
THEOREM DelaysHaveReasons == Spec => DelayedForAReason
<1>1. PolitenessInv /\ [Next]_vars =>
        [\A c \in Command : faults' = faults =>
            /\ dueIn'[c] > dueIn[c] =>
                 \A i \in Pool(HostOf[c]) :
                    cooldown[i] > 0 \/ HostIpWait(<<HostOf[c], i>>) > 0
            /\ status[c] # "flight" /\ status'[c] = "flight" =>
                 \A i \in via'[c] :
                    cooldown[i] = 0 /\ backoff[<<HostOf[c], i>>].wait = 0]_vars
  BY ReasonStep DEF HasReason
<1> QED
  BY <1>1, PolitenessInvariant, PTL DEF Spec, DelayedForAReason

(* For commands whose urls have no port of their own that name is the one  *)
(* feedback is filed under, and user story 3 is kept: none starts through  *)
(* an identity while the backoff that requests to its netloc brought lasts. *)
THEOREM PlainSitesAreKept ==
    ASSUME \A c \in Command : NetlocOf[c] = HostOf[c]
    PROVE  Spec => SiteBackoffsAreKept
<1>1. PolitenessInv /\ [Next]_vars =>
        [\A c \in Command : faults' = faults =>
            (status[c] # "flight" /\ status'[c] = "flight" =>
                \A i \in via'[c] : backoff[<<NetlocOf[c], i>>].wait = 0)]_vars
  BY ReasonStep DEF HasReason
<1> QED
  BY <1>1, PolitenessInvariant, PTL DEF Spec, SiteBackoffsAreKept
=============================================================================
