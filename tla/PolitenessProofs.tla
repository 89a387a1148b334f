-------------------------- MODULE PolitenessProofs --------------------------
(***************************************************************************)
(* Starts are spaced and pools are sticky, for any hosts, identities,      *)
(* addresses, delays and any number of failing Redis calls.                *)
(***************************************************************************)
EXTENDS Politeness, EgressProofs

(* What is left of the local next_allowed_at makes up for the time that is *)
(* missing since the pair's last start: so no start is due earlier,        *)
(* whether the backoff in Redis is seen or not.                            *)
PacerInv ==
    /\ addresses \in SUBSET Local
    /\ localWait \in [Pair -> Nat]
    /\ rest \in [Pair -> Nat]
    /\ DOMAIN via = Command /\ DOMAIN status = Command
    /\ \A p \in Pair : localWait[p] + rest[p] >= Interval

LEMMA IntervalType == Interval \in Nat
  BY PolitenessAssumption DEF Interval

LEMMA PacerInit == Init => PacerInv
  BY IntervalType DEF Init, PacerInv

(* A start sets the wait of its pair anew and lets no other change.        *)
LEMMA StartKeeps ==
  ASSUME PacerInv, NEW c, NEW p, StartRequest(c, p), UNCHANGED addresses
  PROVE  PacerInv'
<1>1. PICK jitter \in 0..Jitter :
        localWait' = [localWait EXCEPT ![p] = Interval + jitter]
  BY DEF StartRequest, MarkRequestStarted
<1>2. jitter \in Nat
  BY PolitenessAssumption
<1>3. rest' = [rest EXCEPT ![p] = 0]
  BY DEF StartRequest
<1>4. localWait' \in [Pair -> Nat] /\ rest' \in [Pair -> Nat]
  <2>1. Interval + jitter \in Nat
    BY <1>2, IntervalType
  <2>2. localWait' \in [Pair -> Nat]
    BY <1>1, <2>1 DEF PacerInv
  <2>3. rest' \in [Pair -> Nat]
    BY <1>3 DEF PacerInv
  <2> QED
    BY <2>2, <2>3
<1>5. ASSUME NEW q \in Pair PROVE localWait'[q] + rest'[q] >= Interval
  BY <1>1, <1>2, <1>3, IntervalType DEF PacerInv
<1> QED
  BY <1>4, <1>5 DEF PacerInv, Interval, StartRequest

LEMMA DecisionKeeps ==
  ASSUME PacerInv, NEW c, NEW see, BuildOrDelay(c, see), UNCHANGED egress
  PROVE  PacerInv'
<1> DEFINE p == <<HostOf[c], Selected(HostOf[c], see)>>
<1>1. CASE StartRequest(c, p)
  BY <1>1, StartKeeps DEF egress
<1>2. CASE \E t : DelayCommand(c, t)
  BY <1>2 DEF DelayCommand, PacerInv, egress, Interval
<1> QED
  BY <1>1, <1>2 DEF BuildOrDelay

LEMMA PacerStep == PacerInv /\ [Next]_vars => PacerInv'
<1> SUFFICES ASSUME PacerInv, [Next]_vars PROVE PacerInv'
  OBVIOUS
<1> USE IntervalType DEF PacerInv
<1>1. CASE Tick
  <2>1. localWait' \in [Pair -> Nat] /\ rest' \in [Pair -> Nat]
    BY <1>1 DEF Tick, Less, SmallerOf
  <2>2. ASSUME NEW p \in Pair PROVE localWait'[p] + rest'[p] >= Interval
    BY <1>1 DEF Tick, Less, SmallerOf
  <2> QED
    BY <1>1, <2>1, <2>2 DEF Tick, egress, Interval
<1>2. CASE Restart
  BY <1>2 DEF Restart, Interval
<1>3. CASE UNCHANGED spider
  BY <1>3 DEF spider, egress, Interval
<1>4. ASSUME NEW c \in Command, Decide(c) PROVE PacerInv'
  BY <1>4, DecisionKeeps DEF Decide
<1>5. ASSUME NEW c \in Command, DecideHalfBlind(c) PROVE PacerInv'
  BY <1>5, DecisionKeeps DEF DecideHalfBlind
<1>6. ASSUME NEW c \in Command, Respond(c) PROVE PacerInv'
  BY <1>6 DEF Respond, egress, Interval
<1>7. CASE UNCHANGED vars
  BY <1>7, <1>3 DEF vars
<1> QED
  BY <1>1, <1>2, <1>3, <1>4, <1>5, <1>6, <1>7 DEF Next

-----------------------------------------------------------------------------
(* The pools are those of the addresses. *)
PoolInv == addresses \in SUBSET Local /\ candidates = Pools(addresses)

LEMMA PoolStep == PoolInv /\ [Next]_vars => PoolInv'
<1> SUFFICES ASSUME PoolInv, [Next]_vars PROVE PoolInv'
  OBVIOUS
<1>1. CASE UNCHANGED egress
  BY <1>1 DEF PoolInv, egress, Pools
<1>2. CASE Restart
  BY <1>2 DEF Restart, PoolInv, Pools
<1>3. CASE Tick
  BY <1>3, <1>1 DEF Tick
<1>4. CASE UNCHANGED spider
  BY <1>4, <1>1 DEF spider
<1>5. ASSUME NEW c \in Command, Decide(c) \/ DecideHalfBlind(c) \/ Respond(c)
      PROVE  PoolInv'
  BY <1>5, <1>1 DEF Decide, DecideHalfBlind, Respond
<1>6. CASE UNCHANGED vars
  BY <1>6, <1>4 DEF vars
<1> QED
  BY <1>2, <1>3, <1>4, <1>5, <1>6 DEF Next

IInv == PacerInv /\ PoolInv

(* The inductive invariant of the pacer and the pools, for every instance. *)
THEOREM PacerInvariant == Spec => []IInv
<1>1. Init => IInv
  BY PacerInit DEF Init, IInv, PoolInv
<1>2. IInv /\ [Next]_vars => IInv'
  BY PacerStep, PoolStep DEF IInv
<1> QED
  BY <1>1, <1>2, PTL DEF Spec

-----------------------------------------------------------------------------
LEMMA PoolType ==
  ASSUME PoolInv, NEW h \in Host
  PROVE  \E n \in Nat : candidates[h] \in [1..n -> Identity]
<1>1. h \in DOMAIN Score
  BY PolitenessAssumption
<1>2. candidates[h] = Assignment(h, addresses) /\ addresses \in SUBSET Local
  BY DEF PoolInv, Pools
<1>3. {IdentityOf(ip) : ip \in addresses} \subseteq Identity
  BY <1>2, PolitenessAssumption
<1>4. /\ Cardinality(StickyPool(h, addresses)) \in Nat
      /\ candidates[h] \in [1..Cardinality(StickyPool(h, addresses)) ->
                                 {IdentityOf(ip) : ip \in addresses}]
  BY <1>1, <1>2, AssignmentType
<1> QED
  BY <1>3, <1>4

(* Among the places of some candidates there is a first one: the places up *)
(* to it are a proper subset of those up to any other.                     *)
LEMMA FirstPlace ==
  ASSUME NEW n \in Nat, NEW D \in SUBSET (1..n), D # {}
  PROVE  \E k \in D : \A l \in D : k <= l
<1> DEFINE T == {1..k : k \in D}
<1>1. T \subseteq FiniteSubsetsOf(1..n) /\ T # {}
  <2>1. ASSUME NEW k \in D PROVE 1..k \in FiniteSubsetsOf(1..n)
    BY FS_Interval DEF FiniteSubsetsOf
  <2> QED
    BY <2>1
<1>2. \E R \in T : \A Q \in T : ~(<<Q, R>> \in StrictSubsetOrdering(1..n))
  <2> HIDE DEF T
  <2> QED
    BY <1>1, FS_StrictSubsetOrderingWellFounded, WFMin
<1>3. PICK k \in D : \A Q \in T :
                       ~(<<Q, 1..k>> \in StrictSubsetOrdering(1..n))
  BY <1>2
<1>4. ASSUME NEW l \in D, l < k PROVE FALSE
  <2>1. 1..l \subseteq 1..k /\ 1..k \subseteq 1..n
    BY <1>4
  <2>2. k \in 1..k /\ k \notin 1..l
    BY <1>4
  <2>3. <<1..l, 1..k>> \in StrictSubsetOrdering(1..n)
    BY <2>1, <2>2 DEF StrictSubsetOrdering
  <2> QED
    BY <2>3, <1>3
<1> QED
  BY <1>4

LEMMA BestIsOne ==
  ASSUME PoolInv, NEW h \in Host, NEW S \in SUBSET Pool(h), S # {}
  PROVE  Best(h, S) \in S /\ S \subseteq Identity
<1>1. PICK n \in Nat : candidates[h] \in [1..n -> Identity]
  BY PoolType
<1> DEFINE D == {k \in 1..n : candidates[h][k] \in S}
<1>2. D # {} /\ S \subseteq Identity
  BY <1>1 DEF Pool
<1>3. PICK k \in D : \A l \in D : k <= l
  <2> HIDE DEF D
  <2>1. D \in SUBSET (1..n)
    BY DEF D
  <2> QED
    BY <1>2, <2>1, FirstPlace
<1>4. \A l \in 1..(k - 1) : candidates[h][l] \notin S
  BY <1>3
<1>5. \E i \in S : \E j \in DOMAIN candidates[h] :
         /\ candidates[h][j] = i
         /\ \A l \in 1..(j - 1) : candidates[h][l] \notin S
  BY <1>1, <1>3, <1>4
<1> QED
  BY <1>2, <1>5 DEF Best

(* A read that fails takes one thing away from what the spider knows: a    *)
(* cooldown, or the backoff of a pair, never its own wait.                 *)
LEMMA WhatIsSeen ==
  ASSUME NEW h, NEW see \in {AllSeen} \cup OneUnseen(h)
  PROVE  /\ see.cooling \subseteq InCooldown
         /\ \A p \in Pair : see.chosen[p] \in {HostIpWait(p), localWait[p]}
<1>1. /\ AllSeen.chosen = [q \in Pair |-> HostIpWait(q)]
      /\ AllSeen.cooling = InCooldown
  BY DEF AllSeen
<1>2. CASE see = AllSeen
  BY <1>1, <1>2
<1>3. ASSUME NEW i, see = [AllSeen EXCEPT !.cooling = @ \ {i}]
      PROVE  see.chosen = AllSeen.chosen /\ see.cooling \subseteq AllSeen.cooling
  BY <1>3 DEF AllSeen
<1>4. ASSUME NEW q, see = [AllSeen EXCEPT !.offered[q] = localWait[q]]
      PROVE  see.chosen = AllSeen.chosen /\ see.cooling = AllSeen.cooling
  BY <1>4 DEF AllSeen
<1>5. ASSUME NEW q, see = [AllSeen EXCEPT !.chosen[q] = localWait[q]]
      PROVE  /\ see.chosen = [AllSeen.chosen EXCEPT ![q] = localWait[q]]
             /\ see.cooling = AllSeen.cooling
  BY <1>5 DEF AllSeen
<1>6. CASE \E i : see = [AllSeen EXCEPT !.cooling = @ \ {i}]
  BY <1>1, <1>3, <1>6
<1>7. CASE \E q : see = [AllSeen EXCEPT !.offered[q] = localWait[q]]
  BY <1>1, <1>4, <1>7
<1>8. CASE \E q : see = [AllSeen EXCEPT !.chosen[q] = localWait[q]]
  BY <1>1, <1>5, <1>8
<1> QED
  BY <1>2, <1>6, <1>7, <1>8 DEF OneUnseen

(* What the spider knows of the wait of a pair when it decides, is at least *)
(* the local one. *)
LEMMA LocalIsSeen ==
  ASSUME NEW h, NEW see \in {AllSeen} \cup OneUnseen(h), NEW p \in Pair,
         localWait[p] \in Nat, Eligible(p, see)
  PROVE  localWait[p] = 0
BY WhatIsSeen DEF Eligible, HostIpWait, LargerOf

LEMMA StartIsSpaced ==
  ASSUME IInv, NEW c \in Command,
         NEW see \in {AllSeen} \cup OneUnseen(HostOf[c]), BuildOrDelay(c, see),
         NEW d \in Command, status[d] # "flight", status'[d] = "flight",
         NEW i \in via'[d]
  PROVE  rest[<<HostOf[d], i>>] >= Interval
<1> DEFINE h == HostOf[c]
           p == <<h, Selected(h, see)>>
<1>1. StartRequest(c, p) /\ Eligible(p, see) /\ Usable(h, see) # {}
  <2>1. ASSUME NEW t, DelayCommand(c, t) PROVE FALSE
    BY <2>1 DEF DelayCommand
  <2> QED
    BY <2>1 DEF BuildOrDelay
<1>2. d = c /\ (via' = [via EXCEPT ![c] = {p[2]}])
  BY <1>1 DEF StartRequest
<1>3. p \in Pair
  <2>1. h \in Host
    BY PolitenessAssumption
  <2>2. Selected(h, see) \in Identity
    BY <1>1, <2>1, BestIsOne DEF Selected, Free, Usable, IInv
  <2> QED
    BY <2>1, <2>2 DEF Pair
<1>4. localWait[p] = 0
  BY <1>1, <1>3, LocalIsSeen DEF IInv, PacerInv
<1>5. rest[p] >= Interval
  BY <1>3, <1>4 DEF IInv, PacerInv
<1>6. i = p[2]
  BY <1>2 DEF IInv, PacerInv
<1> QED
  BY <1>2, <1>5, <1>6

(* A command is started by a decision only: the other steps leave its      *)
(* status alone, end it, or put it back into the queue.                    *)
LEMMA OnlyDecisionsStart ==
  ASSUME IInv, [Next]_vars,
         NEW d \in Command, status[d] # "flight", status'[d] = "flight",
         NEW i \in via'[d]
  PROVE  rest[<<HostOf[d], i>>] >= Interval
<1>1. ASSUME NEW c \in Command, Decide(c)
      PROVE  rest[<<HostOf[d], i>>] >= Interval
  BY <1>1, StartIsSpaced DEF Decide
<1>2. ASSUME NEW c \in Command, DecideHalfBlind(c)
      PROVE  rest[<<HostOf[d], i>>] >= Interval
  BY <1>2, StartIsSpaced DEF DecideHalfBlind
<1>3. ~Tick /\ ~UNCHANGED spider /\ ~UNCHANGED vars
  BY DEF Tick, spider, vars
<1>4. ~Restart
  BY DEF Restart
<1>5. ASSUME NEW c \in Command PROVE ~Respond(c)
  BY DEF Respond, IInv, PacerInv
<1> QED
  BY <1>1, <1>2, <1>3, <1>4, <1>5 DEF Next

(* The starts of a host and an identity are Interval apart: the spider     *)
(* starts only when the local wait is over, and that ends with Interval.   *)
THEOREM StartsAreSpaced == Spec => Spacing
<1>1. IInv /\ [Next]_vars =>
        [\A c \in Command :
            status[c] # "flight" /\ status'[c] = "flight" =>
                \A i \in via'[c] : rest[<<HostOf[c], i>>] >= Interval]_vars
  BY OnlyDecisionsStart
<1> QED
  BY <1>1, PacerInvariant, PTL DEF Spec, Spacing

(* Whatever addresses a worker loses, its pools are sticky.                *)
THEOREM PoolsStaySticky == Spec => PoolsAreSticky
<1>1. IInv /\ [Next]_vars =>
        [addresses' # addresses /\ addresses' \subseteq addresses =>
            \A h \in Host : KeepsPool(h, addresses, addresses')]_vars
  <2> SUFFICES ASSUME IInv, addresses' \subseteq addresses, NEW h \in Host
               PROVE  KeepsPool(h, addresses, addresses')
    OBVIOUS
  <2>1. h \in DOMAIN Score
    BY PolitenessAssumption
  <2>2. addresses \in SUBSET Local /\ addresses' \in SUBSET addresses
    BY DEF IInv, PoolInv
  <2> QED
    BY <2>1, <2>2, StickyPools
<1> QED
  BY <1>1, PacerInvariant, PTL DEF Spec, PoolsAreSticky
=============================================================================
