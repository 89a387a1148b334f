---------------------------- MODULE EgressProofs ----------------------------
(***************************************************************************)
(* Rendezvous hashing disturbs no more pools than it must, for any         *)
(* addresses, scores and pool size.                                        *)
(***************************************************************************)
EXTENDS EgressIdentity, FiniteSetTheorems, FunctionTheorems,
        WellFoundedInduction, TLAPS

(* There are finitely many addresses. *)
LEMMA LocalIsFinite == IsFiniteSet(Local)
<1> DEFINE f == [i \in 1..Len(BindIps) |-> BindIps[i]]
<1>1. IsFiniteSet(1..Len(BindIps))
  BY EgressAssumption, FS_Interval
<1>2. f \in Surjection(1..Len(BindIps), Local)
  BY DEF Surjection, Local
<1> QED
  BY <1>1, <1>2, FS_Surjection

(* Before is a strict and total order of the addresses. *)
LEMMA BeforeIsAnOrder ==
  ASSUME NEW h \in DOMAIN Score
  PROVE  /\ \A x \in Local : ~Before(h, x, x)
         /\ \A x, y, z \in Local :
                Before(h, x, y) /\ Before(h, y, z) => Before(h, x, z)
         /\ \A x, y \in Local : x # y => Before(h, x, y) \/ Before(h, y, x)
<1>1. ASSUME NEW ip \in Local
      PROVE  Position(ip) \in Int /\ BindIps[Position(ip)] = ip
  <2>1. \E i \in 1..Len(BindIps) : BindIps[i] = ip
    BY DEF Local
  <2> QED
    BY <2>1, EgressAssumption DEF Position
<1>2. \A ip \in Local : Score[h][IdentityOf(ip)] \in Int
  BY EgressAssumption
<1>3. \A x, y \in Local : x # y => Position(x) # Position(y)
  BY <1>1
<1> QED
  BY <1>1, <1>2, <1>3 DEF Before

(* The addresses that rank before ip among A. *)
Rivals(h, A, ip) == {x \in A : Before(h, x, ip)}

LEMMA RankType ==
  ASSUME NEW h, NEW A \in SUBSET Local, NEW ip
  PROVE  /\ IsFiniteSet(Rivals(h, A, ip))
         /\ Rank(h, A, ip) = Cardinality(Rivals(h, A, ip))
         /\ Rank(h, A, ip) \in Nat
<1>1. Rivals(h, A, ip) \subseteq Local
  BY DEF Rivals
<1>2. IsFiniteSet(Rivals(h, A, ip))
  BY <1>1, LocalIsFinite, FS_Subset
<1>3. Rank(h, A, ip) = Cardinality(Rivals(h, A, ip))
  BY DEF Rank, Rivals
<1> QED
  BY <1>2, <1>3, FS_CardinalityType

(* Among fewer addresses, one has fewer rivals. *)
LEMMA RankShrinks ==
  ASSUME NEW h, NEW A \in SUBSET Local, NEW B \in SUBSET A, NEW ip
  PROVE  Rank(h, B, ip) <= Rank(h, A, ip)
<1>1. Rivals(h, B, ip) \subseteq Rivals(h, A, ip)
  BY DEF Rivals
<1>2. Cardinality(Rivals(h, B, ip)) <= Cardinality(Rivals(h, A, ip))
  BY <1>1, RankType, FS_Subset
<1> QED
  BY <1>2, RankType

(* An address ranks higher in number than those before it.                 *)
LEMMA RankGrows ==
  ASSUME NEW h \in DOMAIN Score, NEW A \in SUBSET Local,
         NEW x \in A, NEW y \in A, Before(h, x, y)
  PROVE  Rank(h, A, x) < Rank(h, A, y)
<1>1. Rivals(h, A, x) \subseteq Rivals(h, A, y) \ {x} /\ x \in Rivals(h, A, y)
  BY BeforeIsAnOrder DEF Rivals
<1>2. /\ IsFiniteSet(Rivals(h, A, y) \ {x})
      /\ Cardinality(Rivals(h, A, y) \ {x}) = Cardinality(Rivals(h, A, y)) - 1
  BY <1>1, RankType, FS_RemoveElement
<1>3. Cardinality(Rivals(h, A, x)) <= Cardinality(Rivals(h, A, y)) - 1
  BY <1>1, <1>2, FS_Subset
<1> QED
  BY <1>3, RankType

(* The ranks of the candidates are 0, 1, and so on without a gap: they are *)
(* different, and each is less than the number of candidates, since the    *)
(* rivals of a candidate are candidates.                                   *)
LEMMA RanksOfCandidates ==
  ASSUME NEW h \in DOMAIN Score, NEW A \in SUBSET Local
  PROVE  /\ Cardinality(StickyPool(h, A)) \in Nat
         /\ \A r \in 0..(Cardinality(StickyPool(h, A)) - 1) :
                \E ip \in StickyPool(h, A) : Rank(h, A, ip) = r
<1> DEFINE P == StickyPool(h, A)
           M == Cardinality(P)
           f == [ip \in P |-> Rank(h, A, ip)]
<1>1. P \subseteq A
  BY DEF StickyPool
<1>2. IsFiniteSet(P) /\ M \in Nat
  <2>1. P \subseteq Local
    BY <1>1
  <2> QED
    BY <2>1, LocalIsFinite, FS_Subset, FS_CardinalityType
<1>3. ASSUME NEW ip \in P PROVE Rank(h, A, ip) \in 0..(M - 1)
  <2>1. Rivals(h, A, ip) \subseteq P \ {ip}
    <3> SUFFICES ASSUME NEW x \in A, Before(h, x, ip)
                 PROVE  x \in P /\ x # ip
      BY DEF Rivals
    <3>1. Rank(h, A, x) < Rank(h, A, ip)
      BY <1>1, RankGrows
    <3>2. Rank(h, A, ip) < PoolSize
      BY DEF StickyPool
    <3>3. Rank(h, A, x) \in Nat /\ Rank(h, A, ip) \in Nat /\ PoolSize \in Nat
      BY RankType, EgressAssumption
    <3> QED
      BY <3>1, <3>2, <3>3 DEF StickyPool
  <2>2. IsFiniteSet(P \ {ip}) /\ Cardinality(P \ {ip}) = M - 1
    <3> HIDE DEF P
    <3> QED
      BY <1>2, FS_RemoveElement
  <2>3. Cardinality(Rivals(h, A, ip)) <= M - 1
    <3> HIDE DEF P
    <3> QED
      BY <2>1, <2>2, FS_Subset
  <2> QED
    BY <1>2, <2>3, RankType
<1>4. ASSUME NEW x \in P, NEW y \in P, x # y
      PROVE  Rank(h, A, x) # Rank(h, A, y)
  <2>1. Before(h, x, y) \/ Before(h, y, x)
    BY <1>1, <1>4, BeforeIsAnOrder
  <2>2. Rank(h, A, x) < Rank(h, A, y) \/ Rank(h, A, y) < Rank(h, A, x)
    BY <1>1, <2>1, RankGrows
  <2> QED
    BY <2>2, RankType
<1>5. f \in Injection(P, 0..(M - 1))
  <2> HIDE DEF P, M
  <2>1. f \in [P -> 0..(M - 1)]
    BY <1>3
  <2>2. \A x, y \in P : f[x] = f[y] => x = y
    BY <1>4
  <2> HIDE DEF f
  <2> QED
    BY <2>1, <2>2, Fun_IsInj
<1>6. f \in Surjection(P, 0..(M - 1))
  <2>1. IsFiniteSet(0..(M - 1)) /\ Cardinality(0..(M - 1)) = M
    BY <1>2, FS_Interval
  <2> HIDE DEF P, f
  <2> QED
    BY <1>5, <2>1, FS_Injection
<1>7. \A r \in 0..(M - 1) : \E ip \in P : f[ip] = r
  <2> HIDE DEF P, M, f
  <2> QED
    BY <1>6, Fun_SurjectionProperties
<1> QED
  BY <1>2, <1>7

(* A pool is a sequence of identities of the worker's own addresses.       *)
LEMMA AssignmentType ==
  ASSUME NEW h \in DOMAIN Score, NEW A \in SUBSET Local
  PROVE  /\ Cardinality(StickyPool(h, A)) \in Nat
         /\ Assignment(h, A) \in [1..Cardinality(StickyPool(h, A)) ->
                                     {IdentityOf(ip) : ip \in A}]
<1>1. ASSUME NEW k \in 1..Cardinality(StickyPool(h, A))
      PROVE  \E ip \in A : Rank(h, A, ip) = k - 1
  <2>1. k - 1 \in 0..(Cardinality(StickyPool(h, A)) - 1)
    BY RanksOfCandidates
  <2>2. StickyPool(h, A) \subseteq A
    BY DEF StickyPool
  <2> QED
    BY <2>1, <2>2, RanksOfCandidates
<1> QED
  BY <1>1, RanksOfCandidates DEF Assignment

(* Some element of D ranks before all others of D, or equal to them: the   *)
(* rivals of an address are a proper subset of those of one it ranks       *)
(* before, and that order of finite sets is well-founded.                  *)
LEMMA FirstOfSome ==
  ASSUME NEW h \in DOMAIN Score, NEW A \in SUBSET Local,
         NEW D \in SUBSET A, D # {}
  PROVE  \E y \in D : \A z \in D : ~Before(h, z, y)
<1> DEFINE T == {Rivals(h, A, z) : z \in D}
<1>1. T \subseteq FiniteSubsetsOf(A) /\ T # {}
  <2>1. ASSUME NEW z \in D PROVE Rivals(h, A, z) \in FiniteSubsetsOf(A)
    BY RankType DEF Rivals, FiniteSubsetsOf
  <2> QED
    BY <2>1
<1>2. IsWellFoundedOn(StrictSubsetOrdering(A), FiniteSubsetsOf(A))
  BY FS_StrictSubsetOrderingWellFounded
<1>3. \E R \in T : \A Q \in T : ~(<<Q, R>> \in StrictSubsetOrdering(A))
  <2> HIDE DEF T
  <2> QED
    BY <1>1, <1>2, WFMin
<1>4. PICK y \in D : \A Q \in T :
                       ~(<<Q, Rivals(h, A, y)>> \in StrictSubsetOrdering(A))
  BY <1>3
<1>5. ASSUME NEW z \in D, Before(h, z, y) PROVE FALSE
  <2>1. Rivals(h, A, z) \subseteq Rivals(h, A, y)
    BY <1>5, BeforeIsAnOrder DEF Rivals
  <2>2. z \in Rivals(h, A, y) /\ z \notin Rivals(h, A, z)
    BY <1>5, BeforeIsAnOrder DEF Rivals
  <2>3. <<Rivals(h, A, z), Rivals(h, A, y)>> \in StrictSubsetOrdering(A)
    BY <2>1, <2>2 DEF StrictSubsetOrdering, Rivals
  <2> QED
    BY <2>3, <1>4
<1> QED
  BY <1>5

(* A candidate that is left has fewer rivals than before.  And if none of  *)
(* the candidates is lost, nobody takes the place of one: somebody who     *)
(* newly came in would have lost a rival; the first of the rivals he lost  *)
(* ranks behind none but those he still has, fewer than PoolSize, and so   *)
(* was a candidate.                                                        *)
THEOREM StickyPools ==
  ASSUME NEW h \in DOMAIN Score,
         NEW A \in SUBSET Local, NEW B \in SUBSET A
  PROVE  KeepsPool(h, A, B)
<1>1. PoolSize \in Nat
  BY EgressAssumption
<1>2. StickyPool(h, A) \cap B \subseteq StickyPool(h, B)
  <2> SUFFICES ASSUME NEW ip \in StickyPool(h, A), ip \in B
               PROVE  ip \in StickyPool(h, B)
    OBVIOUS
  <2>1. Rank(h, A, ip) < PoolSize
    BY DEF StickyPool
  <2>2. Rank(h, B, ip) <= Rank(h, A, ip)
    BY RankShrinks
  <2>3. Rank(h, A, ip) \in Nat /\ Rank(h, B, ip) \in Nat
    BY RankType
  <2> QED
    BY <1>1, <2>1, <2>2, <2>3 DEF StickyPool
<1>3. ASSUME StickyPool(h, A) \subseteq B PROVE StickyPool(h, B) = StickyPool(h, A)
  <2>1. SUFFICES ASSUME NEW ip \in StickyPool(h, B), ip \notin StickyPool(h, A)
                 PROVE  FALSE
    BY <1>2, <1>3
  <2>2. Rank(h, B, ip) < PoolSize /\ ip \in B
    BY DEF StickyPool
  <2>3. ~(Rank(h, A, ip) < PoolSize)
    BY <2>1, <2>2 DEF StickyPool
  <2> DEFINE D == Rivals(h, A, ip) \ B
  <2>4. D # {}
    <3>1. SUFFICES ASSUME D = {} PROVE FALSE
      OBVIOUS
    <3>2. Rivals(h, A, ip) = Rivals(h, B, ip)
      BY <3>1 DEF Rivals
    <3>3. Rank(h, A, ip) = Rank(h, B, ip)
      BY <3>2, RankType
    <3> QED
      BY <3>3, <2>2, <2>3
  <2>5. PICK y \in D : \A z \in D : ~Before(h, z, y)
    <3>1. D \subseteq A
      BY DEF Rivals
    <3> HIDE DEF D
    <3> QED
      BY <3>1, <2>4, FirstOfSome
  <2>6. Rivals(h, A, y) \subseteq Rivals(h, B, ip)
    <3> SUFFICES ASSUME NEW x \in A, Before(h, x, y)
                 PROVE  x \in B /\ Before(h, x, ip)
      BY DEF Rivals
    <3>1. Before(h, y, ip) /\ y \in A
      BY DEF Rivals
    <3>2. Before(h, x, ip)
      BY <3>1, <2>2, BeforeIsAnOrder
    <3>3. x \in B
      BY <3>2, <2>5 DEF Rivals
    <3> QED
      BY <3>2, <3>3
  <2>7. Rank(h, A, y) <= Rank(h, B, ip)
    <3>1. Cardinality(Rivals(h, A, y)) <= Cardinality(Rivals(h, B, ip))
      BY <2>6, RankType, FS_Subset
    <3> QED
      BY <3>1, RankType
  <2>8. y \in StickyPool(h, A)
    <3>1. Rank(h, A, y) \in Nat /\ Rank(h, B, ip) \in Nat
      BY RankType
    <3>2. y \in A
      BY DEF Rivals
    <3> QED
      BY <1>1, <2>2, <2>7, <3>1, <3>2 DEF StickyPool
  <2>9. y \notin B
    OBVIOUS
  <2> QED
    BY <1>3, <2>8, <2>9
<1> QED
  BY <1>2, <1>3 DEF KeepsPool
=============================================================================
