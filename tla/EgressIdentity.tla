--------------------------- MODULE EgressIdentity ---------------------------
(***************************************************************************)
(* The egress identities of a worker and the sticky pools of hosts.  An    *)
(* identity stands for what a site sees: the public address behind a local *)
(* one if it is known, else the local address itself.  Each host ranks the *)
(* worker's local addresses by a hash of host and identity (rendezvous     *)
(* hashing) and uses the first PoolSize of them.                           *)
(*                                                                         *)
(* Local addresses behind one public address stay candidates of their own, *)
(* with one identity: they rank side by side.                              *)
(***************************************************************************)
EXTENDS Integers, Sequences, FiniteSets

CONSTANTS
    BindIps,        \* LOCAL_IP_POOL, or the addresses of the interface,
                    \* without the repetitions, which are dropped
    PublicIp,       \* EGRESS_IDENTITY_MAP_FILE: local to public addresses
    Source,         \* EGRESS_IDENTITY_SOURCE
    AllowBindIp,    \* ALLOW_BIND_IP_AS_EGRESS_IDENTITY
    Score,          \* _rendezvous_score of each host and identity
    PoolSize        \* STICKY_POOL_SIZE

Local == {BindIps[i] : i \in 1..Len(BindIps)}
HasPublic(ip) == ip \in DOMAIN PublicIp

(* resolve_egress_identity *)
IdentityOf(ip) ==
    IF Source # "bind_ip" /\ HasPublic(ip) THEN PublicIp[ip] ELSE ip

(* Any other source or map raises EgressIdentityError, and the worker does *)
(* not start.                                                              *)
ASSUME EgressAssumption ==
    /\ BindIps \in Seq(Local) /\ Local # {}
    /\ \A i, j \in 1..Len(BindIps) : BindIps[i] = BindIps[j] => i = j
    /\ \A h \in DOMAIN Score : \A ip \in Local : Score[h][IdentityOf(ip)] \in Nat
    /\ PoolSize \in Nat \ {0}
    /\ \/ Source = "public_ip" /\ \A ip \in Local : HasPublic(ip)
       \/ Source = "bind_ip" /\ AllowBindIp
       \/ Source = "auto" /\ (AllowBindIp \/ \A ip \in Local : HasPublic(ip))

Position(ip) == CHOOSE i \in 1..Len(BindIps) : BindIps[i] = ip

(* Sorted by score, best first; the sort is stable. *)
Before(h, x, y) ==
    LET sx == Score[h][IdentityOf(x)]
        sy == Score[h][IdentityOf(y)]
    IN  sx > sy \/ (sx = sy /\ Position(x) < Position(y))

Rank(h, addresses, ip) == Cardinality({x \in addresses : Before(h, x, ip)})

\* Mutant: the hash of the host picks where in the list its pool begins.
StickyPoolFromOffset(h, addresses) ==
    LET n == Cardinality(addresses)
        start == Score[h][IdentityOf(BindIps[1])] % n
        Place(ip) == Cardinality({x \in addresses : Position(x) < Position(ip)})
    IN  {ip \in addresses : (Place(ip) + n - start) % n < PoolSize}

(* The candidates of host h among the given addresses. *)
StickyPool(h, addresses) ==
    {ip \in addresses : Rank(h, addresses, ip) < PoolSize}

(* Their identities, best first: build_sticky_pool_assignment. *)
Assignment(h, addresses) ==
    [k \in 1..Cardinality(StickyPool(h, addresses)) |->
        IdentityOf(CHOOSE ip \in addresses : Rank(h, addresses, ip) = k - 1)]

-----------------------------------------------------------------------------
(* What is promised of the pool of h when a worker loses addresses: each   *)
(* candidate that is left stays one, and if none is lost, no other comes   *)
(* in.                                                                     *)
KeepsPool(h, before, after) ==
    /\ StickyPool(h, before) \cap after \subseteq StickyPool(h, after)
    /\ StickyPool(h, before) \subseteq after =>
           StickyPool(h, after) = StickyPool(h, before)
=============================================================================
