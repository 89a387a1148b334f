--------------------------- MODULE IpHealthProofs ---------------------------
(***************************************************************************)
(* TLAPS proofs about IpHealth: for any number of workers and addresses,   *)
(* any threshold and window, and any number of failing Redis calls.        *)
(***************************************************************************)
EXTENDS IpHealth, FiniteSetTheorems, TLAPS

Calls == {Idle} \cup {Record(s, ip) : s \in {"count", "blacklist"}, ip \in IP}
Ages == 0..(Window - 1)

LEMMA CallType ==
    ASSUME NEW c \in Calls
    PROVE  \/ c = Idle
           \/ c # Idle /\ c.stage \in {"count", "blacklist"} /\ c.ip \in IP
BY DEF Calls, Idle, Record

LEMMA CappedType ==
    ASSUME NEW n \in 0..Threshold
    PROVE  Capped(n + 1) \in 1..Threshold
BY HealthAssumption DEF Capped

LEMMA OlderType ==
    ASSUME NEW f \in [Ages -> 0..Threshold]
    PROVE  /\ Older(f) \in [Ages -> 0..Threshold]
           /\ Older(f)[0] = 0
           /\ \A age \in 1..(Window - 1) : Older(f)[age] = f[age - 1]
BY HealthAssumption DEF Older, Ages

(***************************************************************************)
(* Types.                                                                  *)
(***************************************************************************)
LEMMA TypeInit == Init => TypeOK
BY HealthAssumption DEF Init, TypeOK, NoFailure, Ages

LEMMA ZaddType ==
    ASSUME TypeOK, NEW w \in Worker, NEW ip \in IP, Zadd(w, ip)
    PROVE  /\ fails' \in [IP -> [Ages -> 0..Threshold]]
           /\ call' \in [Worker -> Calls]
           /\ faults' \in 0..MaxFaults
<1>1. CASE Fault /\ UNCHANGED <<fails, call>>
  BY <1>1, HealthAssumption DEF TypeOK, Fault, Ages, Calls
<1>2. CASE /\ fails' = [fails EXCEPT ![ip][0] = Capped(@ + 1)]
           /\ call' = [call EXCEPT ![w] = Record("count", ip)]
           /\ UNCHANGED faults
  <2>1. fails[ip] \in [Ages -> 0..Threshold] /\ 0 \in Ages
    BY HealthAssumption DEF TypeOK, Ages
  <2>2. Capped(fails[ip][0] + 1) \in 0..Threshold
    BY <2>1, CappedType, HealthAssumption
  <2>3. [fails[ip] EXCEPT ![0] = Capped(@ + 1)] \in [Ages -> 0..Threshold]
    BY <2>1, <2>2
  <2>4. fails' \in [IP -> [Ages -> 0..Threshold]]
    BY <1>2, <2>3 DEF TypeOK, Ages
  <2>5. call' \in [Worker -> Calls]
    BY <1>2 DEF TypeOK, Calls
  <2> QED
    BY <1>2, <2>4, <2>5 DEF TypeOK
<1> QED
  BY <1>1, <1>2 DEF Zadd

LEMMA FaultType ==
    ASSUME TypeOK, Fault \/ UNCHANGED faults
    PROVE  faults' \in 0..MaxFaults
BY HealthAssumption DEF TypeOK, Fault

LEMMA TypeStep ==
    ASSUME TypeOK, [Next]_vars
    PROVE  TypeOK'
<1>0. CASE UNCHANGED vars
  BY <1>0 DEF vars, store, TypeOK
<1>1. CASE Tick
  <2>1. ASSUME NEW ip \in IP
        PROVE  Older(fails[ip]) \in [Ages -> 0..Threshold]
    BY OlderType DEF TypeOK, Ages
  <2>2. ASSUME NEW ip \in IP
        PROVE  (IF blacklist[ip] = 0 THEN 0 ELSE blacklist[ip] - 1) \in 0..Cooldown
    BY HealthAssumption DEF TypeOK
  <2> QED
    BY <1>1, <2>1, <2>2, HealthAssumption DEF Tick, TypeOK, Ages
<1>2. ASSUME NEW w \in Worker, CountFailures(w)
      PROVE  TypeOK'
  <2>1. call[w] \in Calls
    BY DEF TypeOK, Calls
  <2>2. (call[w].ip \in IP /\ call[w].stage = "count") \/ call[w] = Idle
    BY <1>2, <2>1, CallType DEF CountFailures
  <2>3. call[w].ip \in IP
    BY <1>2, <2>2 DEF CountFailures, Idle
  <2>4. call' \in [Worker -> Calls]
    BY <1>2, <2>3 DEF CountFailures, TypeOK, Calls
  <2> QED
    BY <1>2, <2>4, HealthAssumption
    DEF CountFailures, Fault, TypeOK, Calls, store
<1>3. ASSUME NEW w \in Worker, Setex(w)
      PROVE  TypeOK'
  <2>1. Cooldown \in 0..Cooldown
    BY HealthAssumption
  <2>2. \/ blacklist' = [blacklist EXCEPT ![call[w].ip] = Cooldown]
        \/ blacklist' = blacklist
    BY <1>3 DEF Setex
  <2>3. blacklist' \in [IP -> 0..Cooldown]
    BY <2>1, <2>2 DEF TypeOK
  <2>4. call' \in [Worker -> Calls]
    BY <1>3 DEF Setex, TypeOK, Calls
  <2>5. faults' \in 0..MaxFaults
    BY <1>3, FaultType DEF Setex
  <2> QED
    BY <1>3, <2>3, <2>4, <2>5 DEF Setex, TypeOK, Calls
<1>4. ASSUME NEW w \in Worker, NEW ip \in IP,
             GoodResponse(w, ip) \/ Captcha(w, ip) \/ Failed(w, ip)
      PROVE  TypeOK'
  <2>1. flight' \in [Worker -> SUBSET IP]
    BY <1>4 DEF GoodResponse, Captcha, Failed, Finish, TypeOK
  <2>2. CASE GoodResponse(w, ip)
    <3>1. NoFailure \in [Ages -> 0..Threshold]
      BY HealthAssumption DEF NoFailure, Ages
    <3>2. \/ fails' = [fails EXCEPT ![ip] = NoFailure]
          \/ fails' = fails
      BY <2>2 DEF GoodResponse
    <3>3. fails' \in [IP -> [Ages -> 0..Threshold]]
      BY <3>1, <3>2 DEF TypeOK, Ages
    <3>4. faults' \in 0..MaxFaults
      BY <2>2, FaultType DEF GoodResponse
    <3> QED
      BY <2>1, <2>2, <3>3, <3>4 DEF GoodResponse, Finish, TypeOK, Ages
  <2>3. CASE Captcha(w, ip)
    <3>1. call' \in [Worker -> Calls]
      BY <2>3 DEF Captcha, TypeOK, Calls
    <3> QED
      BY <2>1, <2>3, <3>1 DEF Captcha, Finish, TypeOK, Calls
  <2>4. CASE Failed(w, ip)
    <3>1. Zadd(w, ip)
      BY <2>4 DEF Failed
    <3>2. /\ fails' \in [IP -> [Ages -> 0..Threshold]]
          /\ call' \in [Worker -> Calls]
          /\ faults' \in 0..MaxFaults
      BY <3>1, ZaddType
    <3>3. UNCHANGED <<blacklist, hostIp, handedOut>>
      BY <2>4 DEF Failed, Finish
    <3>4. /\ blacklist' \in [IP -> 0..Cooldown]
          /\ hostIp' \in [Worker -> IP \cup {NoIp}]
          /\ handedOut' \in 0..MaxPerUnit
      BY <3>3 DEF TypeOK
    <3> QED
      BY <2>1, <3>2, <3>4 DEF TypeOK, Ages, Calls
  <2> QED
    BY <1>4, <2>2, <2>3, <2>4
<1>5. ASSUME NEW w \in Worker, NEW ip \in IP, HandOut(w, ip)
      PROVE  handedOut' \in 0..MaxPerUnit
  BY <1>5, HealthAssumption DEF HandOut, TypeOK
<1>6. ASSUME NEW w \in Worker, NEW ip \in IP,
             SelectForHost(w, ip) \/ UsePreselected(w, ip)
      PROVE  TypeOK'
  <2>1. HandOut(w, ip) /\ (Fault \/ UNCHANGED faults)
    BY <1>6 DEF SelectForHost, UsePreselected
  <2>2. faults' \in 0..MaxFaults /\ handedOut' \in 0..MaxPerUnit
    BY <1>5, <2>1, FaultType
  <2>3. hostIp' \in [Worker -> IP \cup {NoIp}]
    BY <1>6 DEF SelectForHost, UsePreselected, TypeOK
  <2>4. flight' \in [Worker -> SUBSET IP]
    BY <1>6 DEF SelectForHost, UsePreselected, TypeOK
  <2>5. UNCHANGED <<fails, blacklist, call>>
    BY <1>6 DEF SelectForHost, UsePreselected, store
  <2> QED
    BY <2>2, <2>3, <2>4, <2>5 DEF TypeOK
<1>7. ASSUME NEW w \in Worker, NEW ip \in IP, RefusePreselected(w, ip)
      PROVE  TypeOK'
  <2>1. HandOut(w, ip) /\ Zadd(w, ip) /\ UNCHANGED <<blacklist, hostIp, flight>>
    BY <1>7 DEF RefusePreselected
  <2>2. /\ fails' \in [IP -> [Ages -> 0..Threshold]]
        /\ call' \in [Worker -> Calls]
        /\ faults' \in 0..MaxFaults
    BY <2>1, ZaddType
  <2>3. handedOut' \in 0..MaxPerUnit
    BY <1>5, <2>1
  <2>4. /\ blacklist' \in [IP -> 0..Cooldown]
        /\ hostIp' \in [Worker -> IP \cup {NoIp}]
        /\ flight' \in [Worker -> SUBSET IP]
    BY <2>1 DEF TypeOK
  <2> QED
    <3>1. fails' \in [IP -> [0..(Window - 1) -> 0..Threshold]]
      BY <2>2 DEF Ages
    <3>2. call' \in [Worker -> {Idle} \cup
                        {Record(s, a) : s \in {"count", "blacklist"}, a \in IP}]
      BY <2>2 DEF Calls
    <3> QED
      BY <2>2, <2>3, <2>4, <3>1, <3>2 DEF TypeOK
<1>8. ASSUME NEW w \in Worker, Restart(w)
      PROVE  TypeOK'
  BY <1>8, FaultType DEF Restart, TypeOK, store
<1> QED
  BY <1>0, <1>1, <1>2, <1>3, <1>4, <1>6, <1>7, <1>8
  DEF Next, Step, ProcessRequest

(* TypeOK of the Redis keys and of the middlewares' state, for any number  *)
(* of workers and addresses.                                               *)
THEOREM HealthTypeOK == Spec => []TypeOK
<1> QED
  BY TypeInit, TypeStep, PTL DEF Spec

(***************************************************************************)
(* StickyMapping.                                                          *)
(***************************************************************************)
LEMMA StickyStep ==
    ASSUME TypeOK, [Next]_vars, NEW w \in Worker,
           hostIp[w] # NoIp, hostIp'[w] # hostIp[w]
    PROVE  IsBlacklisted(hostIp[w]) \/ faults' > faults
<1>1. ASSUME NEW v \in Worker, NEW ip \in IP, SelectForHost(v, ip)
      PROVE  IsBlacklisted(hostIp[w]) \/ faults' > faults
  <2>1. v = w /\ ip # hostIp[w]
    BY <1>1 DEF SelectForHost, TypeOK
  <2>2. CASE Fault
    BY <2>2 DEF Fault, TypeOK
  <2>3. CASE SelectSticky(v, ip)
    BY <2>1, <2>3 DEF SelectSticky
  <2> QED
    BY <1>1, <2>2, <2>3 DEF SelectForHost
<1>2. ASSUME NEW v \in Worker, Restart(v)
      PROVE  faults' > faults
  BY <1>2 DEF Restart, Fault, TypeOK
<1>3. PICK v \in Worker : \/ \E ip \in IP : SelectForHost(v, ip)
                          \/ Restart(v)
  BY DEF Next, Tick, Step, ProcessRequest, CountFailures, Setex, GoodResponse,
         Captcha, Failed, Finish, UsePreselected, RefusePreselected, vars
<1> QED
  BY <1>1, <1>2, <1>3

(* User story 1, scenario 3 of spec 001: a host keeps its address until    *)
(* the address is blacklisted, or a call fails or the worker restarts.     *)
THEOREM HostsKeepTheirAddress == Spec => StickyMapping
<1>1. TypeOK /\ [Next]_vars =>
        [\A w \in Worker : hostIp[w] # NoIp /\ hostIp'[w] # hostIp[w] =>
            IsBlacklisted(hostIp[w]) \/ faults' > faults]_vars
  BY StickyStep
<1> QED
  BY <1>1, HealthTypeOK, PTL DEF Spec, StickyMapping

(* The number of failures of an address, as the zset's cardinality.        *)
LEMMA MembersFinite ==
    ASSUME NEW f \in [Ages -> 0..Threshold]
    PROVE  IsFiniteSet(Members(f)) /\ Cardinality(Members(f)) \in Nat
<1>1. IsFiniteSet(Ages) /\ IsFiniteSet(1..Threshold)
  BY FS_Interval, HealthAssumption DEF Ages
<1>2. IsFiniteSet(Ages \X (1..Threshold))
  BY <1>1, FS_Product
<1>3. Members(f) \in SUBSET (Ages \X (1..Threshold))
  BY DEF Members
<1> QED
  BY <1>2, <1>3, FS_Subset, FS_CardinalityType

LEMMA SomeFailure ==
    ASSUME NEW f \in [Ages -> 0..Threshold], Cardinality(Members(f)) >= Threshold
    PROVE  \E age \in Ages : f[age] > 0
<1>1. Members(f) # {}
  BY MembersFinite, FS_EmptySet, HealthAssumption
<1>2. PICK m \in Members(f) : TRUE
  BY <1>1
<1>3. m[1] \in Ages /\ m[2] \in 1..Threshold /\ m[2] <= f[m[1]]
  BY <1>2 DEF Members
<1>4. f[m[1]] \in 0..Threshold
  BY <1>3
<1> QED
  BY <1>3, <1>4, HealthAssumption

(* Time adds no failure: a member of the aged zset was in it one unit      *)
(* younger.                                                                *)
LEMMA OlderHasNoMore ==
    ASSUME NEW f \in [Ages -> 0..Threshold]
    PROVE  Cardinality(Members(Older(f))) <= Cardinality(Members(f))
<1> DEFINE younger == [m \in Members(Older(f)) |-> <<m[1] - 1, m[2]>>]
<1>1. ASSUME NEW m \in Members(Older(f))
      PROVE  /\ m = <<m[1], m[2]>>
             /\ m[1] \in Int
             /\ <<m[1] - 1, m[2]>> \in Members(f)
  <2>1. m \in Ages \X (1..Threshold) /\ m[2] <= Older(f)[m[1]]
    BY OlderType DEF Members
  <2>2. m = <<m[1], m[2]>> /\ m[1] \in Ages /\ m[2] \in 1..Threshold
    BY <2>1
  <2>3. m[1] # 0
    BY <2>1, <2>2, OlderType, HealthAssumption
  <2>4. m[1] \in 1..(Window - 1) /\ m[1] - 1 \in Ages
    BY <2>2, <2>3, HealthAssumption DEF Ages
  <2>5. m[2] <= f[m[1] - 1]
    BY <2>1, <2>4, OlderType
  <2>6. <<m[1] - 1, m[2]>> \in Members(f)
    BY <2>2, <2>4, <2>5 DEF Members
  <2>7. m[1] \in Int
    BY <2>2, HealthAssumption DEF Ages
  <2> QED
    BY <2>2, <2>6, <2>7
<1>2. younger \in [Members(Older(f)) -> Members(f)]
  BY <1>1
<1>3. ASSUME NEW m \in Members(Older(f)), NEW n \in Members(Older(f)),
             younger[m] = younger[n]
      PROVE  m = n
  <2>1. m[1] - 1 = n[1] - 1 /\ m[2] = n[2]
    BY <1>3
  <2>2. m[1] \in Int /\ n[1] \in Int
    BY <1>1
  <2>3. m[1] = n[1]
    BY <2>1, <2>2
  <2> QED
    BY <1>1, <2>1, <2>3
<1> HIDE DEF younger
<1>4. younger \in Injection(Members(Older(f)), Members(f))
  BY <1>2, <1>3 DEF Injection, IsInjective
<1>5. IsFiniteSet(Members(f))
  BY MembersFinite
<1> QED
  BY <1>4, <1>5, FS_Injection

LEMMA NoFailureCounts ==
    Cardinality(Members(NoFailure)) < Threshold
<1>1. Members(NoFailure) = {}
  BY HealthAssumption DEF Members, NoFailure
<1> QED
  BY <1>1, FS_EmptySet, HealthAssumption

(***************************************************************************)
(* ThresholdMeansCooldown.  It is not inductive: time takes away from the  *)
(* blacklist as well as from the window.  The blacklist key outlives the   *)
(* failures because it was set after the youngest of them, and lives at    *)
(* least as long as the window.                                            *)
(***************************************************************************)
Recording(ip) == \E w \in Worker : call[w] # Idle /\ call[w].ip = ip
Outlived(ip) == \A age \in Ages :
    fails[ip][age] > 0 => blacklist[ip] + age >= Cooldown

HealthInv ==
    /\ TypeOK
    /\ \A ip \in IP : faults = 0 /\ Failures(ip) >= Threshold =>
          Recording(ip) \/ Outlived(ip)

LEMMA HealthInit == Init => HealthInv
<1> SUFFICES ASSUME Init PROVE HealthInv
  OBVIOUS
<1>1. \A ip \in IP : ~(Failures(ip) >= Threshold)
  <2> TAKE ip \in IP
  <2>1. fails[ip] = NoFailure
    BY DEF Init
  <2>2. NoFailure \in [Ages -> 0..Threshold]
    BY HealthAssumption DEF NoFailure, Ages
  <2> QED
    BY <2>1, <2>2, NoFailureCounts, MembersFinite, HealthAssumption DEF Failures
<1> QED
  BY <1>1, TypeInit DEF HealthInv

(* An outlived failure is one whose address is blacklisted.                *)
LEMMA OutlivedIsBlacklisted ==
    ASSUME TypeOK, NEW ip \in IP, Failures(ip) >= Threshold, Outlived(ip)
    PROVE  IsBlacklisted(ip)
<1>1. fails[ip] \in [Ages -> 0..Threshold]
  BY DEF TypeOK, Ages
<1>2. PICK age \in Ages : fails[ip][age] > 0
  BY <1>1, SomeFailure DEF Failures
<1>3. blacklist[ip] + age >= Cooldown /\ age < Window /\ blacklist[ip] \in Nat
  BY <1>2, HealthAssumption DEF Outlived, TypeOK, Ages
<1> QED
  BY <1>3, HealthAssumption DEF IsBlacklisted, Ages

(* A unit of time, with no recording in progress.                          *)
LEMMA TickKeeps ==
    ASSUME HealthInv, Tick, NEW ip \in IP, faults' = 0, Failures(ip)' >= Threshold
    PROVE  Outlived(ip)'
<1>1. fails[ip] \in [Ages -> 0..Threshold] /\ fails'[ip] = Older(fails[ip])
  BY DEF HealthInv, TypeOK, Ages, Tick
<1>2. Failures(ip) >= Threshold
  <2>1. Older(fails[ip]) \in [Ages -> 0..Threshold]
    BY <1>1, OlderType
  <2>2. /\ Cardinality(Members(Older(fails[ip]))) \in Nat
        /\ Cardinality(Members(fails[ip])) \in Nat
    BY <1>1, <2>1, MembersFinite
  <2>3. Cardinality(Members(Older(fails[ip]))) >= Threshold
    BY <1>1 DEF Failures
  <2>4. Cardinality(Members(Older(fails[ip]))) <= Cardinality(Members(fails[ip]))
    BY <1>1, OlderHasNoMore
  <2> QED
    BY <2>2, <2>3, <2>4, HealthAssumption DEF Failures
<1>3. ~Recording(ip)
  BY DEF Tick, Recording
<1>4. Outlived(ip)
  BY <1>2, <1>3 DEF HealthInv, Tick
<1>5. blacklist[ip] \in Nat /\ blacklist[ip] > 0
  BY <1>2, <1>4, OutlivedIsBlacklisted DEF HealthInv, TypeOK, IsBlacklisted
<1>6. blacklist'[ip] = blacklist[ip] - 1
  BY <1>5 DEF Tick
<1>7. ASSUME NEW age \in Ages, fails'[ip][age] > 0
      PROVE  blacklist'[ip] + age >= Cooldown
  <2>1. age # 0
    BY <1>1, <1>7, OlderType, HealthAssumption
  <2>2. age \in 1..(Window - 1) /\ age - 1 \in Ages
    BY <2>1, HealthAssumption DEF Ages
  <2>3. fails[ip][age - 1] > 0
    BY <1>1, <1>7, <2>2, OlderType
  <2>4. blacklist[ip] + (age - 1) >= Cooldown
    BY <1>4, <2>2, <2>3 DEF Outlived
  <2> QED
    BY <1>5, <1>6, <2>2, <2>4, HealthAssumption
<1> QED
  BY <1>7 DEF Outlived

LEMMA HealthStep ==
    ASSUME HealthInv, [Next]_vars
    PROVE  HealthInv'
<1>1. TypeOK'
  BY TypeStep DEF HealthInv
<1> SUFFICES ASSUME NEW ip \in IP, faults' = 0, Failures(ip)' >= Threshold
             PROVE  Recording(ip)' \/ Outlived(ip)'
  BY <1>1 DEF HealthInv
<1>2. faults = 0 /\ ~Fault
  <2>1. faults \in Nat
    BY DEF HealthInv, TypeOK
  <2> QED
    BY <2>1 DEF Next, vars, Tick, Step, ProcessRequest, CountFailures, Setex,
        GoodResponse, Captcha, Failed, Finish, Zadd, SelectForHost,
        UsePreselected, RefusePreselected, Restart, Fault
(* Nothing about this address's keys changes, and its recordings go on.    *)
<1>3. ASSUME fails'[ip] = fails[ip], blacklist'[ip] = blacklist[ip],
             Recording(ip) => Recording(ip)'
      PROVE  Recording(ip)' \/ Outlived(ip)'
  <2>1. Failures(ip) >= Threshold
    BY <1>3 DEF Failures
  <2>2. CASE Recording(ip)
    BY <1>3, <2>2
  <2>3. CASE Outlived(ip)
    BY <1>3, <2>3 DEF Outlived
  <2> QED
    BY <1>2, <2>1, <2>2, <2>3 DEF HealthInv
<1>4. \A v \in Worker : call[v] # Idle => call[v] \in Calls
  BY DEF HealthInv, TypeOK, Calls
<1>5. DOMAIN call = Worker /\ DOMAIN fails = IP /\ DOMAIN blacklist = IP
  BY DEF HealthInv, TypeOK
<1>6. CASE Tick
  BY <1>6, TickKeeps
<1>7. CASE UNCHANGED <<fails, blacklist, call>>
  BY <1>3, <1>7 DEF Recording
<1>8. ASSUME NEW w \in Worker, CountFailures(w)
      PROVE  Recording(ip)' \/ Outlived(ip)'
  <2>1. /\ UNCHANGED <<fails, blacklist>>
        /\ call' = [call EXCEPT ![w] = IF ReachesThreshold(@.ip)
                                         THEN Record("blacklist", @.ip)
                                         ELSE Idle]
    BY <1>2, <1>8 DEF CountFailures, store
  <2>2. ReachesThreshold(ip)
    BY <2>1 DEF ReachesThreshold, Failures
  <2>3. ASSUME NEW v \in Worker, call[v] # Idle, call[v].ip = ip
        PROVE  call'[v] # Idle /\ call'[v].ip = ip
    <3>1. CASE v = w
      <4>1. call'[w] = Record("blacklist", ip)
        BY <1>5, <2>1, <2>2, <2>3, <3>1
      <4> QED
        BY <3>1, <4>1 DEF Record, Idle
    <3>2. CASE v # w
      BY <1>5, <2>1, <2>3, <3>2
    <3> QED
      BY <3>1, <3>2
  <2> QED
    BY <1>3, <2>1, <2>3 DEF Recording
<1>9. ASSUME NEW w \in Worker, Setex(w)
      PROVE  Recording(ip)' \/ Outlived(ip)'
  <2>1. /\ fails' = fails
        /\ blacklist' = [blacklist EXCEPT ![call[w].ip] = Cooldown]
        /\ call' = [call EXCEPT ![w] = Idle]
    BY <1>2, <1>9 DEF Setex
  <2>2. CASE call[w].ip = ip
    <3>1. blacklist'[ip] = Cooldown
      BY <1>5, <2>1, <2>2
    <3> QED
      BY <3>1, HealthAssumption DEF Outlived, Ages
  <2>3. CASE call[w].ip # ip
    <3>1. blacklist'[ip] = blacklist[ip]
      BY <1>5, <2>1, <2>3
    <3>2. Recording(ip) => Recording(ip)'
      BY <1>5, <2>1, <2>3 DEF Recording
    <3> QED
      BY <1>3, <2>1, <3>1, <3>2
  <2> QED
    BY <2>2, <2>3
(* A recording begins, on a worker that had none.                          *)
<1>10. ASSUME NEW w \in Worker, call[w] = Idle, NEW i \in IP, NEW s,
              call' = [call EXCEPT ![w] = Record(s, i)]
       PROVE  (Recording(ip) => Recording(ip)') /\ Recording(i)'
  <2>1. call'[w] # Idle /\ call'[w].ip = i
    BY <1>5, <1>10 DEF Record, Idle
  <2>2. \A v \in Worker : v # w => call'[v] = call[v]
    BY <1>5, <1>10
  <2> QED
    BY <1>10, <2>1, <2>2 DEF Recording
<1>11. ASSUME NEW w \in Worker, NEW i \in IP, GoodResponse(w, i)
       PROVE  Recording(ip)' \/ Outlived(ip)'
  <2>1. /\ fails' = [fails EXCEPT ![i] = NoFailure]
        /\ UNCHANGED <<blacklist, call>>
    BY <1>2, <1>11 DEF GoodResponse, Finish
  <2>2. i # ip
    <3>1. NoFailure \in [Ages -> 0..Threshold]
      BY HealthAssumption DEF NoFailure, Ages
    <3>2. Cardinality(Members(NoFailure)) \in Nat
      BY <3>1, MembersFinite
    <3>3. i = ip => Failures(ip)' = Cardinality(Members(NoFailure))
      BY <1>5, <2>1 DEF Failures
    <3> QED
      BY <3>2, <3>3, NoFailureCounts, HealthAssumption
  <2> QED
    BY <1>3, <1>5, <2>1, <2>2 DEF Recording
<1>12. ASSUME NEW w \in Worker, NEW i \in IP, Captcha(w, i)
       PROVE  Recording(ip)' \/ Outlived(ip)'
  BY <1>3, <1>10, <1>12 DEF Captcha, Finish
<1>13. ASSUME NEW w \in Worker, call[w] = Idle, NEW i \in IP, Zadd(w, i),
              UNCHANGED blacklist
       PROVE  Recording(ip)' \/ Outlived(ip)'
  <2>1. /\ fails' = [fails EXCEPT ![i][0] = Capped(@ + 1)]
        /\ call' = [call EXCEPT ![w] = Record("count", i)]
    BY <1>2, <1>13 DEF Zadd
  <2>2. (Recording(ip) => Recording(ip)') /\ Recording(i)'
    BY <1>10, <1>13, <2>1
  <2>3. i # ip => fails'[ip] = fails[ip]
    BY <1>5, <2>1
  <2> QED
    BY <1>3, <1>13, <2>2, <2>3
<1>14. ASSUME NEW w \in Worker, NEW i \in IP,
              Failed(w, i) \/ RefusePreselected(w, i)
       PROVE  Recording(ip)' \/ Outlived(ip)'
  BY <1>13, <1>14 DEF Failed, Finish, RefusePreselected, HandOut
<1>15. ASSUME NEW w \in Worker, NEW i \in IP,
              SelectForHost(w, i) \/ UsePreselected(w, i)
       PROVE  UNCHANGED <<fails, blacklist, call>>
  BY <1>15 DEF SelectForHost, UsePreselected, store
<1>16. ~ \E w \in Worker : Restart(w)
  BY <1>2 DEF Restart
<1>17. CASE UNCHANGED vars
  BY <1>7, <1>17 DEF vars, store
<1> QED
  BY <1>6, <1>7, <1>8, <1>9, <1>11, <1>12, <1>14, <1>15, <1>16, <1>17
  DEF Next, Step, ProcessRequest

LEMMA HealthInvariant == Spec => []HealthInv
<1> QED
  BY HealthInit, HealthStep, PTL DEF Spec

(* FR-003 and user story 1, scenario 2 of spec 001: an address that has    *)
(* failed Threshold times within the window is blacklisted, or a worker is *)
(* in the middle of recording it, however the workers' Redis calls         *)
(* interleave, unless a call failed or a worker restarted.                 *)
THEOREM ThresholdLeadsToCooldown == Spec => []ThresholdMeansCooldown
<1>1. HealthInv => ThresholdMeansCooldown
  BY OutlivedIsBlacklisted DEF HealthInv, ThresholdMeansCooldown, Recording
<1> QED
  BY <1>1, HealthInvariant, PTL
=============================================================================
