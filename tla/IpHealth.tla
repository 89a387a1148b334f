------------------------------ MODULE IpHealth ------------------------------
(***************************************************************************)
(* The health of the local egress addresses of one host: the blacklist and *)
(* the failure counters that RedisHealthStore keeps in Redis, and the two  *)
(* downloader middlewares of every worker that use them.                   *)
(* LocalIpRotationMiddleware chooses the address of a request or refuses   *)
(* it (IgnoreRequest); IpHealthCheckMiddleware records how it went.        *)
(*                                                                         *)
(* A worker's reactor thread makes its Redis calls one after the other,    *)
(* other workers' calls come in between.  Times are whole units, the calls *)
(* of one recording take none.                                             *)
(*                                                                         *)
(* Left out, because nothing reads it: what the health middleware's store  *)
(* remembers in memory while Redis is away (only the rotation middleware   *)
(* asks is_blacklisted, of a store of its own, whose memory stays empty),  *)
(* the global failure key, and what is recorded under the address "" of a  *)
(* request for which no address was free.                                  *)
(***************************************************************************)
EXTENDS Integers, Sequences, FiniteSets, TLC

CONSTANTS
    Worker,         \* processes that share the Redis state
    Order,          \* the addresses, in the order of the host's bucket
    NoIp,           \* no address chosen yet
    Threshold,      \* IP_FAILURE_THRESHOLD
    Window,         \* IP_FAILURE_WINDOW_SECONDS
    Cooldown,       \* IP_COOLDOWN_SECONDS
    MaxPerUnit,     \* bound: requests handed out in one unit of time
    MaxFaults       \* bound: Redis calls that fail, and restarts

IP == {Order[i] : i \in DOMAIN Order}

ASSUME HealthAssumption ==
    /\ NoIp \notin IP
    /\ Threshold \in Nat \ {0}
    /\ Window \in Nat \ {0}
    /\ Cooldown \in Nat /\ Cooldown >= Window
    /\ MaxPerUnit \in Nat
    /\ MaxFaults \in Nat

VARIABLES
    fails,          \* Redis: failures per age, ages below Window
    blacklist,      \* Redis: what is left of the blacklist key's TTL
    hostIp,         \* the rotation middleware's host_ip_map for the host
    flight,         \* addresses with a request in the downloader
    call,           \* record_failure in progress
    handedOut,      \* requests handed out in this unit of time
    faults          \* Redis calls that have failed, and restarts

store == <<fails, blacklist>>
vars == <<store, hostIp, flight, call, handedOut, faults>>

Idle == [stage |-> "none"]
Record(stage, ip) == [stage |-> stage, ip |-> ip]

(* A count beyond the threshold tells nothing more. *)
Capped(n) == IF n > Threshold THEN Threshold ELSE n
NoFailure == [age \in 0..(Window - 1) |-> 0]
Older(f) == [age \in DOMAIN f |-> IF age = 0 THEN 0 ELSE f[age - 1]]

(* The members of the zset: the n-th failure of an age. *)
Members(f) == {m \in (DOMAIN f) \X (1..Threshold) : m[2] <= f[m[1]]}
Failures(ip) == Cardinality(Members(fails[ip]))

Init ==
    /\ fails = [ip \in IP |-> NoFailure]
    /\ blacklist = [ip \in IP |-> 0]
    /\ hostIp = [w \in Worker |-> NoIp]
    /\ flight = [w \in Worker |-> {}]
    /\ call = [w \in Worker |-> Idle]
    /\ handedOut = 0
    /\ faults = 0

(* Failures leave the zset's window, blacklist keys expire. *)
Tick ==
    /\ \A w \in Worker : call[w] = Idle
    /\ fails' = [ip \in IP |-> Older(fails[ip])]
    /\ blacklist' = [ip \in IP |->
                        IF blacklist[ip] = 0 THEN 0 ELSE blacklist[ip] - 1]
    /\ handedOut' = 0
    /\ UNCHANGED <<hostIp, flight, call, faults>>

Fault == faults < MaxFaults /\ faults' = faults + 1

(* A new process: nothing in memory, nothing in flight. *)
Restart(w) ==
    /\ Fault
    /\ hostIp' = [hostIp EXCEPT ![w] = NoIp]
    /\ flight' = [flight EXCEPT ![w] = {}]
    /\ call' = [call EXCEPT ![w] = Idle]
    /\ UNCHANGED <<store, handedOut>>

-----------------------------------------------------------------------------
(***************************************************************************)
(* RedisHealthStore.record_failure, one Redis call at a time.  A call that *)
(* fails ends the recording.                                               *)
(***************************************************************************)
\* Mutant: the first failure is at the edge of the window already.
ZaddAtWindow(w, ip) ==
    /\ fails' = [fails EXCEPT ![ip] = (Window :> 1) @@ @]
    /\ call' = [call EXCEPT ![w] = Record("count", ip)]
    /\ UNCHANGED faults

Zadd(w, ip) ==
    \/ /\ fails' = [fails EXCEPT ![ip][0] = Capped(@ + 1)]
       /\ call' = [call EXCEPT ![w] = Record("count", ip)]
       /\ UNCHANGED faults
    \/ Fault /\ UNCHANGED <<fails, call>>

\* Mutant: one failure too many.
ReachesThresholdLate(ip) == Failures(ip) > Threshold

ReachesThreshold(ip) == Failures(ip) >= Threshold

(* zremrangebyscore, expire and zcard *)
CountFailures(w) ==
    /\ call[w].stage = "count"
    /\ \/ /\ call' = [call EXCEPT ![w] = IF ReachesThreshold(@.ip)
                                           THEN Record("blacklist", @.ip)
                                           ELSE Idle]
          /\ UNCHANGED faults
       \/ Fault /\ call' = [call EXCEPT ![w] = Idle]
    /\ UNCHANGED <<store, hostIp, flight, handedOut>>

(* setex: a TTL of its own, whatever was left of the old one. *)
Setex(w) ==
    /\ call[w].stage = "blacklist"
    /\ \/ /\ blacklist' = [blacklist EXCEPT ![call[w].ip] = Cooldown]
          /\ UNCHANGED faults
       \/ Fault /\ UNCHANGED blacklist
    /\ call' = [call EXCEPT ![w] = Idle]
    /\ UNCHANGED <<fails, hostIp, flight, handedOut>>

-----------------------------------------------------------------------------
(***************************************************************************)
(* LocalIpRotationMiddleware.process_request.                              *)
(***************************************************************************)
IsBlacklisted(ip) == blacklist[ip] > 0

FirstFree(ip) == \E i \in DOMAIN Order :
    /\ ip = Order[i]
    /\ ~IsBlacklisted(ip)
    /\ \A j \in 1..(i - 1) : IsBlacklisted(Order[j])

\* Mutant: the host keeps its address for ever.
SelectAlways(w, ip) ==
    IF hostIp[w] # NoIp THEN ip = hostIp[w] ELSE FirstFree(ip)

\* Mutant: the host's own address is not asked for first.
SelectFirstFree(w, ip) == FirstFree(ip)

(* _select_sticky: the address the host has, or the first free one. *)
SelectSticky(w, ip) ==
    IF hostIp[w] # NoIp /\ ~IsBlacklisted(hostIp[w]) THEN ip = hostIp[w]
    ELSE FirstFree(ip)

(* An address whose EXISTS fails seems free. *)
SelectBlindly(w, ip) ==
    \/ ip = hostIp[w]
    \/ /\ hostIp[w] \in IP => IsBlacklisted(hostIp[w])
       /\ \E i \in DOMAIN Order :
            ip = Order[i] /\ \A j \in 1..(i - 1) : IsBlacklisted(Order[j])

HandOut(w, ip) ==
    /\ call[w] = Idle
    /\ ip \notin flight[w]
    /\ handedOut < MaxPerUnit
    /\ handedOut' = handedOut + 1

(* A request that has no address yet. *)
SelectForHost(w, ip) ==
    /\ HandOut(w, ip)
    /\ \/ SelectSticky(w, ip) /\ UNCHANGED faults
       \/ SelectBlindly(w, ip) /\ Fault
    /\ hostIp' = [hostIp EXCEPT ![w] = ip]
    /\ flight' = [flight EXCEPT ![w] = @ \cup {ip}]
    /\ UNCHANGED <<store, call>>

(* A request whose address the spider has chosen (STICKY_POOL). *)
UsePreselected(w, ip) ==
    /\ HandOut(w, ip)
    /\ \/ ~IsBlacklisted(ip) /\ UNCHANGED faults
       \/ IsBlacklisted(ip) /\ Fault
    /\ flight' = [flight EXCEPT ![w] = @ \cup {ip}]
    /\ UNCHANGED <<store, hostIp, call>>

(* IgnoreRequest passes through IpHealthCheckMiddleware.process_exception, *)
(* which records a failure of the address that was not used.               *)
RefusePreselected(w, ip) ==
    /\ HandOut(w, ip)
    /\ IsBlacklisted(ip)
    /\ Zadd(w, ip)
    /\ UNCHANGED <<blacklist, hostIp, flight>>

-----------------------------------------------------------------------------
(***************************************************************************)
(* IpHealthCheckMiddleware: the end of a request through address ip.       *)
(***************************************************************************)
Finish(w, ip) ==
    /\ call[w] = Idle
    /\ ip \in flight[w]
    /\ flight' = [flight EXCEPT ![w] = @ \ {ip}]
    /\ UNCHANGED <<blacklist, hostIp, handedOut>>

(* record_success *)
GoodResponse(w, ip) ==
    /\ Finish(w, ip)
    /\ \/ fails' = [fails EXCEPT ![ip] = NoFailure] /\ UNCHANGED faults
       \/ Fault /\ UNCHANGED fails
    /\ UNCHANGED call

(* A captcha page: record_failure with immediate=True. *)
Captcha(w, ip) ==
    /\ Finish(w, ip)
    /\ call' = [call EXCEPT ![w] = Record("blacklist", ip)]
    /\ UNCHANGED <<fails, faults>>

(* A status or an exception that counts as a failure and that              *)
(* RetryMiddleware, which is nearer to the downloader, has given up on: it *)
(* sends the request again through the address in its meta, which by then  *)
(* may be refused, an exception as well.                                   *)
Failed(w, ip) == Finish(w, ip) /\ Zadd(w, ip)

Step(w) ==
    \/ CountFailures(w) \/ Setex(w)
    \/ \E ip \in IP : GoodResponse(w, ip) \/ Captcha(w, ip) \/ Failed(w, ip)

ProcessRequest(w) == \E ip \in IP :
    SelectForHost(w, ip) \/ UsePreselected(w, ip) \/ RefusePreselected(w, ip)

Next == Tick \/ \E w \in Worker : Step(w) \/ ProcessRequest(w) \/ Restart(w)

Spec == Init /\ [][Next]_vars

(* Time passes, a reactor goes on with its recording, and a download ends  *)
(* (DOWNLOAD_TIMEOUT).  Nobody has to send a request.                      *)
LiveSpec == Spec /\ WF_vars(Tick) /\ \A w \in Worker : WF_vars(Step(w))

-----------------------------------------------------------------------------
(***************************************************************************)
(* Properties.                                                             *)
(***************************************************************************)
TypeOK ==
    /\ fails \in [IP -> [0..(Window - 1) -> 0..Threshold]]
    /\ blacklist \in [IP -> 0..Cooldown]
    /\ hostIp \in [Worker -> IP \cup {NoIp}]
    /\ flight \in [Worker -> SUBSET IP]
    /\ call \in [Worker -> {Idle} \cup
                    {Record(s, ip) : s \in {"count", "blacklist"}, ip \in IP}]
    /\ handedOut \in 0..MaxPerUnit
    /\ faults \in 0..MaxFaults

(* FR-003 and user story 1, scenario 2 of spec 001: when a host and an     *)
(* address have failed Threshold times within the window, over all workers *)
(* and however their Redis calls interleave, the address is blacklisted,   *)
(* or some worker is just about to do it; the blacklist key outlives the   *)
(* failures that earned it.  Only a failed call or a restart in the middle *)
(* of a recording may let one through.                                     *)
ThresholdMeansCooldown == \A ip \in IP :
    faults = 0 /\ Failures(ip) >= Threshold =>
        \/ IsBlacklisted(ip)
        \/ \E w \in Worker : call[w] # Idle /\ call[w].ip = ip

(* User story 1, scenario 3: a host keeps its address until the address is *)
(* blacklisted (or the worker restarts, a fault); it does not go back when *)
(* the old address is free again.                                          *)
StickyMapping == [][\A w \in Worker :
    hostIp[w] # NoIp /\ hostIp'[w] # hostIp[w] =>
        IsBlacklisted(hostIp[w]) \/ faults' > faults]_vars

(* FR-003b, first half: nothing but refused requests can keep an address   *)
(* from recovering again and again.                                        *)
RecoversUnlessRefused == \A ip \in IP :
    \/ []<>~IsBlacklisted(ip)
    \/ []<><<\E w \in Worker : RefusePreselected(w, ip)>>_vars

(* FR-003b: a blacklisted address recovers by its TTL, without anybody's   *)
(* doing.  The code does not promise this: see the run blacklist_refresh.  *)
CooldownEnds == \A ip \in IP : []<>~IsBlacklisted(ip)
=============================================================================
