---------------------------- MODULE PolicyProofs ----------------------------
(***************************************************************************)
(* TLAPS proofs about RuntimePolicy and CommandGate: for any set of policy *)
(* documents and commands, any reload interval, any number of replacements *)
(* of the file and any setting back of the clock.                          *)
(***************************************************************************)
EXTENDS CommandGate, TLAPS

(***************************************************************************)
(* The provider.  A check is over when current() has returned from it; the *)
(* file is unchanged since before the last check when it is quieter than   *)
(* the check is old.                                                       *)
(***************************************************************************)
Checking == running /\ call # "stat"
Unchanged == quiet > age + lag

(* Only documents that passed validation, and the settings', are served;   *)
(* without a last-known-good document it is the settings'.                 *)
Serving ==
    /\ doc = Bootstrap \/ Accepts(doc)
    /\ lkg = {} => doc = Bootstrap

(* The modification time is that of a check, and a known one means the     *)
(* document in force is the file's.                                        *)
Remembered ==
    /\ seenMtime <= mtime /\ statMtime <= mtime
    /\ seenMtime = mtime => doc = content /\ Accepts(content) /\ lkg # {}

(* What the last result says of the file and of the document in force.     *)
LastCheck ==
    Checking /\ result # "bootstrap" /\ Unchanged =>
        /\ result \in Failure <=> ~Accepts(content)
        /\ result \notin Failure => doc = content

(* A process that has not checked yet is due, however the clock is set     *)
(* back; inside current() the last check is recent.                        *)
Timing ==
    /\ age + lag >= 0
    /\ result = "bootstrap" => lkg = {}
    /\ Checking /\ result = "bootstrap" => age + lag >= LongAgo
    /\ call # "none" => running /\ age < Interval
    /\ call = "returned" => result # "bootstrap"

PolicyInv == TypeOK /\ Serving /\ Remembered /\ LastCheck /\ Timing

(* The provider's steps, alone or as part of the gate's.                   *)
ProviderStep ==
    \/ Tick \/ SetBack \/ ReplaceFile \/ Restart
    \/ NotDueYet \/ StatFile \/ ReadFile \/ ReadRaises
    \/ Decide /\ running' \in {running, FALSE}

(* The settings' document is valid. *)
LEMMA BootstrapAccepted == Accepts(Bootstrap)
BY PolicyAssumption DEF Accepts, SupportedTypes

(* _handle_failure changes nothing in the document that is served.         *)
LEMMA FailureKeeps ==
    ASSUME TypeOK, Serving, NEW r, HandleFailure(r)
    PROVE  /\ doc' = doc /\ lkg' = lkg /\ seenMtime' = seenMtime
           /\ result' = r /\ call' = "returned"
BY DEF TypeOK, Serving, HandleFailure

(* The initial state satisfies the invariant. *)
LEMMA PolicyInit == Init => PolicyInv
BY PolicyAssumption
   DEF Init, PolicyInv, TypeOK, Serving, Remembered, LastCheck, Timing,
       Checking, Unchanged, LongAgo, Result

(* Every step keeps it. *)
LEMMA PolicyStep == PolicyInv /\ [ProviderStep]_vars => PolicyInv'
<1> SUFFICES ASSUME PolicyInv, [ProviderStep]_vars
             PROVE  PolicyInv'
  OBVIOUS
<1> USE PolicyAssumption
    DEF PolicyInv, TypeOK, Serving, Remembered, LastCheck, Timing, Checking,
        Unchanged, LongAgo, file, clock, provider
<1>1. CASE Tick
  BY <1>1 DEF Tick
<1>2. CASE SetBack
  BY <1>2 DEF SetBack
<1>3. CASE ReplaceFile
  BY <1>3 DEF ReplaceFile
<1>4. CASE Restart
  BY <1>4, BootstrapAccepted DEF Restart, Result
<1>5. CASE NotDueYet
  BY <1>5 DEF NotDueYet, CheckDue
<1>6. CASE StatFile
  BY <1>6, FailureKeeps DEF StatFile, CheckDue, Result, Failure, Accepts
<1>7. CASE ReadFile
  <2>1. UNCHANGED <<file, clock, running>> /\ statMtime' = -1 /\ call = "stat"
    BY <1>7 DEF ReadFile
  <2>2. CASE Accepts(content)
    <3>1. /\ doc' = content /\ lkg' = {content} /\ seenMtime' = statMtime
          /\ result' = "success" /\ call' = "returned"
      BY <1>7, <2>2 DEF ReadFile
    <3> QED
      BY <2>1, <2>2, <3>1 DEF Result, Failure
  <2>3. ASSUME ~Accepts(content), NEW r \in Failure, HandleFailure(r)
        PROVE  PolicyInv'
    <3>1. /\ doc' = doc /\ lkg' = lkg /\ seenMtime' = seenMtime
          /\ result' = r /\ call' = "returned"
      BY <2>3, FailureKeeps
    <3> QED
      BY <2>1, <2>3, <3>1 DEF Result, Failure
  <2> QED
    BY <1>7, <2>2, <2>3 DEF ReadFile, Failure
<1>8. CASE ReadRaises
  BY <1>8 DEF ReadRaises
<1>9. CASE Decide /\ running' \in {running, FALSE}
  BY <1>9 DEF Decide
<1>10. CASE UNCHANGED vars
  BY <1>10 DEF vars
<1> QED
  BY <1>1, <1>2, <1>3, <1>4, <1>5, <1>6, <1>7, <1>8, <1>9, <1>10 DEF ProviderStep

(* Every step of the gate is one of the provider's or leaves it alone. *)
LEMMA GateStepsProvider == [GateNext]_gateVars => [ProviderStep]_vars
BY DEF GateNext, gateVars, GateTick, GateSetBack, GateReplaceFile, GateRestart,
       Current, Arrive, Drain, Resend, Conclude, BuildOrDelay, Skip,
       StartRequest, DelayCommand, NoPool, ProviderStep

(* So is every step of the provider alone. *)
LEMMA NextStepsProvider == [Next]_vars => [ProviderStep]_vars
BY DEF Next, World, Current, Decide, ProviderStep, vars

(* The invariant of the provider, alone and under the gate. *)
LEMMA ProviderInvariant == Spec => []PolicyInv
BY PolicyInit, PolicyStep, NextStepsProvider, PTL DEF Spec

LEMMA GatedProviderInvariant == GateSpec => []PolicyInv
<1>1. GateInit => PolicyInv
  BY PolicyInit DEF GateInit
<1>2. PolicyInv /\ [GateNext]_gateVars => PolicyInv'
  BY PolicyStep, GateStepsProvider
<1> QED
  BY <1>1, <1>2, PTL DEF GateSpec

(* FR-004, FR-018: lkg_active tells the truth about a file that was not    *)
(* replaced since before the last check, whatever happened earlier.        *)
THEOREM FlagIsTruthful == GateSpec => []LkgFlagTruthful
<1>1. PolicyInv => LkgFlagTruthful
  BY DEF PolicyInv, Timing, LastCheck, Checking, Unchanged, LkgFlagTruthful,
         IsLkgActive
<1> QED
  BY <1>1, GatedProviderInvariant, PTL

(* FR-004: the document in force gives way only to the file's own, or is   *)
(* lost with the process.                                                  *)
LEMMA KeepsStep ==
    ASSUME PolicyInv, [ProviderStep]_vars, lkg # {}, doc' # doc
    PROVE  doc' = content \/ (lkg' = {} /\ doc' = Bootstrap)
<1> USE DEF PolicyInv, file, clock, provider
<1>1. CASE StatFile \/ ReadFile
  BY <1>1, FailureKeeps DEF StatFile, ReadFile
<1>2. CASE Restart
  BY <1>2 DEF Restart
<1> QED
  BY <1>1, <1>2 DEF ProviderStep, vars, Tick, SetBack, ReplaceFile, NotDueYet,
                    ReadRaises, Decide

THEOREM PolicyIsKept == GateSpec => LastKnownGoodKept
<1>1. PolicyInv /\ [GateNext]_gateVars =>
        [lkg # {} /\ doc' # doc =>
            doc' = content \/ (lkg' = {} /\ doc' = Bootstrap)]_vars
  BY KeepsStep, GateStepsProvider
<1> QED
  BY <1>1, GatedProviderInvariant, PTL DEF GateSpec, LastKnownGoodKept

(* When current() has returned, the last check is recent: a file quiet for *)
(* the reload interval, the seconds the clock went back included, has been *)
(* read since it was written.                                              *)
LEMMA ReturnsFresh ==
    ASSUME PolicyInv, call = "returned", quiet >= Interval + lag, Accepts(content)
    PROVE  doc = content
<1>1. age < Interval /\ running /\ result # "bootstrap"
  BY DEF PolicyInv, Timing
<1>2. quiet > age + lag
  BY <1>1, PolicyAssumption DEF PolicyInv, TypeOK, LongAgo
<1> QED
  BY <1>1, <1>2 DEF PolicyInv, LastCheck, Checking, Unchanged

(* User story 1 of spec 007: a valid policy on disk for the reload         *)
(* interval is the one every decision is taken from.                       *)
THEOREM FreshDecisions == GateSpec => DecisionsAreFresh
<1>1. PolicyInv =>
        [Decide /\ quiet >= Interval + lag /\ Accepts(content)
            => doc = content]_vars
  BY ReturnsFresh DEF Decide
<1> QED
  BY <1>1, GatedProviderInvariant, PTL DEF DecisionsAreFresh

(***************************************************************************)
(* The gate.  A held command keeps its shape; one that was sent was sent   *)
(* at least once.                                                          *)
(***************************************************************************)
HeldCommand ==
    [stage : {"delayed", "sent"}, command : Command, left : SUBSET Int,
     due : Int, sends : 0..(RetryTimes + 1)]

Holding ==
    /\ held \in [Message -> {Absent} \cup HeldCommand]
    /\ \A g \in Message : held[g].stage = "sent" => held[g].sends > 0

(* While the operators may count on a document, it is in force and is the  *)
(* last known good one, and no other valid document is on disk.            *)
Ordering ==
    ordered # {} =>
        /\ ordered = {doc} /\ lkg = {doc}
        /\ Accepts(content) => content = doc

GateInv == PolicyInv /\ own \in Strategy /\ Holding /\ Ordering

(* Only the gate's own decisions and the retries touch a held command, and *)
(* time moves its deadlines.                                               *)
LEMMA ShiftedKeeps ==
    ASSUME NEW h \in {Absent} \cup HeldCommand, NEW step \in {-1, 1}
    PROVE  /\ Shifted(h, step) \in {Absent} \cup HeldCommand
           /\ Shifted(h, step).stage = h.stage
           /\ h # Absent => /\ Shifted(h, step) # Absent
                            /\ Shifted(h, step).command = h.command
                            /\ Shifted(h, step).sends = h.sends
<1>1. CASE h = Absent
  BY <1>1 DEF Shifted, Absent
<1>2. CASE h \in HeldCommand
  <2> DEFINE left == {Moved(n, step) : n \in h.left}
             due == Moved(h.due, step)
  <2>1. h.stage # "absent" /\ h.due \in Int /\ h.left \subseteq Int
    BY <1>2 DEF HeldCommand
  <2>2. \A n \in Int : Moved(n, step) \in Int
    BY DEF Moved
  <2>3. left \in SUBSET Int /\ due \in Int
    BY <2>1, <2>2
  <2>4. Shifted(h, step) = [h EXCEPT !.left = left, !.due = due]
    BY <1>2, <2>1 DEF Shifted, HeldCommand
  <2> HIDE DEF left, due
  <2>5. /\ [h EXCEPT !.left = left, !.due = due] \in HeldCommand
        /\ [h EXCEPT !.left = left, !.due = due].stage = h.stage
        /\ [h EXCEPT !.left = left, !.due = due].command = h.command
        /\ [h EXCEPT !.left = left, !.due = due].sends = h.sends
    BY <1>2, <2>3 DEF HeldCommand
  <2>6. \A x \in HeldCommand : x # Absent
    BY DEF HeldCommand, Absent
  <2> QED
    BY <2>4, <2>5, <2>6
<1> QED
  BY <1>1, <1>2

(* What the gate may make of the command in place g.                       *)
LEMMA GateOutcomes ==
    ASSUME NEW g \in Message, NEW m \in Command, NEW left \in SUBSET Int,
           held \in [Message -> {Absent} \cup HeldCommand],
           BuildOrDelay(g, m, left)
    PROVE  /\ Decide /\ running' \in {running, FALSE}
           /\ ordered' = Relied /\ own' = own
           /\ \/ held' = [held EXCEPT ![g] = Absent]
              \/ /\ ~SkipsPaused(g, m) /\ ~SkipsExpired(g, left)
                 /\ \/ held' = [held EXCEPT ![g] = Held("sent", m, left, 0, 1)]
                    \/ \E d \in Delay :
                         held' = [held EXCEPT ![g] = Held("delayed", m, left, d, 0)]
BY DEF BuildOrDelay, Skip, StartRequest, DelayCommand, NoPool

(* The commands that come to the gate, from the stream or from the buffer. *)
LEMMA GateInputs ==
    ASSUME GateInv, NEW g \in Message, Arrive(g) \/ Drain(g)
    PROVE  \E m \in Command, left \in SUBSET Int : BuildOrDelay(g, m, left)
<1>1. CASE Arrive(g)
  <2>1. \A n \in TimeLeft : {n} \in SUBSET Int
    BY GateAssumption
  <2>2. \A left \in Deadlines : left \in SUBSET Int
    BY <2>1 DEF Deadlines
  <2> QED
    BY <1>1, <2>2 DEF Arrive
<1>2. CASE Drain(g)
  <2>1. held[g] \in HeldCommand
    BY <1>2 DEF Drain, GateInv, Holding, Absent
  <2> QED
    BY <1>2, <2>1 DEF Drain, HeldCommand
<1> QED
  BY <1>1, <1>2

(* The records the gate writes are held commands. *)
LEMMA HeldIsCommand ==
    ASSUME NEW m \in Command, NEW left \in SUBSET Int
    PROVE  /\ Held("sent", m, left, 0, 1) \in HeldCommand
           /\ \A d \in Delay : Held("delayed", m, left, d, 0) \in HeldCommand
BY GateAssumption DEF Held, HeldCommand

(* What a held command can become in one step.                             *)
LEMMA HoldingStep ==
    ASSUME GateInv, [GateNext]_gateVars
    PROVE  Holding'
<1> USE DEF GateInv, Holding
<1>1. ASSUME NEW g \in Message, Arrive(g) \/ Drain(g)
      PROVE  Holding'
  <2>1. PICK m \in Command, left \in SUBSET Int : BuildOrDelay(g, m, left)
    BY <1>1, GateInputs
  <2>2. \E h \in {Absent} \cup HeldCommand :
          held' = [held EXCEPT ![g] = h] /\ (h.stage = "sent" => h.sends > 0)
    <3>1. /\ Absent.stage # "sent"
          /\ Held("sent", m, left, 0, 1).sends > 0
          /\ \A d \in Delay : Held("delayed", m, left, d, 0).stage # "sent"
      BY DEF Held, Absent
    <3>2. \/ held' = [held EXCEPT ![g] = Absent]
          \/ held' = [held EXCEPT ![g] = Held("sent", m, left, 0, 1)]
          \/ \E d \in Delay :
               held' = [held EXCEPT ![g] = Held("delayed", m, left, d, 0)]
      BY <2>1, GateOutcomes
    <3> QED
      BY <3>1, <3>2, HeldIsCommand, Zenon
  <2> QED
    BY <2>2
<1>2. ASSUME NEW g \in Message, Resend(g) \/ Conclude(g)
      PROVE  Holding'
  <2>1. held[g] \in HeldCommand
    BY <1>2 DEF Resend, Conclude, Absent
  <2>2. CASE Conclude(g)
    BY <2>2 DEF Conclude, Absent
  <2>3. CASE Resend(g)
    <3> DEFINE n == held[g].sends + 1
               h == [held[g] EXCEPT !.sends = n]
    <3>1. n \in 1..(RetryTimes + 1)
      BY <2>1, <2>3, GateAssumption DEF Resend, HeldCommand
    <3>2. held' = [held EXCEPT ![g] = h]
      BY <2>3 DEF Resend
    <3> HIDE DEF n
    <3>3. h \in HeldCommand /\ h.sends = n
      BY <2>1, <3>1 DEF HeldCommand
    <3> HIDE DEF h
    <3> QED
      BY <3>1, <3>2, <3>3
  <2> QED
    BY <1>2, <2>2, <2>3
<1>3. ASSUME NEW step \in {-1, 1},
             held' = [g \in Message |-> Shifted(held[g], step)]
      PROVE  Holding'
  <2>1. \A g \in Message :
          /\ held'[g] \in {Absent} \cup HeldCommand
          /\ held'[g].stage = held[g].stage
          /\ held[g] # Absent => held'[g].sends = held[g].sends
    BY <1>3, ShiftedKeeps
  <2>2. \A g \in Message : held'[g].stage = "sent" => held'[g].sends > 0
    BY <2>1 DEF Absent
  <2> QED
    BY <1>3, <2>1, <2>2
<1>4. CASE GateTick
  BY <1>3, <1>4 DEF GateTick
<1>5. CASE GateSetBack
  BY <1>3, <1>5 DEF GateSetBack
<1>6. CASE GateRestart
  BY <1>6 DEF GateRestart, Absent
<1>7. CASE GateReplaceFile \/ (Current /\ UNCHANGED <<own, held, ordered>>)
           \/ UNCHANGED gateVars
  BY <1>7 DEF GateReplaceFile, gateVars
<1> QED
  BY <1>1, <1>2, <1>4, <1>5, <1>6, <1>7 DEF GateNext

(* The document the operators count on stays in force until it is replaced *)
(* by a valid one or the process ends.                                     *)
LEMMA OrderingStep ==
    ASSUME GateInv, [GateNext]_gateVars
    PROVE  Ordering'
<1> USE DEF GateInv, PolicyInv, Ordering, file, clock, provider
<1>1. ASSUME NEW g \in Message, Arrive(g) \/ Drain(g)
      PROVE  Ordering'
  <2>1. Decide /\ ordered' = Relied
    BY <1>1, GateInputs, GateOutcomes DEF Holding
  <2>2. UNCHANGED <<doc, lkg, content>>
    BY <2>1 DEF Decide
  <2>3. CASE quiet >= Interval + lag /\ Accepts(content)
    <3>1. doc = content /\ doc # Bootstrap /\ ordered' = {content}
      BY <2>1, <2>3, ReturnsFresh DEF Decide, Relied, TypeOK
    <3> QED
      BY <2>2, <3>1 DEF TypeOK, Serving
  <2>4. CASE ~(quiet >= Interval + lag /\ Accepts(content))
    BY <2>1, <2>2, <2>4 DEF Relied
  <2> QED
    BY <2>3, <2>4
<1>2. ASSUME UNCHANGED <<ordered, doc, lkg, content>>
      PROVE  Ordering'
  BY <1>2
<1>3. ASSUME NEW g \in Message, Resend(g) \/ Conclude(g)
      PROVE  Ordering'
  BY <1>2, <1>3 DEF Resend, Conclude, vars
<1>4. CASE GateTick \/ GateSetBack
  BY <1>2, <1>4 DEF GateTick, GateSetBack, Tick, SetBack
<1>5. CASE GateReplaceFile
  BY <1>5 DEF GateReplaceFile, ReplaceFile, Accepts
<1>6. CASE GateRestart
  BY <1>6 DEF GateRestart
<1>7. ASSUME Current, UNCHANGED ordered
      PROVE  Ordering'
  <2>1. CASE NotDueYet \/ ReadRaises
    BY <1>2, <1>7, <2>1 DEF NotDueYet, ReadRaises
  <2>2. CASE StatFile
    <3>1. UNCHANGED <<doc, lkg, content>>
      BY <2>2, FailureKeeps DEF StatFile
    <3> QED
      BY <1>2, <1>7, <3>1
  <2>3. CASE ReadFile
    <3>1. UNCHANGED content
      BY <2>3 DEF ReadFile
    <3>2. CASE Accepts(content)
      <4>1. doc' = content /\ lkg' = {content}
        BY <2>3, <3>2 DEF ReadFile
      <4> QED
        BY <1>7, <3>1, <3>2, <4>1
    <3>3. CASE ~Accepts(content)
      <4>1. UNCHANGED <<doc, lkg>>
        BY <2>3, <3>3, FailureKeeps DEF ReadFile
      <4> QED
        BY <1>2, <1>7, <3>1, <4>1
    <3> QED
      BY <3>2, <3>3
  <2> QED
    BY <1>7, <2>1, <2>2, <2>3 DEF Current
<1>8. CASE UNCHANGED gateVars
  BY <1>2, <1>8 DEF gateVars, vars
<1> QED
  BY <1>1, <1>3, <1>4, <1>5, <1>6, <1>7, <1>8 DEF GateNext

(* GateInv is inductive. *)
LEMMA GateInvariant == GateSpec => []GateInv
<1>1. GateInit => GateInv
  BY PolicyInit DEF GateInit, GateInv, Holding, Ordering, Absent
<1>2. GateInv /\ [GateNext]_gateVars => GateInv'
  <2> SUFFICES ASSUME GateInv, [GateNext]_gateVars
               PROVE  GateInv'
    OBVIOUS
  <2>1. PolicyInv'
    BY PolicyStep, GateStepsProvider DEF GateInv
  <2>2. own' \in Strategy
    <3>1. ASSUME NEW g \in Message, Arrive(g) \/ Drain(g)
          PROVE  own' = own
      BY <3>1, GateInputs, GateOutcomes DEF GateInv, Holding
    <3> QED
      BY <3>1 DEF GateInv, GateNext, gateVars, GateTick, GateSetBack,
                  GateReplaceFile, GateRestart, Resend, Conclude
  <2> QED
    BY <2>1, <2>2, HoldingStep, OrderingStep DEF GateInv
<1> QED
  BY <1>1, <1>2, PTL DEF GateSpec

(* Shapes of the gate and of the provider under it. *)
THEOREM GateTypeCorrect == GateSpec => []GateTypeOK
<1>1. GateInv => GateTypeOK
  BY DEF GateInv, PolicyInv, Holding, Ordering, HeldCommand, GateTypeOK, TypeOK
<1> QED
  BY <1>1, GateInvariant, PTL

(* A decision lets the command m in place g pass.                          *)
Passes(g, m, left) ==
    /\ Decide /\ ordered' = Relied
    /\ ~SkipsPaused(g, m) /\ ~SkipsExpired(g, left)
    /\ \/ held'[g] = Held("sent", m, left, 0, 1)
       \/ \E d \in Delay : held'[g] = Held("delayed", m, left, d, 0)

(* The record it leaves. *)
LEMMA PassedFields ==
    ASSUME NEW g \in Message, NEW m, NEW left, Passes(g, m, left)
    PROVE  held'[g].command = m /\ held'[g].left = left
<1>1. ASSUME NEW stage, NEW due, NEW sends
      PROVE  /\ Held(stage, m, left, due, sends).command = m
             /\ Held(stage, m, left, due, sends).left = left
  BY DEF Held
<1>2. \E stage, due, sends : held'[g] = Held(stage, m, left, due, sends)
  BY Zenon DEF Passes
<1> QED
  BY <1>1, <1>2

(* RetryMiddleware repeats a request.                                      *)
Repeats(g) ==
    /\ held[g] \in HeldCommand /\ held[g].stage = "sent"
    /\ held[g].sends \in 1..RetryTimes
    /\ held'[g].stage = "sent" /\ held'[g].sends = held[g].sends + 1
    /\ call' = call

(* Time passes for it.                                                     *)
Waits(g) ==
    /\ call = "none"
    /\ held'[g].stage = held[g].stage
    /\ held[g] # Absent => held'[g].sends = held[g].sends

(* Everything that can happen to the command in one place.                 *)
LEMMA HeldChanges ==
    ASSUME GateInv, [GateNext]_gateVars, NEW g \in Message
    PROVE  \/ held'[g] = held[g] \/ held'[g] = Absent
           \/ Repeats(g) \/ Waits(g)
           \/ \E m \in Command, left \in SUBSET Int : Passes(g, m, left)
<1> DEFINE Goal == \/ held'[g] = held[g] \/ held'[g] = Absent
                   \/ Repeats(g) \/ Waits(g)
                   \/ \E m \in Command, left \in SUBSET Int : Passes(g, m, left)
<1>0. held \in [Message -> {Absent} \cup HeldCommand]
  BY DEF GateInv, Holding
<1>1. ASSUME NEW f \in Message, Arrive(f) \/ Drain(f)
      PROVE  Goal
  <2>1. PICK m \in Command, left \in SUBSET Int : BuildOrDelay(f, m, left)
    BY <1>1, GateInputs
  <2>2. CASE f = g
    <3>1. \/ held' = [held EXCEPT ![g] = Absent]
          \/ /\ ~SkipsPaused(g, m) /\ ~SkipsExpired(g, left)
             /\ \/ held' = [held EXCEPT ![g] = Held("sent", m, left, 0, 1)]
                \/ \E d \in Delay :
                     held' = [held EXCEPT ![g] = Held("delayed", m, left, d, 0)]
      BY <1>0, <2>1, <2>2, GateOutcomes
    <3>2. Decide /\ ordered' = Relied
      BY <1>0, <2>1, GateOutcomes
    <3>3. held'[g] = Absent \/ Passes(g, m, left)
      BY <1>0, <3>1, <3>2 DEF Passes
    <3> QED
      BY <3>3
  <2>3. CASE f # g
    <3>1. \E h : held' = [held EXCEPT ![f] = h]
      BY <1>0, <2>1, GateOutcomes
    <3> QED
      BY <1>0, <2>3, <3>1
  <2> QED
    BY <2>2, <2>3
<1>2. ASSUME NEW f \in Message, Conclude(f)
      PROVE  Goal
  BY <1>0, <1>2 DEF Conclude
<1>3. ASSUME NEW f \in Message, Resend(f)
      PROVE  Goal
  <2>1. CASE f = g
    <3>1. held[g] \in HeldCommand /\ held[g].stage = "sent"
      BY <1>0, <1>3, <2>1 DEF Resend, Absent
    <3>2. held[g].sends \in 1..RetryTimes
      BY <1>3, <2>1, <3>1, GateAssumption DEF Resend, HeldCommand, GateInv, Holding
    <3>3. held'[g] = [held[g] EXCEPT !.sends = held[g].sends + 1]
      BY <1>0, <1>3, <2>1 DEF Resend
    <3>4. held'[g].stage = "sent" /\ held'[g].sends = held[g].sends + 1
      BY <3>1, <3>3 DEF HeldCommand
    <3> QED
      BY <1>3, <3>1, <3>2, <3>4 DEF Resend, Repeats, vars
  <2>2. CASE f # g
    BY <1>0, <1>3, <2>2 DEF Resend
  <2> QED
    BY <2>1, <2>2
<1>4. ASSUME NEW step \in {-1, 1}, call = "none",
             held' = [f \in Message |-> Shifted(held[f], step)]
      PROVE  Goal
  BY <1>0, <1>4, ShiftedKeeps DEF Waits
<1>5. CASE GateTick \/ GateSetBack
  BY <1>4, <1>5 DEF GateTick, GateSetBack, Tick, SetBack
<1>6. CASE GateRestart
  BY <1>6 DEF GateRestart
<1>7. CASE GateReplaceFile \/ (Current /\ UNCHANGED <<own, held, ordered>>)
           \/ UNCHANGED gateVars
  BY <1>7 DEF GateReplaceFile, gateVars
<1> QED
  BY <1>1, <1>2, <1>3, <1>5, <1>6, <1>7 DEF GateNext

(* A start is a decision's: its command was not paused in the document in  *)
(* force, and no other document may be counted on.                         *)
LEMMA PauseStep ==
    ASSUME GateInv, [GateNext]_gateVars, NEW g \in Message, Starts(g),
           NEW d \in ordered'
    PROVE  ~IsPaused(PolicyFor(d, held'[g].command))
<1>0. /\ held[g].stage # "sent"
      /\ held'[g].stage = "sent" /\ held'[g].sends = 1
  BY DEF Starts, Sends, GateInv, Holding
<1>1. PICK m \in Command, left \in SUBSET Int : Passes(g, m, left)
  <2>1. held'[g] # held[g] /\ held'[g] # Absent
    BY <1>0 DEF Absent
  <2>2. ~Repeats(g) /\ ~Waits(g)
    BY <1>0 DEF Repeats, Waits
  <2> QED
    BY <2>1, <2>2, HeldChanges, Zenon
<1>2. held'[g].command = m
  BY <1>1, PassedFields
<1>3. d = doc
  <2>1. CASE quiet >= Interval + lag /\ Accepts(content)
    BY <1>1, <2>1, ReturnsFresh DEF Passes, Relied, Decide, GateInv
  <2>2. CASE ~(quiet >= Interval + lag /\ Accepts(content))
    BY <1>1, <2>2 DEF Passes, Relied, GateInv, Ordering
  <2> QED
    BY <2>1, <2>2
<1> QED
  BY <1>1, <1>2, <1>3 DEF Passes, SkipsPaused

(* Spec 007: a pause that has been decided on holds for every start of its *)
(* scope, delayed commands and broken files included.                      *)
THEOREM PausesHold == GateSpec => PauseHolds
<1>1. GateInv /\ [GateNext]_gateVars =>
        [\A g \in Message : Starts(g) =>
           \A d \in ordered' : ~IsPaused(PolicyFor(d, held'[g].command))]_gateVars
  BY PauseStep
<1> QED
  BY <1>1, GateInvariant, PTL DEF GateSpec, PauseHolds

(* A send after the deadline is a repetition, and within RETRY_TIMES.      *)
LEMMA DeadlineStep ==
    ASSUME GateInv, [GateNext]_gateVars, NEW g \in Message,
           Sends(g)' > Sends(g), Expired(held'[g].left)
    PROVE  Sends(g) > 0 /\ Sends(g)' <= RetryTimes + 1
<1>0. Sends(g) \in Nat /\ (held[g].stage = "sent" => Sends(g) = held[g].sends)
  BY GateAssumption DEF Sends, GateInv, Holding, HeldCommand, Absent
<1>1. CASE Repeats(g)
  BY <1>0, <1>1, GateAssumption DEF Repeats, Sends
<1>2. CASE held'[g] = held[g]
  BY <1>0, <1>2 DEF Sends
<1>3. CASE held'[g] = Absent
  BY <1>0, <1>3 DEF Sends, Absent
<1>4. CASE Waits(g)
  BY <1>0, <1>4 DEF Waits, Sends, Absent
<1>5. ASSUME NEW m \in Command, NEW left \in SUBSET Int, Passes(g, m, left)
      PROVE  FALSE
  <2>1. held'[g].left = left
    BY <1>5, PassedFields
  <2> QED
    BY <1>5, <2>1 DEF Passes, SkipsExpired
<1> QED
  BY <1>1, <1>2, <1>3, <1>4, <1>5, HeldChanges

(* User story 4 of spec 007: no first request after the deadline.          *)
THEOREM DeadlinesBound == GateSpec => DeadlineBoundsFirstSend
<1>1. GateInv /\ [GateNext]_gateVars =>
        [\A g \in Message :
           Sends(g)' > Sends(g) /\ Expired(held'[g].left) =>
             Sends(g) > 0 /\ Sends(g)' <= RetryTimes + 1]_gateVars
  BY DeadlineStep
<1> QED
  BY <1>1, GateInvariant, PTL DEF GateSpec, DeadlineBoundsFirstSend

(***************************************************************************)
(* Scopes.                                                                 *)
(***************************************************************************)

(* decide_policy: in a validated document the most specific entry of a     *)
(* command is the one that applies, whatever other entries the document    *)
(* has and in whatever order.                                              *)
LEMMA MostSpecificApplies ==
    ASSUME NEW c \in Content, Accepts(c), NEW m,
           NEW i \in DOMAIN Scopes[c], NEW k \in DOMAIN ScopeMatchOrder,
           Matches(c, i, m, k),
           \A j \in DOMAIN Scopes[c], l \in DOMAIN ScopeMatchOrder :
               Matches(c, j, m, l) => k <= l
    PROVE  PolicyFor(c, m) = Scopes[c][i].policy @@ Default[c]
<1>0. /\ DOMAIN Scopes[c] \subseteq Int
      /\ DOMAIN ScopeMatchOrder \subseteq Int
  <2>1. DOMAIN Scopes[c] = 1..Len(Scopes[c])
    BY PolicyAssumption
  <2>2. DOMAIN ScopeMatchOrder = 1..5
    BY DEF ScopeMatchOrder
  <2> QED
    BY <2>1, <2>2
<1>1. \A j \in DOMAIN Scopes[c] : Matches(c, j, m, k) => j = i
  BY DEF Matches, Accepts
<1>2. Applies(c, i, m)
  <2> SUFFICES ASSUME NEW j \in DOMAIN Scopes[c],
                      NEW l \in DOMAIN ScopeMatchOrder, Matches(c, j, m, l)
               PROVE  k < l \/ (k = l /\ j <= i)
    BY DEF Applies
  <2>1. k <= l
    OBVIOUS
  <2>2. k = l => j = i
    BY <1>1
  <2> QED
    BY <1>0, <2>1, <2>2
<1>3. ASSUME NEW j \in DOMAIN Scopes[c], Applies(c, j, m)
      PROVE  j = i
  <2>1. PICK l \in DOMAIN ScopeMatchOrder :
          /\ Matches(c, j, m, l)
          /\ l < k \/ (l = k /\ i <= j)
    BY <1>3 DEF Applies
  <2>2. k <= l
    BY <2>1
  <2>3. l = k
    BY <1>0, <2>1, <2>2
  <2> QED
    BY <1>1, <2>1, <2>3
<1>4. (CHOOSE j \in DOMAIN Scopes[c] : Applies(c, j, m)) = i
  BY <1>2, <1>3
<1> QED
  BY <1>2, <1>4 DEF PolicyFor

(* FR-009, FR-007 of spec 007: for any validated document and any command, *)
(* a pause of the most specific scope stops the command.                   *)
LEMMA ScopeStep ==
    ASSUME GateInv, [GateNext]_gateVars, NEW g \in Message,
           Decide, held'[g] # held[g], held'[g].stage # "absent",
           NEW i \in DOMAIN Scopes[doc], NEW k \in DOMAIN ScopeMatchOrder,
           Matches(doc, i, held'[g].command, k),
           \A j \in DOMAIN Scopes[doc], l \in DOMAIN ScopeMatchOrder :
               Matches(doc, j, held'[g].command, l) => k <= l
    PROVE  ~IsPaused(Scopes[doc][i].policy @@ Default[doc])
<1>0. call = "returned" /\ call' = "none"
  BY DEF Decide
<1>1. PICK m \in Command, left \in SUBSET Int : Passes(g, m, left)
  BY <1>0, HeldChanges DEF Repeats, Waits, Absent
<1>2. held'[g].command = m
  BY <1>1, PassedFields
<1>3. doc \in Content /\ Accepts(doc)
  BY BootstrapAccepted DEF GateInv, PolicyInv, TypeOK, Serving
<1>4. PolicyFor(doc, m) = Scopes[doc][i].policy @@ Default[doc]
  BY <1>2, <1>3, MostSpecificApplies
<1> QED
  BY <1>1, <1>4 DEF Passes, SkipsPaused

THEOREM ScopePausesAreHonoured == GateSpec => ScopePauseHonoured
<1>1. GateInv /\ [GateNext]_gateVars =>
        [\A g \in Message :
           Decide /\ held'[g] # held[g] /\ held'[g].stage # "absent" =>
             \A i \in DOMAIN Scopes[doc], k \in DOMAIN ScopeMatchOrder :
               /\ Matches(doc, i, held'[g].command, k)
               /\ \A j \in DOMAIN Scopes[doc], l \in DOMAIN ScopeMatchOrder :
                    Matches(doc, j, held'[g].command, l) => k <= l
               => ~IsPaused(Scopes[doc][i].policy @@ Default[doc])]_gateVars
  BY ScopeStep
<1> QED
  BY <1>1, GateInvariant, PTL DEF GateSpec, ScopePauseHonoured

=============================================================================
