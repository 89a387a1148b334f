-------------------------- MODULE IdleClaimsProofs --------------------------
(***************************************************************************)
(* The executor whose claims look for idle entries, in the order of the    *)
(* stream, is an executor of FetchQueue: what is proved of FetchQueue,     *)
(* which lets XAUTOCLAIM hand over anything that is pending, holds for it, *)
(* with any idle time, any pace of the loops and any poisoned entries.     *)
(***************************************************************************)
EXTENDS IdleClaims, DeliveryProofs

(* Idle times only restrict which entries are claimed, and when.           *)
LEMMA TimedStepIsAStep == [TimedNext]_timed => [Next]_vars
<1> SUFFICES ASSUME [TimedNext]_timed PROVE [Next]_vars
  OBVIOUS
<1>1. CASE UNCHANGED timed
  BY <1>1 DEF timed
<1>2. CASE Tick
  BY <1>2 DEF Tick
<1>3. ASSUME NEW w \in Worker, Process(w) \/ Loop(w) \/ Pipeline(w)
      PROVE  Next
  BY <1>3 DEF Next
<1>4. ASSUME NEW w \in Worker, ReadOn(w)
      PROVE  Next
  <2>1. ReclaimScanned(w) => ReclaimPending(w)
    BY DEF ReclaimScanned
  <2>2. FindNothing(w) => NothingToClaim(w)
    BY DEF FindNothing
  <2>3. Read(w)
    BY <1>4, <2>1, <2>2 DEF ReadOn, Read
  <2> QED
    BY <2>3 DEF Next
<1>5. ASSUME NEW w \in Worker, NEW c \in flight[w], AnswerTo(w, c)
      PROVE  Next
  BY <1>5 DEF AnswerTo, Next
<1> QED
  BY <1>1, <1>2, <1>3, <1>4, <1>5 DEF TimedNext

THEOREM IdleClaimsImplementFetchQueue == TimedSpec => Spec
<1>1. TimedInit => Init
  BY DEF TimedInit
<1> QED
  BY <1>1, TimedStepIsAStep, PTL DEF TimedSpec, Spec

(* The executor's promise: entries that stay idle behind poisoned ones, and *)
(* entries that many workers claim in turn, are never lost, and go through *)
(* the steps of CommandLedger.                                             *)
THEOREM IdleClaimsKeepThePromise ==
    TimedSpec => []NoLostCommand /\ ImplementsLedger
BY IdleClaimsImplementFetchQueue, NoCommandIsLost, Refinement, PTL

(* The retry budget is granted, whoever claims an entry and however often. *)
THEOREM IdleClaimsGrantBudgets ==
    ASSUME CountIsHonest
    PROVE  TimedSpec => []BudgetNeverCutShort
<1>1. Spec => []BudgetNeverCutShort
  BY BudgetsAreGranted
<1> QED
  BY <1>1, IdleClaimsImplementFetchQueue, PTL
=============================================================================
