--------------------------- MODULE BinanceOpenProofs ---------------------------
(***************************************************************************)
(* Machine-checked proofs about BinanceOpen, for every quantity, every       *)
(* position the account may already have, and any number of refused or lost  *)
(* requests and interrupts.                                                 *)
(*                                                                         *)
(* The argument follows the executor: what is known of the entry depends on  *)
(* the request that comes next (Accounted), and once the entry is complete   *)
(* nothing but the flattening and the stops can change the position          *)
(* (Protected, Undoing).                                                    *)
(***************************************************************************)
EXTENDS BinanceOpen, TLAPS

BeforeEntry == {"prepare", "limit"}
Resting     == {"poll", "wait", "cancelPoll", "cancelCtx", "cancelRest"}
AfterEntry  == ProtectSteps \cup RollbackSteps

\* The entry is over: the whole quantity is in, and no order of it is open.
EntryComplete == entered = Quantity /\ ~LimitOpen

\* What has been filled, told by the step.
Accounted ==
  /\ entered <= Quantity
  /\ LimitOpen => entered = limit.executed
  /\ limit.status = "filled" => limit.executed = Quantity
  /\ pc \in BeforeEntry =>
       limit.status = "none" /\ limit.executed = 0 /\ entered = 0 /\ seen = 0
  /\ pc \in Resting => limit.status # "none" /\ entered = limit.executed
  /\ pc = "market" => ~LimitOpen /\ entered = seen
  /\ pc \in AfterEntry \/ answer = "success" => EntryComplete

\* A position is covered from the moment its stop is placed until it is rolled back.
Protected ==
  /\ pc \in EntrySteps \cup {"stop"} => ~stop /\ ~target
  /\ pc = "target" => ~target /\ (position > 0 => stop)
  /\ pc = "rbStop" => (target => lost > 0)
  /\ pc \in {"rbEntry", "rbRead", "rbFlatten"} \/ answer = "failure" =>
       (stop \/ target => lost > 0 \/ "rbStop" \in failed)
  /\ answer = "success" => (position > 0 => stop /\ target)

\* What has gone wrong so far, and what a failed open then leaves.
Undoing ==
  /\ pc \in EntrySteps => failed \subseteq EntrySteps
  /\ pc = "rbFlatten" => position <= amount
  /\ answer # "none" => pc = "returned"
  /\ answer = "failure" =>
       \/ failed \subseteq EntrySteps
       \/ failed \cap {"rbRead", "rbFlatten"} # {}
       \/ position = 0 /\ ~LimitOpen
  /\ answer # "none" /\ LimitOpen =>
       failed \cap {"limit", "cancelPoll", "cancelCtx", "cancelRest"} # {}

IInv == TypeOK /\ Accounted /\ Protected /\ Undoing
-----------------------------------------------------------------------------
LEMMA InitIsIInv == Init => IInv
<1> SUFFICES ASSUME Init PROVE IInv
  OBVIOUS
<1>1. TypeOK
  <2>1. limit \in Orders /\ position \in Nat /\ seen \in 0..Quantity
    BY OpenAssumption DEF Init, Orders
  <2>2. pc \in Steps /\ failed \in SUBSET Steps
    BY DEF Init, Steps, EntrySteps
  <2> QED
    BY <2>1, <2>2 DEF Init, TypeOK
<1>2. Accounted
  BY OpenAssumption DEF Init, Accounted, LimitOpen, BeforeEntry, Resting, AfterEntry,
     ProtectSteps, RollbackSteps
<1>3. Protected
  BY DEF Init, Protected, EntrySteps
<1>4. Undoing
  BY DEF Init, Undoing, EntrySteps, LimitOpen
<1> QED
  BY <1>1, <1>2, <1>3, <1>4 DEF IInv
-----------------------------------------------------------------------------
(* Each part of the invariant is kept by every step.                          *)

LEMMA RequestIsTyped ==
  ASSUME TypeOK, Answered \/ Undone
  PROVE  failed' \in SUBSET Steps /\ refused' \in Nat /\ lost' \in Nat
<1>1. CASE Answered
  BY <1>1 DEF Answered, faults, TypeOK
<1>2. CASE Undone
  <2>1. failed' = failed \cup {pc}
    BY <1>2 DEF Undone, Refuse, Lose, NotSent
  <2>2. refused' \in Nat /\ lost' \in Nat
    BY <1>2 DEF Undone, Refuse, Lose, NotSent, TypeOK
  <2> QED
    BY <2>1, <2>2 DEF TypeOK
<1> QED
  BY <1>1, <1>2

LEMMA ControlIsTyped ==
  ASSUME Execute
  PROVE  pc' \in Steps /\ (UNCHANGED answer \/ answer' \in {"success", "failure"})
  BY DEF Execute, Prepare, PlaceLimit, AfterLostLimit, Poll, WaitOver, Wait, AfterDone,
     CancelAfterPoll, CancelAfterDone, CancelRest, Executed, PlaceMarket, PlaceStop,
     AfterLostStop, PlaceTarget, AfterLostTarget, RollbackStop, RollbackEntry,
     RollbackRead, RollbackFlatten, Flattened, ToFlatten, Return, Goto, Steps,
     EntrySteps, ProtectSteps, RollbackSteps, Ended

LEMMA TypeOKKept ==
  ASSUME IInv, [Next]_vars PROVE TypeOK'
<1> USE OpenAssumption DEF IInv, TypeOK, account, executor, faults, LimitOpen, LimitEnded,
       Enter,
       Answered, Undone, Refuse, Lose, NotSent, Execute, Orders, Steps, Ended
<1>1. CASE Prepare
  BY <1>1, ControlIsTyped, RequestIsTyped DEF Prepare
<1>2. CASE PlaceLimit
  BY <1>2, ControlIsTyped, RequestIsTyped DEF PlaceLimit, AfterLostLimit
<1>3. CASE Poll
  BY <1>3, ControlIsTyped, RequestIsTyped DEF Poll, WaitOver
<1>4. CASE Wait
  BY <1>4, ControlIsTyped DEF Wait, AfterDone
<1>5. CASE CancelAfterPoll
  BY <1>5, ControlIsTyped, RequestIsTyped DEF CancelAfterPoll
<1>6. CASE CancelAfterDone
  BY <1>6, ControlIsTyped DEF CancelAfterDone
<1>7. CASE CancelRest
  BY <1>7, ControlIsTyped, RequestIsTyped DEF CancelRest, Executed
<1>8. CASE PlaceMarket
  BY <1>8, ControlIsTyped, RequestIsTyped DEF PlaceMarket, Enter
<1>9. CASE PlaceStop
  BY <1>9, ControlIsTyped, RequestIsTyped DEF PlaceStop, AfterLostStop
<1>10. CASE PlaceTarget
  BY <1>10, ControlIsTyped, RequestIsTyped DEF PlaceTarget, AfterLostTarget
<1>11. CASE RollbackStop
  BY <1>11, ControlIsTyped, RequestIsTyped DEF RollbackStop
<1>12. CASE RollbackEntry
  BY <1>12, ControlIsTyped, RequestIsTyped DEF RollbackEntry
<1>13. CASE RollbackRead
  BY <1>13, ControlIsTyped, RequestIsTyped DEF RollbackRead
<1>14. CASE RollbackFlatten
  BY <1>14, ControlIsTyped, RequestIsTyped DEF RollbackFlatten, Flattened, ToFlatten
<1>15. CASE DeadlinePasses
  BY <1>15 DEF DeadlinePasses
<1>16. CASE CallerGone
  BY <1>16 DEF CallerGone
<1>17. CASE Killed
  BY <1>17 DEF Killed
<1>18. CASE Fill
  BY <1>18 DEF Fill, Enter
<1>19. CASE Expire
  BY <1>19 DEF Expire
<1>20. CASE StopHit
  BY <1>20 DEF StopHit
<1>21. CASE TargetHit
  BY <1>21 DEF TargetHit
<1>22. CASE UNCHANGED vars
  BY <1>22 DEF vars
<1> QED
  BY <1>1, <1>2, <1>3, <1>4, <1>5, <1>6, <1>7, <1>8, <1>9, <1>10, <1>11, <1>12, <1>13,
     <1>14, <1>15, <1>16, <1>17, <1>18, <1>19, <1>20, <1>21, <1>22
     DEF Next, Execute, Exchange

LEMMA AccountedKept ==
  ASSUME IInv, [Next]_vars PROVE Accounted'
<1> USE OpenAssumption DEF IInv, TypeOK, account, executor, faults, Return, Goto,
       LimitOpen, LimitEnded, Accounted,
       Answered, Undone, Refuse, Lose, NotSent, EntrySteps, ProtectSteps, RollbackSteps,
       Ended,
       BeforeEntry, Resting, AfterEntry, EntryComplete, Orders
<1>1. CASE Prepare
  BY <1>1 DEF Prepare
<1>2. CASE PlaceLimit
  BY <1>2 DEF PlaceLimit, AfterLostLimit
<1>3. CASE Poll
  BY <1>3 DEF Poll, WaitOver
<1>4. CASE Wait
  BY <1>4 DEF Wait, AfterDone
<1>5. CASE CancelAfterPoll
  BY <1>5 DEF CancelAfterPoll
<1>6. CASE CancelAfterDone
  BY <1>6 DEF CancelAfterDone
<1>7. CASE CancelRest
  BY <1>7 DEF CancelRest, Executed
<1>8. CASE PlaceMarket
  BY <1>8 DEF PlaceMarket, Enter
<1>9. CASE PlaceStop
  BY <1>9 DEF PlaceStop, AfterLostStop
<1>10. CASE PlaceTarget
  BY <1>10 DEF PlaceTarget, AfterLostTarget
<1>11. CASE RollbackStop
  BY <1>11 DEF RollbackStop
<1>12. CASE RollbackEntry
  BY <1>12 DEF RollbackEntry
<1>13. CASE RollbackRead
  BY <1>13 DEF RollbackRead
<1>14. CASE RollbackFlatten
  BY <1>14 DEF RollbackFlatten, Flattened, ToFlatten
<1>15. CASE DeadlinePasses
  BY <1>15 DEF DeadlinePasses
<1>16. CASE CallerGone
  BY <1>16 DEF CallerGone
<1>17. CASE Killed
  BY <1>17 DEF Killed
<1>18. CASE Fill
  BY <1>18 DEF Fill, Enter
<1>19. CASE Expire
  BY <1>19 DEF Expire
<1>20. CASE StopHit
  BY <1>20 DEF StopHit
<1>21. CASE TargetHit
  BY <1>21 DEF TargetHit
<1>22. CASE UNCHANGED vars
  BY <1>22 DEF vars
<1> QED
  BY <1>1, <1>2, <1>3, <1>4, <1>5, <1>6, <1>7, <1>8, <1>9, <1>10, <1>11, <1>12, <1>13,
     <1>14, <1>15, <1>16, <1>17, <1>18, <1>19, <1>20, <1>21, <1>22
     DEF Next, Execute, Exchange

LEMMA ProtectedKept ==
  ASSUME IInv, [Next]_vars PROVE Protected'
<1> USE OpenAssumption DEF IInv, TypeOK, account, executor, faults, Return, Goto,
       LimitOpen, LimitEnded, Protected, Accounted,
       Undoing, Answered, Undone, Refuse, Lose, NotSent, EntrySteps, ProtectSteps,
       RollbackSteps, Ended,
       BeforeEntry, Resting, AfterEntry, EntryComplete, Orders
<1>1. CASE Prepare
  BY <1>1 DEF Prepare
<1>2. CASE PlaceLimit
  BY <1>2 DEF PlaceLimit, AfterLostLimit
<1>3. CASE Poll
  BY <1>3 DEF Poll, WaitOver
<1>4. CASE Wait
  BY <1>4 DEF Wait, AfterDone
<1>5. CASE CancelAfterPoll
  BY <1>5 DEF CancelAfterPoll
<1>6. CASE CancelAfterDone
  BY <1>6 DEF CancelAfterDone
<1>7. CASE CancelRest
  BY <1>7 DEF CancelRest, Executed
<1>8. CASE PlaceMarket
  BY <1>8 DEF PlaceMarket, Enter
<1>9. CASE PlaceStop
  BY <1>9 DEF PlaceStop, AfterLostStop
<1>10. CASE PlaceTarget
  BY <1>10 DEF PlaceTarget, AfterLostTarget
<1>11. CASE RollbackStop
  BY <1>11 DEF RollbackStop
<1>12. CASE RollbackEntry
  BY <1>12 DEF RollbackEntry
<1>13. CASE RollbackRead
  BY <1>13 DEF RollbackRead
<1>14. CASE RollbackFlatten
  BY <1>14 DEF RollbackFlatten, Flattened, ToFlatten
<1>15. CASE DeadlinePasses
  BY <1>15 DEF DeadlinePasses
<1>16. CASE CallerGone
  BY <1>16 DEF CallerGone
<1>17. CASE Killed
  BY <1>17 DEF Killed
<1>18. CASE Fill
  BY <1>18 DEF Fill, Enter
<1>19. CASE Expire
  BY <1>19 DEF Expire
<1>20. CASE StopHit
  BY <1>20 DEF StopHit
<1>21. CASE TargetHit
  BY <1>21 DEF TargetHit
<1>22. CASE UNCHANGED vars
  BY <1>22 DEF vars
<1> QED
  BY <1>1, <1>2, <1>3, <1>4, <1>5, <1>6, <1>7, <1>8, <1>9, <1>10, <1>11, <1>12, <1>13,
     <1>14, <1>15, <1>16, <1>17, <1>18, <1>19, <1>20, <1>21, <1>22
     DEF Next, Execute, Exchange

LEMMA UndoingKept ==
  ASSUME IInv, [Next]_vars PROVE Undoing'
<1> USE OpenAssumption DEF IInv, TypeOK, account, executor, faults, Return, Goto,
       LimitOpen, LimitEnded, Undoing, Accounted,
       Answered, Undone, Refuse, Lose, NotSent, EntrySteps, ProtectSteps, RollbackSteps,
       Ended,
       BeforeEntry, Resting, AfterEntry, EntryComplete, Orders
<1>1. CASE Prepare
  BY <1>1 DEF Prepare
<1>2. CASE PlaceLimit
  BY <1>2 DEF PlaceLimit, AfterLostLimit
<1>3. CASE Poll
  BY <1>3 DEF Poll, WaitOver
<1>4. CASE Wait
  BY <1>4 DEF Wait, AfterDone
<1>5. CASE CancelAfterPoll
  BY <1>5 DEF CancelAfterPoll
<1>6. CASE CancelAfterDone
  BY <1>6 DEF CancelAfterDone
<1>7. CASE CancelRest
  BY <1>7 DEF CancelRest, Executed
<1>8. CASE PlaceMarket
  BY <1>8 DEF PlaceMarket, Enter
<1>9. CASE PlaceStop
  BY <1>9 DEF PlaceStop, AfterLostStop
<1>10. CASE PlaceTarget
  BY <1>10 DEF PlaceTarget, AfterLostTarget
<1>11. CASE RollbackStop
  BY <1>11 DEF RollbackStop
<1>12. CASE RollbackEntry
  BY <1>12 DEF RollbackEntry
<1>13. CASE RollbackRead
  BY <1>13 DEF RollbackRead
<1>14. CASE RollbackFlatten
  BY <1>14 DEF RollbackFlatten, Flattened, ToFlatten
<1>15. CASE DeadlinePasses
  BY <1>15 DEF DeadlinePasses
<1>16. CASE CallerGone
  BY <1>16 DEF CallerGone
<1>17. CASE Killed
  BY <1>17 DEF Killed
<1>18. CASE Fill
  BY <1>18 DEF Fill, Enter
<1>19. CASE Expire
  BY <1>19 DEF Expire
<1>20. CASE StopHit
  BY <1>20 DEF StopHit
<1>21. CASE TargetHit
  BY <1>21 DEF TargetHit
<1>22. CASE UNCHANGED vars
  BY <1>22 DEF vars
<1> QED
  BY <1>1, <1>2, <1>3, <1>4, <1>5, <1>6, <1>7, <1>8, <1>9, <1>10, <1>11, <1>12, <1>13,
     <1>14, <1>15, <1>16, <1>17, <1>18, <1>19, <1>20, <1>21, <1>22
     DEF Next, Execute, Exchange
-----------------------------------------------------------------------------
\* The inductive invariant of an open holds in every reachable state.
THEOREM OpenInvariant == Spec => []IInv
<1>1. Init => IInv
  BY InitIsIInv
<1>2. IInv /\ [Next]_vars => IInv'
  BY TypeOKKept, AccountedKept, ProtectedKept, UndoingKept DEF IInv
<1> QED
  BY <1>1, <1>2, PTL DEF Spec

\* For every quantity: the limit and the market order never buy more than planned.
THEOREM OpenNeverOverfills == Spec => []NeverOverfilled
<1>1. IInv => NeverOverfilled
  BY DEF IInv, Accounted, NeverOverfilled
<1> QED
  BY <1>1, OpenInvariant, PTL

\* A reported success is a whole entry with a live stop and target.
THEOREM ReportedSuccessIsCovered == Spec => []SuccessIsCovered
<1>1. IInv => SuccessIsCovered
  BY DEF IInv, Accounted, Protected, EntryComplete, SuccessIsCovered
<1> QED
  BY <1>1, OpenInvariant, PTL

\* A rollback that could read and flatten the position leaves nothing.
THEOREM RollbackLeavesNothing == Spec => []RollbackFlattens
<1>1. IInv => RollbackFlattens
  BY DEF IInv, TypeOK, Undoing, RollbackFlattens, EntrySteps, ProtectSteps
<1> QED
  BY <1>1, OpenInvariant, PTL

\* Orphaned protective orders come from lost answers or a cancel that failed.
THEOREM OrphansNeedLostAnswers == Spec => []OrphanNeedsLostAnswer
<1>1. IInv => OrphanNeedsLostAnswer
  BY DEF IInv, Protected, OrphanNeedsLostAnswer
<1> QED
  BY <1>1, OpenInvariant, PTL

\* So what a failed open leaves behind is accounted for.
THEOREM FailuresAreAccountedFor == Spec => []FailureIsAccountedFor
<1>1. RollbackFlattens /\ OrphanNeedsLostAnswer => FailureIsAccountedFor
  BY DEF FailureIsAccountedFor
<1> QED
  BY <1>1, RollbackLeavesNothing, OrphansNeedLostAnswers, PTL

\* After the answer the entry only fills on if the fate of the limit is unknown.
THEOREM LateFillsNeedLostCalls == Spec => LateFillNeedsLostCall
<1> DEFINE Still == answer # "none" /\ failed \cap {"limit", "cancelPoll", "cancelCtx", "cancelRest"} = {}
                      => entered' = entered
<1>1. IInv /\ [Next]_vars => [Still]_vars
  <2> SUFFICES ASSUME IInv, Next, answer # "none",
                      failed \cap {"limit", "cancelPoll", "cancelCtx", "cancelRest"} = {}
               PROVE  entered' = entered
    OBVIOUS
  <2>1. pc = "returned" /\ ~LimitOpen
    BY DEF IInv, Undoing
  <2>2. ~Execute /\ ~Fill
    BY <2>1 DEF Execute, Prepare, PlaceLimit, Poll, Wait, CancelAfterPoll, CancelAfterDone,
       CancelRest, PlaceMarket, PlaceStop, PlaceTarget, RollbackStop, RollbackEntry,
       RollbackRead, RollbackFlatten, Fill
  <2> QED
    BY <2>2 DEF Next, Exchange, Expire, StopHit, TargetHit, DeadlinePasses, CallerGone,
       Killed, account
<1> QED
  BY <1>1, OpenInvariant, PTL DEF Spec, LateFillNeedsLostCall
=============================================================================
