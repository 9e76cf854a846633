-------------------------- MODULE OttoEngineProofs --------------------------
(***************************************************************************)
(* Proofs about OttoEngine, for every number of managers and finders and   *)
(* every history of edits.                                                 *)
(***************************************************************************)
EXTENDS OttoEngine, TLAPS

(* History is behind the script, and a manager that is loading has found   *)
(* the engine stopped and keeps it so.                                     *)
InOrder ==
    /\ last <= script
    /\ \A m \in Managers : seen[m] <= script
    /\ \A m \in Managers : mpc[m] \in {"load", "publish"} => vm = NilVM
    /\ \A m \in Managers : mpc[m] = "publish" => loaded[m] \in last..script

BeforeReturn == ManagerStates \ {"startReport", "idle"}

(* A manager whose Reload has found, or left, the engine stopped.          *)
PastStop(m) ==
    op[m] = "reload" /\ (mpc[m] \notin {"stopCheck", "stopLock", "idle"} \/ outcome[m] = "ok")

(* From then on, whoever publishes loaded the script after that Reload was *)
(* called.                                                                 *)
SeenFromStop ==
    /\ \A m \in Managers : mpc[m] \in BeforeReturn => outcome[m] = "none"
    /\ \A m \in Managers : PastStop(m) /\ vm # NilVM => vm >= seen[m]
    /\ \A m, n \in Managers : PastStop(m) /\ mpc[n] = "publish" => loaded[n] >= seen[m]

(* The inductive invariant.                                                *)
IInv == TypeOK /\ OneInside /\ InOrder /\ SeenFromStop

LEMMA InitInv ==
    ASSUME EngineAssumption, Init
    PROVE  IInv
<1>1. TypeOK
  <2>1. 0 \in Versions
    BY DEF EngineAssumption, Versions
  <2> QED BY <2>1 DEF Init, TypeOK, ManagerStates
<1>2. OneInside
  BY DEF EngineAssumption, Init, OneInside
<1>3. InOrder
  BY DEF Init, InOrder
<1>4. SeenFromStop
  BY DEF Init, SeenFromStop, PastStop, BeforeReturn
<1> QED BY <1>1, <1>2, <1>3, <1>4 DEF IInv

LEMMA TypeStep ==
    ASSUME EngineAssumption, TypeOK, OneInside, [Next]_engineVars
    PROVE  TypeOK'
<1> USE DEF TypeOK, ManagerStates, Versions, NilVM, Panicked, Pending, Goto, finderVars, managerVars
<1>1. CASE Edit
  BY <1>1 DEF Edit, EngineAssumption
<1>2. ASSUME NEW m \in Managers, NEW call \in {"start", "stop", "reload"}, CallManager(m, call)
      PROVE  TypeOK'
  BY <1>2 DEF CallManager, Entry
<1>3. ASSUME NEW m \in Managers, StopCheck(m) \/ StopLocked(m) \/ StopReport(m)
      PROVE  TypeOK'
  BY <1>3 DEF StopCheck, StopLocked, StopReport
<1>4. ASSUME NEW m \in Managers, StartCheck(m) \/ StartLocked(m)
      PROVE  TypeOK'
  BY <1>4 DEF StartCheck, StartLocked
<1>5. ASSUME NEW m \in Managers, Load(m) \/ LoadFails(m)
      PROVE  TypeOK'
  BY <1>5 DEF Load, LoadFails
<1>6. ASSUME NEW m \in Managers, Publish(m) \/ StartReport(m)
      PROVE  TypeOK'
  <2>1. CASE Publish(m)
    <3>1. loaded[m] \in Versions
      OBVIOUS
    <3> QED BY <2>1, <3>1 DEF Publish
  <2>2. CASE StartReport(m)
    BY <2>2 DEF StartReport
  <2> QED BY <1>6, <2>1, <2>2
<1>7. ASSUME NEW f \in Finders, CallFind(f) \/ FindStep(f)
      PROVE  TypeOK'
  <2>1. CASE CallFind(f)
    BY <2>1 DEF CallFind
  <2>2. CASE LockFind(f)
    BY <2>2 DEF LockFind
  <2>3. CASE FindReturns(f)
    BY <2>3 DEF FindReturns
  <2>4. CASE FindPanics(f)
    BY <2>4 DEF FindPanics
  <2> QED BY <1>7, <2>1, <2>2, <2>3, <2>4 DEF FindStep
<1>8. CASE UNCHANGED engineVars
  BY <1>8 DEF engineVars
<1> QED BY <1>1, <1>2, <1>3, <1>4, <1>5, <1>6, <1>7, <1>8 DEF Next, ManagerStep

(* Nobody enters a write section while somebody is inside.                 *)
LEMMA InsideStep ==
    ASSUME EngineAssumption, IInv, [Next]_engineVars
    PROVE  OneInside'
<1> USE DEF IInv, TypeOK, OneInside, EngineAssumption, ManagerStates, Versions, NilVM, Goto, finderVars, managerVars
<1>1. CASE Edit
  BY <1>1 DEF Edit
<1>2. ASSUME NEW m \in Managers, NEW call \in {"start", "stop", "reload"}, CallManager(m, call)
      PROVE  OneInside'
  BY <1>2 DEF CallManager, Entry
<1>3. ASSUME NEW m \in Managers, StopCheck(m)
      PROVE  OneInside'
  BY <1>3 DEF StopCheck
<1>4. ASSUME NEW m \in Managers, StopLocked(m)
      PROVE  OneInside'
  BY <1>4 DEF StopLocked
<1>5. ASSUME NEW m \in Managers, StopReport(m)
      PROVE  OneInside'
  BY <1>5 DEF StopReport
<1>6. ASSUME NEW m \in Managers, StartCheck(m)
      PROVE  OneInside'
  BY <1>6 DEF StartCheck
<1>7. ASSUME NEW m \in Managers, StartLocked(m)
      PROVE  OneInside'
  BY <1>7 DEF StartLocked
<1>8. ASSUME NEW m \in Managers, Load(m)
      PROVE  OneInside'
  BY <1>8 DEF Load
<1>9. ASSUME NEW m \in Managers, LoadFails(m)
      PROVE  OneInside'
  BY <1>9 DEF LoadFails
<1>10. ASSUME NEW m \in Managers, Publish(m)
      PROVE  OneInside'
  BY <1>10 DEF Publish
<1>11. ASSUME NEW m \in Managers, StartReport(m)
      PROVE  OneInside'
  BY <1>11 DEF StartReport
<1>12. ASSUME NEW f \in Finders, CallFind(f)
      PROVE  OneInside'
  BY <1>12 DEF CallFind
<1>13. ASSUME NEW f \in Finders, LockFind(f)
      PROVE  OneInside'
  BY <1>13 DEF LockFind
<1>14. ASSUME NEW f \in Finders, FindReturns(f)
      PROVE  OneInside'
  BY <1>14 DEF FindReturns
<1>15. ASSUME NEW f \in Finders, FindPanics(f)
      PROVE  OneInside'
  BY <1>15 DEF FindPanics
<1>16. CASE UNCHANGED engineVars
  BY <1>16 DEF engineVars
<1> QED BY <1>1, <1>2, <1>3, <1>4, <1>5, <1>6, <1>7, <1>8, <1>9, <1>10, <1>11, <1>12, <1>13, <1>14, <1>15, <1>16
        DEF Next, ManagerStep, FindStep

(* Loading happens inside a write section, so versions cannot cross.       *)
LEMMA OrderStep ==
    ASSUME EngineAssumption, IInv, [Next]_engineVars
    PROVE  InOrder'
<1> USE DEF IInv, TypeOK, OneInside, InOrder, EngineAssumption, ManagerStates, Versions, NilVM, Goto, finderVars, managerVars
<1>1. CASE Edit
  BY <1>1 DEF Edit
<1>2. ASSUME NEW m \in Managers, NEW call \in {"start", "stop", "reload"}, CallManager(m, call)
      PROVE  InOrder'
  BY <1>2 DEF CallManager, Entry
<1>3. ASSUME NEW m \in Managers, StopCheck(m)
      PROVE  InOrder'
  BY <1>3 DEF StopCheck
<1>4. ASSUME NEW m \in Managers, StopLocked(m)
      PROVE  InOrder'
  BY <1>4 DEF StopLocked
<1>5. ASSUME NEW m \in Managers, StopReport(m)
      PROVE  InOrder'
  BY <1>5 DEF StopReport
<1>6. ASSUME NEW m \in Managers, StartCheck(m)
      PROVE  InOrder'
  BY <1>6 DEF StartCheck
<1>7. ASSUME NEW m \in Managers, StartLocked(m)
      PROVE  InOrder'
  BY <1>7 DEF StartLocked
<1>8. ASSUME NEW m \in Managers, Load(m)
      PROVE  InOrder'
  BY <1>8 DEF Load
<1>9. ASSUME NEW m \in Managers, LoadFails(m)
      PROVE  InOrder'
  BY <1>9 DEF LoadFails
<1>10. ASSUME NEW m \in Managers, Publish(m)
      PROVE  InOrder'
  BY <1>10 DEF Publish
<1>11. ASSUME NEW m \in Managers, StartReport(m)
      PROVE  InOrder'
  BY <1>11 DEF StartReport
<1>12. ASSUME NEW f \in Finders, CallFind(f)
      PROVE  InOrder'
  BY <1>12 DEF CallFind
<1>13. ASSUME NEW f \in Finders, LockFind(f)
      PROVE  InOrder'
  BY <1>13 DEF LockFind
<1>14. ASSUME NEW f \in Finders, FindReturns(f)
      PROVE  InOrder'
  BY <1>14 DEF FindReturns
<1>15. ASSUME NEW f \in Finders, FindPanics(f)
      PROVE  InOrder'
  BY <1>15 DEF FindPanics
<1>16. CASE UNCHANGED engineVars
  BY <1>16 DEF engineVars
<1> QED BY <1>1, <1>2, <1>3, <1>4, <1>5, <1>6, <1>7, <1>8, <1>9, <1>10, <1>11, <1>12, <1>13, <1>14, <1>15, <1>16
        DEF Next, ManagerStep, FindStep

(* Whatever is published after a Reload's Stop was read after its call.    *)
LEMMA SeenStep ==
    ASSUME EngineAssumption, IInv, [Next]_engineVars
    PROVE  SeenFromStop'
<1> USE DEF IInv, TypeOK, OneInside, InOrder, SeenFromStop, PastStop, BeforeReturn, EngineAssumption, ManagerStates, Versions, NilVM, Goto, finderVars, managerVars
<1>1. CASE Edit
  BY <1>1 DEF Edit
<1>2. ASSUME NEW m \in Managers, NEW call \in {"start", "stop", "reload"}, CallManager(m, call)
      PROVE  SeenFromStop'
  BY <1>2 DEF CallManager, Entry
<1>3. ASSUME NEW m \in Managers, StopCheck(m)
      PROVE  SeenFromStop'
  BY <1>3 DEF StopCheck
<1>4. ASSUME NEW m \in Managers, StopLocked(m)
      PROVE  SeenFromStop'
  BY <1>4 DEF StopLocked
<1>5. ASSUME NEW m \in Managers, StopReport(m)
      PROVE  SeenFromStop'
  BY <1>5 DEF StopReport
<1>6. ASSUME NEW m \in Managers, StartCheck(m)
      PROVE  SeenFromStop'
  BY <1>6 DEF StartCheck
<1>7. ASSUME NEW m \in Managers, StartLocked(m)
      PROVE  SeenFromStop'
  BY <1>7 DEF StartLocked
<1>8. ASSUME NEW m \in Managers, Load(m)
      PROVE  SeenFromStop'
  BY <1>8 DEF Load
<1>9. ASSUME NEW m \in Managers, LoadFails(m)
      PROVE  SeenFromStop'
  BY <1>9 DEF LoadFails
<1>10. ASSUME NEW m \in Managers, Publish(m)
      PROVE  SeenFromStop'
  BY <1>10 DEF Publish
<1>11. ASSUME NEW m \in Managers, StartReport(m)
      PROVE  SeenFromStop'
  BY <1>11 DEF StartReport
<1>12. ASSUME NEW f \in Finders, CallFind(f)
      PROVE  SeenFromStop'
  BY <1>12 DEF CallFind
<1>13. ASSUME NEW f \in Finders, LockFind(f)
      PROVE  SeenFromStop'
  BY <1>13 DEF LockFind
<1>14. ASSUME NEW f \in Finders, FindReturns(f)
      PROVE  SeenFromStop'
  BY <1>14 DEF FindReturns
<1>15. ASSUME NEW f \in Finders, FindPanics(f)
      PROVE  SeenFromStop'
  BY <1>15 DEF FindPanics
<1>16. CASE UNCHANGED engineVars
  BY <1>16 DEF engineVars
<1> QED BY <1>1, <1>2, <1>3, <1>4, <1>5, <1>6, <1>7, <1>8, <1>9, <1>10, <1>11, <1>12, <1>13, <1>14, <1>15, <1>16
        DEF Next, ManagerStep, FindStep

(* The inductive invariant holds throughout.                               *)
THEOREM Invariance == Spec => []IInv
<1>1. Init => IInv
  BY EngineAssumption, InitInv
<1>2. IInv /\ [Next]_engineVars => IInv'
  BY EngineAssumption, TypeStep, InsideStep, OrderStep, SeenStep DEF IInv
<1> QED BY <1>1, <1>2, PTL DEF Spec

(* The types are right.                                                    *)
THEOREM TypeCorrect == Spec => []TypeOK
<1>1. IInv => TypeOK
  BY DEF IInv
<1> QED BY <1>1, Invariance, PTL

(* The mutex excludes, and isStarted tells the truth about the VM.         *)
THEOREM MutualExclusion == Spec => []OneInside
<1>1. IInv => OneInside
  BY DEF IInv
<1> QED BY <1>1, Invariance, PTL

(* A Reload that succeeded, whoever else started and stopped the engine    *)
(* meanwhile, left no older script running than the one it was called for. *)
THEOREM ReloadIsSeen == Spec => []ReloadSeesEdit
<1>1. IInv => ReloadSeesEdit
  BY DEF IInv, SeenFromStop, PastStop, ReloadSeesEdit
<1> QED BY <1>1, Invariance, PTL

(* No Start overwrites a newer VM with an older one.                       *)
THEOREM PublishedInOrder == Spec => []PublishesInOrder
<1>1. IInv => PublishesInOrder
  BY DEF IInv, InOrder, PublishesInOrder
<1> QED BY <1>1, Invariance, PTL
=============================================================================
