--------------------------- MODULE PacProxyProofs ---------------------------
(***************************************************************************)
(* Proofs about PacProxy, for every number of requests, keys and edits,    *)
(* every cache size and TTL, and every capacity of the signal channel.     *)
(*                                                                         *)
(* The process runs the engine and the cache by their own specifications,  *)
(* so what OttoEngineProofs shows of the engine holds inside the process   *)
(* and is used here.                                                       *)
(***************************************************************************)
EXTENDS PacProxy, TLAPS

EngineFacts == INSTANCE OttoEngineProofs
                 WITH Managers <- {Main, Sig}, Finders <- Requests

CacheFacts == INSTANCE ProxyCacheProofs
                WITH Callers <- Requests, Answers <- Versions,
                     Decide <- [k \in Keys \cup {NoKey} |-> Versions]

-----------------------------------------------------------------------------
(* Each step of the process is a step of its engine, or none.              *)
LEMMA EngineStep == [Next]_vars => [Engine!Next]_(Engine!engineVars)
<1> SUFFICES ASSUME [Next]_vars
             PROVE  Engine!Next \/ UNCHANGED Engine!engineVars
  OBVIOUS
<1> USE DEF engineVars, Engine!engineVars
<1>1. CASE MainStarts
  BY <1>1 DEF MainStarts, Engine!Next
<1>2. CASE MainSteps
  BY <1>2 DEF MainSteps, Engine!Next
<1>3. ASSUME NEW r \in Requests, NEW k \in Keys \cup {NoKey}, Ask(r, k)
      PROVE  Engine!Next \/ UNCHANGED Engine!engineVars
  BY <1>3 DEF Ask, Engine!Next
<1>4. ASSUME NEW r \in Requests, RequestStep(r)
      PROVE  Engine!Next \/ UNCHANGED Engine!engineVars
  BY <1>4 DEF RequestStep, EngineTurn, Decided, Panics, Insert, Engine!Next, Engine!FindStep
<1>5. CASE Hup \/ Flush \/ Tick \/ Dead
  BY <1>5 DEF Hup, Flush, Tick, Dead, vars
<1>6. CASE Receive
  BY <1>6 DEF Receive, Engine!Next
<1>7. CASE ReloadSteps
  BY <1>7 DEF ReloadSteps, Engine!Next
<1>8. CASE Edit
  BY <1>8 DEF Edit, Engine!Next
<1>9. CASE UNCHANGED vars
  BY <1>9 DEF vars
<1> QED BY <1>1, <1>2, <1>3, <1>4, <1>5, <1>6, <1>7, <1>8, <1>9 DEF Next

(* The engine inside the process behaves as OttoEngine says: requests and  *)
(* the two managers drive it through its own calls only.                   *)
THEOREM RunsEngine == Spec => Engine!Spec
<1>1. Init => Engine!Init
  BY DEF Init
<1> QED BY <1>1, EngineStep, PTL DEF Spec, Engine!Spec

(* Each step of the process is a step of its cache, or none; a decision of *)
(* the engine is one of those the wrapped finder may give.                 *)
LEMMA CacheStep ==
    ASSUME vm \in Versions \cup {Engine!NilVM}, [Next]_vars
    PROVE  Cache!Next \/ UNCHANGED Cache!vars
<1> USE DEF cacheVars, Cache!vars
<1>1. CASE MainStarts \/ MainSteps \/ Hup \/ Receive \/ ReloadSteps \/ Edit \/ Dead
  BY <1>1 DEF MainStarts, MainSteps, Hup, Receive, ReloadSteps, Edit, Dead, vars
<1>2. ASSUME NEW r \in Requests, NEW k \in Keys \cup {NoKey}, Ask(r, k)
      PROVE  Cache!Next
  BY <1>2 DEF Ask, Cache!Next, Cache!Lookup
<1>3. ASSUME NEW r \in Requests, RequestStep(r)
      PROVE  Cache!Next \/ UNCHANGED Cache!vars
  <2>1. CASE EngineTurn(r)
    BY <2>1 DEF EngineTurn
  <2>2. CASE Decided(r)
    <3>1. vm \in Versions /\ Cache!InnerReturns(r, vm)
      BY <2>2 DEF Decided, Engine!FindReturns
    <3> QED BY <3>1 DEF Cache!Next
  <2>3. CASE Panics(r) \/ Insert(r)
    BY <2>3 DEF Panics, Insert, Cache!Next
  <2> QED BY <1>3, <2>1, <2>2, <2>3 DEF RequestStep
<1>4. CASE Flush \/ Tick
  BY <1>4 DEF Flush, Tick, Cache!Next
<1>5. CASE UNCHANGED vars
  BY <1>5 DEF vars
<1> QED BY <1>1, <1>2, <1>3, <1>4, <1>5 DEF Next

(* What OttoEngineProofs proves of the engine, in its own names.           *)
LEMMA EngineHolds == Spec => []EngineFacts!IInv
<1>1. EngineFacts!EngineAssumption
  BY ProcessAssumption DEF Engine!EngineAssumption, EngineFacts!EngineAssumption
<1>2. Engine!Init => EngineFacts!Init
  BY DEF Engine!Init, EngineFacts!Init, Engine!NilVM, EngineFacts!NilVM,
         Engine!Pending, EngineFacts!Pending
<1>3. [Engine!Next]_(Engine!engineVars) => [EngineFacts!Next]_(EngineFacts!engineVars)
  <2> USE DEF Engine!finderVars, EngineFacts!finderVars, Engine!managerVars,
              EngineFacts!managerVars, Engine!Goto, EngineFacts!Goto,
              Engine!NilVM, EngineFacts!NilVM
  <2>1. Engine!Edit => EngineFacts!Edit
    BY DEF Engine!Edit, EngineFacts!Edit
  <2>2. ASSUME NEW m \in {Main, Sig}, NEW call \in {"start", "stop", "reload"}
        PROVE  Engine!CallManager(m, call) => EngineFacts!CallManager(m, call)
    BY DEF Engine!CallManager, EngineFacts!CallManager, Engine!Entry, EngineFacts!Entry
  <2>3. ASSUME NEW m \in {Main, Sig}
        PROVE  Engine!ManagerStep(m) => EngineFacts!ManagerStep(m)
    BY DEF Engine!ManagerStep, EngineFacts!ManagerStep,
           Engine!StopCheck, EngineFacts!StopCheck, Engine!StopLocked, EngineFacts!StopLocked,
           Engine!StopReport, EngineFacts!StopReport, Engine!StartCheck, EngineFacts!StartCheck,
           Engine!StartLocked, EngineFacts!StartLocked, Engine!Load, EngineFacts!Load,
           Engine!LoadFails, EngineFacts!LoadFails, Engine!Publish, EngineFacts!Publish,
           Engine!StartReport, EngineFacts!StartReport
  <2>4. ASSUME NEW r \in Requests
        PROVE  Engine!CallFind(r) \/ Engine!FindStep(r)
                 => EngineFacts!CallFind(r) \/ EngineFacts!FindStep(r)
    BY DEF Engine!CallFind, EngineFacts!CallFind, Engine!FindStep, EngineFacts!FindStep,
           Engine!LockFind, EngineFacts!LockFind, Engine!FindReturns, EngineFacts!FindReturns,
           Engine!FindPanics, EngineFacts!FindPanics, Engine!Pending, EngineFacts!Pending,
           Engine!Panicked, EngineFacts!Panicked
  <2>5. UNCHANGED Engine!engineVars => UNCHANGED EngineFacts!engineVars
    BY DEF Engine!engineVars, EngineFacts!engineVars
  <2>6. Engine!Next => EngineFacts!Next
    BY <2>1, <2>2, <2>3, <2>4 DEF Engine!Next, EngineFacts!Next
  <2> QED BY <2>5, <2>6
<1>4. Spec => EngineFacts!Spec
  BY <1>2, <1>3, RunsEngine, PTL DEF Engine!Spec, EngineFacts!Spec
<1> QED BY <1>1, <1>4, EngineFacts!Invariance, PTL

-----------------------------------------------------------------------------
(* What the process uses of the engine's invariant.                        *)
EngineGives ==
    /\ script \in Versions /\ vm \in Versions \cup {-1} /\ last \in Versions
    /\ mpc \in [{Main, Sig} -> {"idle", "stopCheck", "stopLock", "stopReport", "startCheck",
                               "startLock", "load", "publish", "startReport"}]
    /\ op \in [{Main, Sig} -> {"none", "start", "stop", "reload"}]
    /\ outcome \in [{Main, Sig} -> {"none", "ok", "error"}]
    /\ fpc \in [Requests -> {"idle", "wait", "eval"}]
    /\ isStarted <=> vm # -1
    /\ seen \in [{Main, Sig} -> Versions]
    /\ \A m \in {Main, Sig} : op[m] = "reload" /\ outcome[m] = "ok" /\ vm # -1 => vm >= seen[m]
    /\ \A m \in {Main, Sig} :
          mpc[m] = "publish" => loaded[m] \in Versions /\ loaded[m] >= last

LEMMA EngineGivesIt == EngineFacts!IInv => EngineGives
<1>1. ASSUME EngineFacts!IInv, NEW m \in {Main, Sig},
             op[m] = "reload", outcome[m] = "ok", vm # -1
      PROVE  vm >= seen[m]
  BY <1>1 DEF EngineFacts!IInv, EngineFacts!SeenFromStop, EngineFacts!PastStop, EngineFacts!NilVM
<1> QED BY <1>1 DEF EngineFacts!IInv, EngineFacts!TypeOK, EngineFacts!OneInside,
       EngineFacts!InOrder, EngineFacts!ManagerStates, EngineFacts!Versions, EngineFacts!NilVM,
       EngineGives, Versions

(* The callers of the cache and its index.                                 *)
CallTypes ==
    /\ pc \in [Requests -> {"idle", "inner", "bypass", "insert"}]
    /\ asked \in [Requests -> Keys \cup {NoKey}]
    /\ answer = [r \in Requests |-> answer[r]]
    /\ items = [k \in Keys |-> items[k]]
    /\ \A r \in Requests : pc[r] \in {"inner", "insert"} => asked[r] \in Keys

(* Who may use the engine: main alone until it is up, then the signal      *)
(* goroutine alone, and nobody unless it is inside a reload.  Whoever      *)
(* reports a success has left the engine with a VM.                        *)
OneManager ==
    /\ phase = "boot" =>
          /\ mpc[Sig] = "idle" /\ sigpc = "receive"
          /\ mpc[Main] \in {"idle", "startCheck", "startLock", "load", "publish", "startReport"}
          /\ mpc[Main] = "startReport" /\ outcome[Main] = "ok" => vm # -1
          /\ \A r \in Requests : pc[r] = "idle"
          /\ \A k \in Keys : items[k] = Nil
    /\ phase = "up" =>
          /\ mpc[Main] = "idle"
          /\ sigpc = "reload" => op[Sig] = "reload"
          /\ mpc[Sig] = "startReport" /\ outcome[Sig] = "ok" => vm # -1
          /\ sigpc = "flush" => vm # -1 /\ op[Sig] = "reload" /\ outcome[Sig] = "ok"

(* What runs is what was published last, and no older than the cache.      *)
Ordered == flushed <= last /\ (vm # -1 => vm = last)

(* A SIGHUP is of a script there has been, and none is caught before main  *)
(* is up.                                                                  *)
ToldInTime == told <= script /\ (phase = "boot" => told = 0)

(* The inductive invariant.                                                *)
IInv == /\ TypeOK /\ CallTypes /\ OneManager /\ Ordered /\ ToldInTime
        /\ StaleOnlyIfLate /\ QuietMeansCurrent /\ SignalIsKept

LEMMA InitInv ==
    ASSUME Init
    PROVE  IInv
<1> USE DEF Init, Engine!Init, Cache!Init
<1>1. 0 \in Versions /\ 0 \in 0..SigCap /\ Main # Sig
  BY ProcessAssumption DEF Versions, Engine!EngineAssumption
<1>2. TypeOK
  BY <1>1 DEF TypeOK
<1>3. CallTypes /\ OneManager
  BY DEF CallTypes, OneManager
<1>4. Ordered /\ StaleOnlyIfLate /\ QuietMeansCurrent /\ ToldInTime /\ SignalIsKept
  BY DEF Ordered, StaleOnlyIfLate, QuietMeansCurrent, ToldInTime, SignalIsKept, Up, Engine!NilVM
<1> QED BY <1>2, <1>3, <1>4 DEF IInv

-----------------------------------------------------------------------------
(* One lemma for each part of the process: main, the requests, and the     *)
(* signal goroutine.                                                       *)
LEMMA MainKeeps ==
    ASSUME EngineGives, EngineGives', IInv, MainStarts \/ MainSteps
    PROVE  IInv'
<1> USE ProcessAssumption DEF EngineGives, IInv, Versions
<1>1. CASE MainStarts
  <2> USE <1>1 DEF MainStarts, Engine!CallManager, Engine!Goto, Engine!Entry,
                   Engine!finderVars, cacheVars, procVars
  <2>1. TypeOK' /\ CallTypes'
    BY DEF TypeOK, CallTypes
  <2>2. OneManager'
    BY DEF OneManager, TypeOK
  <2>3. Ordered' /\ StaleOnlyIfLate' /\ QuietMeansCurrent'
    BY DEF Ordered, StaleOnlyIfLate, QuietMeansCurrent, Up
  <2>4. ToldInTime' /\ SignalIsKept'
    BY DEF ToldInTime, SignalIsKept, Up
  <2> QED BY <2>1, <2>2, <2>3, <2>4
<1>2. CASE MainSteps
  <2>1. /\ phase = "boot" /\ Engine!ManagerStep(Main)
        /\ UNCHANGED <<now, items, order, pc, asked, answer, pending, sigpc, told, late>>
        /\ IF mpc'[Main] = "idle"
             THEN IF outcome[Main] = "ok"
                    THEN phase' = "up" /\ flushed' = vm
                    ELSE phase' = "down" /\ UNCHANGED flushed
             ELSE UNCHANGED <<phase, flushed>>
    BY <1>2 DEF MainSteps, cacheVars
  <2>2. /\ mpc'[Sig] = mpc[Sig] /\ op' = op /\ UNCHANGED <<fpc, script>>
        /\ mpc'[Main] \in {"idle", "startCheck", "startLock", "load", "publish", "startReport"}
        /\ mpc'[Main] = "startReport" /\ outcome'[Main] = "ok" => vm' # -1
        /\ mpc'[Main] = "idle" => mpc[Main] = "startReport" /\ UNCHANGED <<vm, last, outcome>>
        /\ vm' # -1 => vm' = last'
        /\ last' >= last
    BY <2>1 DEF OneManager, Ordered, Engine!ManagerStep, Engine!Goto, Engine!finderVars,
         Engine!StopCheck, Engine!StopLocked, Engine!StopReport, Engine!StartCheck,
         Engine!StartLocked, Engine!Load, Engine!LoadFails, Engine!Publish, Engine!StartReport
  <2>3. TypeOK'
    BY <2>1, <2>2 DEF TypeOK, OneManager, Ordered
  <2>4. CallTypes'
    BY <2>1 DEF CallTypes
  <2>5. OneManager'
    BY <2>1, <2>2 DEF OneManager, TypeOK
  <2>6. Ordered'
    BY <2>1, <2>2 DEF Ordered, OneManager, TypeOK
  <2>7. StaleOnlyIfLate'
    BY <2>1 DEF StaleOnlyIfLate, OneManager
  <2>8. QuietMeansCurrent'
    BY <2>1, <2>2 DEF QuietMeansCurrent, Up
  <2>9. ToldInTime' /\ SignalIsKept'
    BY <2>1, <2>2, <2>3 DEF TypeOK, ToldInTime, SignalIsKept
  <2> QED BY <2>3, <2>4, <2>5, <2>6, <2>7, <2>8, <2>9
<1> QED BY <1>1, <1>2

LEMMA AskKeeps ==
    ASSUME EngineGives, EngineGives', IInv,
           NEW r \in Requests, NEW k \in Keys \cup {NoKey}, Ask(r, k)
    PROVE  IInv'
<1> USE ProcessAssumption DEF EngineGives, IInv, Versions
<1>1. /\ Up /\ UNCHANGED <<now, script, lock, isStarted, vm, mpc, op, outcome, last, seen>>
      /\ UNCHANGED procVars
      /\ pc[r] = "idle"
      /\ asked' = [asked EXCEPT ![r] = k]
      /\ \E a : answer' = [answer EXCEPT ![r] = a]
      /\ \/ pc' = pc /\ items' = items /\ fpc' = fpc
         \/ /\ \/ pc' = [pc EXCEPT ![r] = "bypass"] /\ items' = items
               \/ /\ k \in Keys /\ pc' = [pc EXCEPT ![r] = "inner"]
                  /\ items' = items \/ items' = [items EXCEPT ![k] = Nil]
            /\ fpc' = [fpc EXCEPT ![r] = "wait"]
  <2>1. CASE Cache!Hit(r, k) /\ UNCHANGED engineVars
    <3>1. pc' = [pc EXCEPT ![r] = "idle"] /\ pc[r] = "idle"
      BY <2>1 DEF Cache!Hit, Cache!Looks
    <3>2. pc' = pc
      BY <3>1 DEF CallTypes
    <3> QED BY <2>1, <3>1, <3>2 DEF Ask, Cache!Hit, Cache!Looks, engineVars
  <2>2. CASE (Cache!Bypass(r, k) \/ Cache!MissExpired(r, k) \/ Cache!MissAbsent(r, k))
             /\ Engine!CallFind(r)
    BY <2>2 DEF Ask, Cache!Bypass, Cache!MissExpired, Cache!MissAbsent, Cache!Looks,
         Cache!Cacheable, Engine!CallFind, Engine!managerVars
  <2> QED BY <2>1, <2>2 DEF Ask
<1>2. TypeOK'
  BY <1>1 DEF TypeOK, CallTypes, procVars
<1>3. CallTypes'
  BY <1>1 DEF CallTypes
<1>4. OneManager'
  BY <1>1 DEF OneManager, Up, procVars
<1>5. Ordered' /\ QuietMeansCurrent'
  BY <1>1 DEF Ordered, QuietMeansCurrent, Up, procVars
<1>6. StaleOnlyIfLate'
  <2>1. ASSUME NEW l \in Keys, items'[l] # Nil
        PROVE  items'[l] = items[l]
    BY <1>1, <2>1 DEF CallTypes
  <2>2. ASSUME NEW q \in Requests, pc'[q] = "insert"
        PROVE  pc[q] = "insert" /\ answer'[q] = answer[q] /\ asked'[q] = asked[q]
    BY <1>1, <2>2 DEF CallTypes
  <2> QED BY <1>1, <2>1, <2>2 DEF StaleOnlyIfLate, procVars
<1>7. ToldInTime' /\ SignalIsKept'
  BY <1>1 DEF ToldInTime, SignalIsKept, Up, procVars
<1> QED BY <1>2, <1>3, <1>4, <1>5, <1>6, <1>7

LEMMA RequestKeeps ==
    ASSUME EngineGives, EngineGives', IInv, NEW r \in Requests, RequestStep(r)
    PROVE  IInv'
<1> USE ProcessAssumption DEF EngineGives, IInv, Versions
<1>1. CASE EngineTurn(r)
  <2>1. /\ Up /\ UNCHANGED <<cacheVars, procVars, script, isStarted, vm, mpc, op, outcome, last, seen>>
        /\ fpc[r] # "idle" /\ fpc' = [fpc EXCEPT ![r] = "eval"]
    BY <1>1 DEF EngineTurn, Engine!LockFind, Engine!managerVars
  <2>2. TypeOK' /\ CallTypes' /\ OneManager'
    BY <2>1 DEF TypeOK, CallTypes, OneManager, Up, cacheVars, procVars
  <2>3. Ordered' /\ StaleOnlyIfLate' /\ QuietMeansCurrent'
    BY <2>1 DEF Ordered, StaleOnlyIfLate, QuietMeansCurrent, Up, cacheVars, procVars
  <2>4. ToldInTime' /\ SignalIsKept'
    BY <2>1 DEF ToldInTime, SignalIsKept, Up, procVars
  <2> QED BY <2>2, <2>3, <2>4
<1>2. CASE Decided(r)
  <2>1. /\ Up /\ UNCHANGED <<procVars, items, asked, script, isStarted, vm, mpc, op, outcome, last, seen>>
        /\ fpc' = [fpc EXCEPT ![r] = "idle"]
        /\ pc[r] \in {"inner", "bypass"}
        /\ pc' = [pc EXCEPT ![r] = IF @ = "inner" THEN "insert" ELSE "idle"]
        /\ answer' = [answer EXCEPT ![r] = vm]
        /\ vm # -1
    BY <1>2 DEF Decided, Engine!FindReturns, Engine!managerVars, Cache!InnerReturns, Engine!NilVM
  <2>2. TypeOK' /\ CallTypes' /\ OneManager'
    BY <2>1 DEF TypeOK, CallTypes, OneManager, Up, procVars
  <2>3. Ordered' /\ QuietMeansCurrent'
    BY <2>1 DEF Ordered, QuietMeansCurrent, Up, procVars
  <2>4. ~ (vm < flushed)
    BY <2>1 DEF Ordered, TypeOK
  <2>5. StaleOnlyIfLate'
    BY <2>1, <2>4 DEF StaleOnlyIfLate, CallTypes, procVars
  <2>6. ToldInTime' /\ SignalIsKept'
    BY <2>1 DEF ToldInTime, SignalIsKept, Up, procVars
  <2> QED BY <2>2, <2>3, <2>5, <2>6
<1>3. CASE Panics(r)
  <2>1. /\ Up /\ UNCHANGED <<procVars, items, asked, answer, script, isStarted, vm, mpc, op, outcome, last, seen>>
        /\ fpc' = [fpc EXCEPT ![r] = "idle"]
        /\ pc' = [pc EXCEPT ![r] = "idle"]
    BY <1>3 DEF Panics, Engine!FindPanics, Engine!managerVars, Cache!InnerPanics
  <2>2. TypeOK' /\ CallTypes' /\ OneManager'
    BY <2>1 DEF TypeOK, CallTypes, OneManager, Up, procVars
  <2>3. Ordered' /\ StaleOnlyIfLate' /\ QuietMeansCurrent'
    BY <2>1 DEF Ordered, StaleOnlyIfLate, QuietMeansCurrent, Up, CallTypes, procVars
  <2>4. ToldInTime' /\ SignalIsKept'
    BY <2>1 DEF ToldInTime, SignalIsKept, Up, procVars
  <2> QED BY <2>2, <2>3, <2>4
<1>4. CASE Insert(r)
  <2>1. /\ Up /\ UNCHANGED <<engineVars, procVars, asked, answer>>
        /\ pc[r] = "insert" /\ pc' = [pc EXCEPT ![r] = "idle"]
    BY <1>4 DEF Insert, Cache!Insert
  <2>2. /\ items' = [k \in Keys |-> items'[k]]
        /\ \A k \in Keys : items'[k] # Nil =>
              \/ items'[k] = items[k]
              \/ k = asked[r] /\ items'[k].answer = answer[r]
    <3> DEFINE el == Cache!NewElement(asked[r], answer[r])
               gone == Cache!EvictedKeys(Cache!PushFront(order, el))
    <3>1. el.answer = answer[r]
      BY DEF Cache!NewElement
    <3>2. \/ items' = items
          \/ items' = [k \in Keys |-> IF k \in gone THEN Nil
                                     ELSE IF k = asked[r] THEN el ELSE items[k]]
      BY <1>4 DEF Insert, Cache!Insert
    <3> HIDE DEF el, gone
    <3> QED BY <3>1, <3>2 DEF CallTypes
  <2>3. TypeOK' /\ CallTypes' /\ OneManager'
    BY <2>1, <2>2 DEF TypeOK, CallTypes, OneManager, Up, engineVars, procVars
  <2>4. Ordered' /\ QuietMeansCurrent'
    BY <2>1 DEF Ordered, QuietMeansCurrent, Up, engineVars, procVars
  <2>5. StaleOnlyIfLate'
    BY <2>1, <2>2 DEF StaleOnlyIfLate, CallTypes, procVars
  <2>6. ToldInTime' /\ SignalIsKept'
    BY <2>1 DEF ToldInTime, SignalIsKept, Up, engineVars, procVars
  <2> QED BY <2>3, <2>4, <2>5, <2>6
<1> QED BY <1>1, <1>2, <1>3, <1>4 DEF RequestStep

LEMMA SignalKeeps ==
    ASSUME EngineGives, EngineGives', IInv, Hup \/ Receive \/ ReloadSteps \/ Flush
    PROVE  IInv'
<1> USE ProcessAssumption DEF EngineGives, IInv, Versions
<1>1. CASE Hup
  <2>1. /\ UNCHANGED <<cacheVars, engineVars, sigpc, flushed, late>>
        /\ pending' \in 0..SigCap /\ told' \in {told, script}
        /\ phase' = "down" \/ (Up /\ phase' = phase)
    BY <1>1 DEF Hup, Notified, TypeOK, Up
  <2>2. TypeOK' /\ CallTypes' /\ OneManager'
    BY <2>1 DEF TypeOK, CallTypes, OneManager, Up, cacheVars, engineVars
  <2>3. Ordered' /\ StaleOnlyIfLate' /\ QuietMeansCurrent'
    BY <2>1 DEF Ordered, StaleOnlyIfLate, QuietMeansCurrent, Up, cacheVars, engineVars
  <2>4. ToldInTime' /\ SignalIsKept'
    <3>1. Up => pending' > 0 /\ told' = script
      BY <1>1 DEF Hup, Notified, TypeOK, Up
    <3>2. Up' => Up
      BY <2>1 DEF Up
    <3>3. phase' # "boot"
      BY <2>1 DEF Up
    <3> QED BY <2>1, <3>1, <3>2, <3>3 DEF ToldInTime, SignalIsKept, engineVars
  <2> QED BY <2>2, <2>3, <2>4
<1>2. CASE Receive
  <2>1. /\ Up /\ UNCHANGED <<cacheVars, phase, told, flushed, late, vm, last, fpc>>
        /\ sigpc = "receive" /\ sigpc' = "reload"
        /\ pending > 0 /\ pending' = pending - 1
        /\ mpc' = [mpc EXCEPT ![Sig] = "stopCheck"]
        /\ op' = [op EXCEPT ![Sig] = "reload"]
        /\ seen' = [seen EXCEPT ![Sig] = script] /\ UNCHANGED script
    BY <1>2 DEF Receive, Engine!CallManager, Engine!Goto, Engine!Entry, Engine!finderVars
  <2>2. TypeOK' /\ CallTypes' /\ OneManager'
    BY <2>1 DEF TypeOK, CallTypes, OneManager, Up, cacheVars
  <2>3. Ordered' /\ StaleOnlyIfLate' /\ QuietMeansCurrent'
    BY <2>1 DEF Ordered, StaleOnlyIfLate, QuietMeansCurrent, Up, cacheVars
  <2>4. ToldInTime' /\ SignalIsKept'
    BY <2>1 DEF ToldInTime, SignalIsKept, Up
  <2> QED BY <2>2, <2>3, <2>4
<1>3. CASE ReloadSteps
  <2>1. /\ Up /\ sigpc = "reload" /\ Engine!ManagerStep(Sig)
        /\ UNCHANGED <<cacheVars, pending, told, flushed, late>>
        /\ IF mpc'[Sig] = "idle"
             THEN IF outcome[Sig] = "ok"
                    THEN sigpc' = "flush" /\ UNCHANGED phase
                    ELSE phase' = "down" /\ UNCHANGED sigpc
             ELSE UNCHANGED <<phase, sigpc>>
    BY <1>3 DEF ReloadSteps
  <2>2. /\ mpc'[Main] = mpc[Main] /\ op' = op /\ UNCHANGED <<fpc, script, seen>>
        /\ mpc'[Sig] = "startReport" /\ outcome'[Sig] = "ok" => vm' # -1
        /\ mpc'[Sig] = "idle" => mpc[Sig] = "startReport" /\ UNCHANGED <<vm, last, outcome>>
        /\ vm' # -1 => vm' = last'
        /\ last' >= last
    BY <2>1 DEF OneManager, Ordered, Up, Engine!ManagerStep, Engine!Goto, Engine!finderVars,
         Engine!StopCheck, Engine!StopLocked, Engine!StopReport, Engine!StartCheck, Engine!NilVM,
         Engine!StartLocked, Engine!Load, Engine!LoadFails, Engine!Publish, Engine!StartReport
  <2>3. TypeOK' /\ CallTypes'
    BY <2>1, <2>2 DEF TypeOK, CallTypes, cacheVars, Up
  <2>4. OneManager'
    BY <2>1, <2>2 DEF OneManager, TypeOK, Up
  <2>5. Ordered'
    BY <2>1, <2>2 DEF Ordered, TypeOK
  <2>6. StaleOnlyIfLate' /\ QuietMeansCurrent'
    BY <2>1, <2>2 DEF StaleOnlyIfLate, QuietMeansCurrent, Up, cacheVars
  <2>7. ToldInTime' /\ SignalIsKept'
    BY <2>1, <2>2 DEF ToldInTime, SignalIsKept, Up
  <2> QED BY <2>3, <2>4, <2>5, <2>6, <2>7
<1>4. CASE Flush
  <2>1. /\ Up /\ sigpc = "flush" /\ sigpc' = "receive" /\ flushed' = vm
        /\ items' = [k \in Keys |-> Nil]
        /\ late' = {asked[r] : r \in {q \in Requests : pc[q] = "insert" /\ answer[q] < vm}}
        /\ UNCHANGED <<pc, asked, answer, engineVars, phase, pending, told>>
    BY <1>4 DEF Flush, Cache!InvalidateAll
  <2>2. TypeOK' /\ CallTypes' /\ OneManager'
    BY <2>1 DEF TypeOK, CallTypes, OneManager, Up, engineVars
  <2>3. Ordered' /\ QuietMeansCurrent'
    BY <2>1 DEF Ordered, QuietMeansCurrent, OneManager, Up, engineVars
  <2>4. StaleOnlyIfLate'
    BY <2>1 DEF StaleOnlyIfLate
  <2>5. /\ vm >= seen[Sig] /\ vm \in Versions /\ vm >= flushed
        /\ seen[Sig] \in Versions /\ told \in Versions /\ flushed \in Versions
    BY <2>1 DEF OneManager, Ordered, TypeOK, Up
  <2>6. ToldInTime' /\ SignalIsKept'
    BY <2>1, <2>5 DEF ToldInTime, SignalIsKept, Up, engineVars
  <2> QED BY <2>2, <2>3, <2>4, <2>6
<1> QED BY <1>1, <1>2, <1>3, <1>4

LEMMA StepInv ==
    ASSUME EngineGives, EngineGives', IInv, [Next]_vars
    PROVE  IInv'
<1>1. CASE Edit \/ Tick \/ Dead \/ UNCHANGED vars
  <2>1. /\ UNCHANGED <<items, pc, asked, answer, isStarted, vm, mpc, op, outcome, fpc, last, seen, procVars>>
        /\ script' \in Versions /\ script' >= script
    BY <1>1 DEF Edit, Engine!Edit, Tick, Cache!Tick, Dead, vars, cacheVars, engineVars, procVars,
           EngineGives, Versions
  <2>2. TypeOK' /\ CallTypes' /\ OneManager'
    BY <2>1 DEF IInv, TypeOK, CallTypes, OneManager, procVars
  <2>3. Ordered' /\ StaleOnlyIfLate' /\ QuietMeansCurrent'
    BY <2>1 DEF IInv, Ordered, StaleOnlyIfLate, QuietMeansCurrent, Up, procVars
  <2>4. ToldInTime' /\ SignalIsKept'
    BY <2>1 DEF IInv, TypeOK, ToldInTime, SignalIsKept, Up, EngineGives, procVars, Versions
  <2> QED BY <2>2, <2>3, <2>4 DEF IInv
<1> QED BY <1>1, MainKeeps, AskKeeps, RequestKeeps, SignalKeeps DEF Next

-----------------------------------------------------------------------------
(* The inductive invariant holds throughout: the engine's own is proved    *)
(* first, and each step is taken knowing it before and after.              *)
THEOREM Invariance == Spec => []IInv
<1>1. Spec => []EngineGives
  BY EngineHolds, EngineGivesIt, PTL
<1>2. Init => IInv
  BY InitInv
<1>3. EngineGives /\ EngineGives' /\ IInv /\ [Next]_vars => IInv'
  BY StepInv
<1> QED BY <1>1, <1>2, <1>3, PTL DEF Spec

(* Types are kept, and cache, engine and signal goroutine agree on where   *)
(* every call is, for any number of requests, keys and edits.              *)
THEOREM TypeCorrect == Spec => []TypeOK
<1>1. IInv => TypeOK
  BY DEF IInv
<1> QED BY <1>1, Invariance, PTL

(* Only a lookup that a reload overtook leaves a decision of an older      *)
(* script behind, and only under the key it asked for.                     *)
THEOREM StaleIsLate == Spec => []StaleOnlyIfLate
<1>1. IInv => StaleOnlyIfLate
  BY DEF IInv
<1> QED BY <1>1, Invariance, PTL

(* Outside a reload the engine runs the script the cache was flushed for.  *)
THEOREM QuietIsCurrent == Spec => []QuietMeansCurrent
<1>1. IInv => QuietMeansCurrent
  BY DEF IInv
<1> QED BY <1>1, Invariance, PTL

(* No SIGHUP is forgotten: until the cache has been flushed for the script *)
(* there was when it came, a signal waits in the channel or the reload     *)
(* under way was called after it, for every capacity of the channel but    *)
(* none (initSignalNotify's make(chan os.Signal, 1)).                      *)
THEOREM SignalKept == Spec => []SignalIsKept
<1>1. IInv => SignalIsKept
  BY DEF IInv
<1> QED BY <1>1, Invariance, PTL

(* The process drives its cache through the cache's own calls only, so     *)
(* what ProxyCacheProofs shows holds inside it too.                        *)
THEOREM RunsCache == Spec => Cache!Spec
<1>1. Init => Cache!Init
  BY DEF Init
<1>2. EngineGives /\ [Next]_vars => [Cache!Next]_(Cache!vars)
  BY CacheStep DEF EngineGives, Engine!NilVM
<1>3. Spec => []EngineGives
  BY EngineHolds, EngineGivesIt, PTL
<1> QED BY <1>1, <1>2, <1>3, PTL DEF Spec, Cache!Spec

(* Inside the process, too, the engine's mutex has one holder, its VMs are *)
(* published in order, and a reload that succeeds shows the edit before it *)
(* (pac/otto.go), main and the signal goroutine being its managers.        *)
THEOREM EngineStaysSound ==
    Spec => [](Engine!OneInside /\ Engine!PublishesInOrder /\ Engine!ReloadSeesEdit)
<1>1. EngineFacts!IInv => Engine!OneInside /\ Engine!PublishesInOrder /\ Engine!ReloadSeesEdit
  <2>1. EngineFacts!IInv => Engine!OneInside
    BY DEF EngineFacts!IInv, EngineFacts!OneInside, Engine!OneInside,
           EngineFacts!NilVM, Engine!NilVM
  <2>2. EngineFacts!IInv => Engine!PublishesInOrder
    BY DEF EngineFacts!IInv, EngineFacts!InOrder, Engine!PublishesInOrder,
           EngineFacts!NilVM, Engine!NilVM
  <2>3. EngineFacts!IInv => Engine!ReloadSeesEdit
    BY EngineGivesIt DEF EngineGives, Engine!ReloadSeesEdit, Engine!NilVM
  <2> QED BY <2>1, <2>2, <2>3
<1> QED BY <1>1, EngineHolds, PTL

-----------------------------------------------------------------------------
(* What ProxyCacheProofs proves of the cache, in its own names.            *)
LEMMA ListsAgree ==
    ASSUME NEW list, NEW e, NEW n
    PROVE  /\ Cache!PushFront(list, e) = CacheFacts!PushFront(list, e)
           /\ Cache!Unlink(list, e) = CacheFacts!Unlink(list, e)
           /\ Cache!MoveToFront(list, e) = CacheFacts!MoveToFront(list, e)
           /\ Cache!Keep(list, n) = CacheFacts!Keep(list, n)
           /\ Cache!Evicted(list, n) = CacheFacts!Evicted(list, n)
<1> USE DEF Cache!Cons, CacheFacts!Cons
<1>1. Cache!Unlink(list, e) = CacheFacts!Unlink(list, e)
  BY DEF Cache!Unlink, CacheFacts!Unlink, Cache!PositionOf, CacheFacts!PositionOf,
         Cache!RemoveAt, CacheFacts!RemoveAt
<1>2. \A l : Cache!PushFront(l, e) = CacheFacts!PushFront(l, e)
  BY DEF Cache!PushFront, CacheFacts!PushFront
<1>3. Cache!MoveToFront(list, e) = CacheFacts!MoveToFront(list, e)
  BY <1>1, <1>2 DEF Cache!MoveToFront, CacheFacts!MoveToFront
<1>4. Cache!Keep(list, n) = CacheFacts!Keep(list, n)
  BY DEF Cache!Keep, CacheFacts!Keep
<1>5. Cache!Evicted(list, n) = CacheFacts!Evicted(list, n)
  BY DEF Cache!Evicted, CacheFacts!Evicted
<1> QED BY <1>1, <1>2, <1>3, <1>4, <1>5

LEMMA CacheSpecsAgree == [Cache!Next]_(Cache!vars) => [CacheFacts!Next]_(CacheFacts!vars)
<1> USE DEF Cache!Looks, CacheFacts!Looks, Cache!Cacheable, CacheFacts!Cacheable,
            Cache!Fresh, CacheFacts!Fresh
<1>1. ASSUME NEW r \in Requests, NEW k \in Keys \cup {NoKey}
      PROVE  Cache!Lookup(r, k) => CacheFacts!Lookup(r, k)
  <2>1. Cache!Bypass(r, k) => CacheFacts!Bypass(r, k)
    BY DEF Cache!Bypass, CacheFacts!Bypass
  <2>2. Cache!Hit(r, k) => CacheFacts!Hit(r, k)
    BY ListsAgree DEF Cache!Hit, CacheFacts!Hit
  <2>3. Cache!MissExpired(r, k) => CacheFacts!MissExpired(r, k)
    BY ListsAgree DEF Cache!MissExpired, CacheFacts!MissExpired
  <2>4. Cache!MissAbsent(r, k) => CacheFacts!MissAbsent(r, k)
    BY DEF Cache!MissAbsent, CacheFacts!MissAbsent
  <2> QED BY <2>1, <2>2, <2>3, <2>4 DEF Cache!Lookup, CacheFacts!Lookup
<1>2. ASSUME NEW r \in Requests, NEW a \in Versions
      PROVE  Cache!InnerReturns(r, a) => CacheFacts!InnerReturns(r, a)
  BY DEF Cache!InnerReturns, CacheFacts!InnerReturns
<1>3. ASSUME NEW r \in Requests
      PROVE  Cache!InnerPanics(r) => CacheFacts!InnerPanics(r)
  BY DEF Cache!InnerPanics, CacheFacts!InnerPanics
<1>4. ASSUME NEW r \in Requests
      PROVE  Cache!Insert(r) => CacheFacts!Insert(r)
  <2>1. Cache!NewElement(asked[r], answer[r]) = CacheFacts!NewElement(asked[r], answer[r])
    BY DEF Cache!NewElement, CacheFacts!NewElement
  <2>2. \A list : Cache!EvictedKeys(list) = CacheFacts!EvictedKeys(list)
    BY ListsAgree DEF Cache!EvictedKeys, CacheFacts!EvictedKeys
  <2> QED BY <2>1, <2>2, ListsAgree DEF Cache!Insert, CacheFacts!Insert
<1>5. ASSUME NEW k \in Keys
      PROVE  Cache!Invalidate(k) => CacheFacts!Invalidate(k)
  BY ListsAgree DEF Cache!Invalidate, CacheFacts!Invalidate
<1>6. Cache!InvalidateAll => CacheFacts!InvalidateAll
  BY DEF Cache!InvalidateAll, CacheFacts!InvalidateAll
<1>7. Cache!Tick => CacheFacts!Tick
  BY DEF Cache!Tick, CacheFacts!Tick
<1>8. UNCHANGED Cache!vars => UNCHANGED CacheFacts!vars
  BY DEF Cache!vars, CacheFacts!vars
<1>9. Cache!Next => CacheFacts!Next
  BY <1>1, <1>2, <1>3, <1>4, <1>5, <1>6, <1>7 DEF Cache!Next, CacheFacts!Next
<1> QED BY <1>8, <1>9

LEMMA CacheHolds ==
    /\ Spec => CacheFacts!Spec
    /\ CacheFacts!CacheAssumption /\ CacheFacts!NilAssumption
<1>1. CacheFacts!CacheAssumption /\ CacheFacts!NilAssumption
  BY ProcessAssumption DEF Cache!CacheAssumption, CacheFacts!CacheAssumption,
     Cache!NilAssumption, CacheFacts!NilAssumption, Cache!Element, CacheFacts!Element
<1>2. Cache!Init => CacheFacts!Init
  BY DEF Cache!Init, CacheFacts!Init
<1>3. Spec => CacheFacts!Spec
  BY <1>2, CacheSpecsAgree, RunsCache, PTL DEF Cache!Spec, CacheFacts!Spec
<1> QED BY <1>1, <1>3

(* AnswersAreCurrent: what a request is told is of the script last flushed *)
(* for or of a newer one, but for the keys a reload overtook (pacproxy.go).*)
THEOREM CurrentAnswers == Spec => AnswersAreCurrent
<1>1. ASSUME IInv, CacheFacts!IInv, NEW r \in Requests, NEW k \in Keys,
             Ask(r, k), answer'[r] # Nil
      PROVE  answer'[r] >= flushed \/ asked'[r] \in late
  <2>1. Cache!Hit(r, k)
    BY <1>1 DEF Ask, Cache!Bypass, Cache!MissExpired, Cache!MissAbsent, Cache!Looks,
               IInv, CallTypes
  <2>2. items[k] # Nil /\ answer'[r] = items[k].answer /\ asked'[r] = k
    BY <1>1, <2>1 DEF Cache!Hit, Cache!Looks, IInv, CallTypes
  <2>3. items[k].answer \in Int /\ flushed \in Int
    BY <1>1, <2>2, ProcessAssumption
       DEF CacheFacts!IInv, CacheFacts!TypeOK, CacheFacts!Element, IInv, TypeOK, Versions,
           Engine!EngineAssumption
  <2> QED BY <1>1, <2>2, <2>3 DEF IInv, StaleOnlyIfLate
<1>2. ASSUME IInv, EngineGives, NEW r \in Requests, Decided(r)
      PROVE  answer'[r] >= flushed
  <2>1. answer'[r] = vm /\ vm # -1
    BY <1>2 DEF Decided, Cache!InnerReturns, Engine!FindReturns, Engine!NilVM, IInv, CallTypes
  <2>2. flushed <= vm
    BY <1>2, <2>1 DEF IInv, Ordered
  <2>3. flushed \in Int /\ vm \in Int
    BY <1>2, ProcessAssumption DEF IInv, TypeOK, EngineGives, Versions, Engine!EngineAssumption
  <2> QED BY <2>1, <2>2, <2>3
<1>3. IInv /\ EngineGives /\ CacheFacts!IInv =>
        \A r \in Requests :
          (\E k \in Keys : Ask(r, k) /\ answer'[r] # Nil) \/ Decided(r)
              => answer'[r] >= flushed \/ asked'[r] \in late
  BY <1>1, <1>2
<1>4. Spec => []EngineGives
  BY EngineHolds, EngineGivesIt, PTL
<1>5. Spec => []CacheFacts!IInv
  BY CacheHolds, CacheFacts!Invariance, PTL
<1> QED BY <1>3, <1>4, <1>5, Invariance, PTL DEF Spec, AnswersAreCurrent

(* Inside the process, too, whatever requests, reloads and flushes do to   *)
(* it, the cache's index never dangles, the list stays bounded and the     *)
(* index reaches the newest decision of its key (pac/cache.go).            *)
THEOREM CacheStaysSound == Spec => [](Cache!IndexSound /\ Cache!Bounded /\ Cache!NewestWins)
<1>1. CacheFacts!IInv => Cache!IndexSound /\ Cache!Bounded /\ Cache!NewestWins
  BY DEF CacheFacts!IInv, CacheFacts!StoreInv, Cache!IndexSound, CacheFacts!IndexSound,
         Cache!Linked, CacheFacts!Linked, Cache!Bounded, CacheFacts!Bounded,
         Cache!NewestWins, CacheFacts!NewestWins
<1> QED BY <1>1, CacheHolds, CacheFacts!Invariance, PTL

(* The process as a whole keeps the promise of DecisionCache: no request   *)
(* is told anything from the cache but what the script decided for its key *)
(* less than a TTL ago, and nothing from before the last flush was offered *)
(* when that flush was done (pacproxy.go:104-118, pac/cache.go).           *)
THEOREM CacheKeepsPromise == Spec => Cache!KeepsPromise
<1>1. CacheFacts!Promise!Init => Cache!Promise!Init
  BY DEF CacheFacts!Promise!Init, Cache!Promise!Init, CacheFacts!Offers, Cache!Offers,
         CacheFacts!Cached, Cache!Cached
<1>2. [CacheFacts!Promise!Next]_(CacheFacts!Promise!vars)
        => [Cache!Promise!Next]_(Cache!Promise!vars)
  <2>1. /\ CacheFacts!Offers = Cache!Offers
        /\ CacheFacts!Offers' = Cache!Offers'
    BY DEF CacheFacts!Offers, Cache!Offers, CacheFacts!Cached, Cache!Cached
  <2> QED BY <2>1
          DEF CacheFacts!Promise!vars, Cache!Promise!vars,
              CacheFacts!Promise!Next, Cache!Promise!Next,
              CacheFacts!Promise!Serve, Cache!Promise!Serve,
              CacheFacts!Promise!Ask, Cache!Promise!Ask,
              CacheFacts!Promise!Compute, Cache!Promise!Compute,
              CacheFacts!Promise!Abandon, Cache!Promise!Abandon,
              CacheFacts!Promise!Publish, Cache!Promise!Publish,
              CacheFacts!Promise!Withdraw, Cache!Promise!Withdraw,
              CacheFacts!Promise!WithdrawAll, Cache!Promise!WithdrawAll,
              CacheFacts!Promise!Tick, Cache!Promise!Tick
<1>3. CacheFacts!KeepsPromise => Cache!KeepsPromise
  BY <1>1, <1>2, PTL DEF CacheFacts!KeepsPromise, Cache!KeepsPromise,
                         CacheFacts!Promise!Spec, Cache!Promise!Spec
<1> QED BY <1>3, CacheHolds, CacheFacts!Implements, PTL
=============================================================================
