----------------------------- MODULE OttoEngine -----------------------------
(***************************************************************************)
(* pac.OttoEngine (pac/otto.go): the JavaScript VM that evaluates the PAC  *)
(* script, behind one RWMutex.  Managers call Start, Stop and Reload;      *)
(* finders call FindProxyForURL.  Any of them may call at any time.        *)
(*                                                                         *)
(* lock is the write side of the mutex.  Each section under the read side  *)
(* reads isStarted once and changes nothing, so it is one action, enabled  *)
(* while no writer holds the mutex.  A write section is split where the    *)
(* world may move while it runs: the loader reads the script in one        *)
(* action and the VM is published in another, and an evaluation occupies   *)
(* the mutex between its two actions.                                      *)
(***************************************************************************)
EXTENDS Integers

CONSTANTS Managers,  \* goroutines that start, stop and reload
          Finders,   \* goroutines that evaluate the script
          MaxEdits,  \* bound on the edits of the script
          Broken     \* script versions that cannot be loaded or run

ASSUME EngineAssumption ==
    /\ MaxEdits \in Nat
    /\ Broken \subseteq 0..MaxEdits
    /\ Managers \cap Finders = {}
    /\ "free" \notin Managers \cup Finders

VARIABLES script,    \* the version the loader would read now
          lock,      \* the writer that holds the mutex, or "free"
          isStarted, \* o.isStarted
          vm,        \* the script version o.vm runs, or NilVM
          mpc,       \* where each manager is
          op,        \* the call each manager is in
          loaded,    \* the version in Start's local vm
          outcome,   \* what Start returns to its manager
          fpc,       \* where each finder is
          got,       \* the outcome of each finder's last call
          last,      \* history: the last version published
          seen       \* history: the script's version when a manager called

engineVars == <<script, lock, isStarted, vm, mpc, op, loaded, outcome, fpc, got, last, seen>>

Versions == 0..MaxEdits
NilVM    == -1      \* o.vm = nil
Panicked == -2      \* a call that panicked
Pending  == -3      \* a call that has not returned

-----------------------------------------------------------------------------
Init ==
    /\ script = 0
    /\ lock = "free"
    /\ isStarted = FALSE
    /\ vm = NilVM
    /\ mpc = [m \in Managers |-> "idle"]
    /\ op = [m \in Managers |-> "none"]
    /\ loaded = [m \in Managers |-> 0]
    /\ outcome = [m \in Managers |-> "none"]
    /\ fpc = [f \in Finders |-> "idle"]
    /\ got = [f \in Finders |-> Pending]
    /\ last = 0
    /\ seen = [m \in Managers |-> 0]

(* Somebody edits the script the loader reads.                             *)
Edit ==
    /\ script < MaxEdits
    /\ script' = script + 1
    /\ UNCHANGED <<lock, isStarted, vm, mpc, op, loaded, outcome, fpc, got, last, seen>>

finderVars == <<fpc, got>>

(* A manager moves to state s; nothing but what the action names changes.  *)
Goto(m, s) == mpc' = [mpc EXCEPT ![m] = s]

(* Mutant of Entry: Reload only starts.                                    *)
EntryOfStart(call) == IF call \in {"start", "reload"} THEN "startCheck" ELSE "stopCheck"

(* Reload stops first.                                                     *)
Entry(call) == IF call = "start" THEN "startCheck" ELSE "stopCheck"

(* Call of Start, Stop or Reload, at the first statement of Start or Stop. *)
CallManager(m, call) ==
    /\ mpc[m] = "idle"
    /\ Goto(m, Entry(call))
    /\ op' = [op EXCEPT ![m] = call]
    /\ outcome' = [outcome EXCEPT ![m] = "none"]
    /\ seen' = [seen EXCEPT ![m] = script]
    /\ UNCHANGED <<script, lock, isStarted, vm, loaded, last, finderVars>>

(* Stop: look under the read lock whether there is anything to stop.       *)
StopCheck(m) ==
    /\ mpc[m] = "stopCheck"
    /\ lock = "free"
    /\ Goto(m, IF isStarted THEN "stopLock" ELSE "stopReport")
    /\ UNCHANGED <<script, lock, isStarted, vm, op, loaded, outcome, last, seen, finderVars>>

(* Mutant of StopLocked: isStarted is not reset.                           *)
StopLockedStaysStarted(m) ==
    /\ mpc[m] = "stopLock"
    /\ lock = "free"
    /\ vm' = NilVM
    /\ Goto(m, "stopReport")
    /\ UNCHANGED <<script, lock, isStarted, op, loaded, outcome, last, seen, finderVars>>

(* Stop: under the write lock, look again and drop the VM.                 *)
StopLocked(m) ==
    /\ mpc[m] = "stopLock"
    /\ lock = "free"
    /\ isStarted' = FALSE
    /\ vm' = IF isStarted THEN NilVM ELSE vm
    /\ Goto(m, "stopReport")
    /\ UNCHANGED <<script, lock, op, loaded, outcome, last, seen, finderVars>>

(* Stop's deferred report takes the read lock once more; Reload goes on to *)
(* Start after it, holding nothing.                                        *)
StopReport(m) ==
    /\ mpc[m] = "stopReport"
    /\ lock = "free"
    /\ Goto(m, IF op[m] = "reload" THEN "startCheck" ELSE "idle")
    /\ UNCHANGED <<script, lock, isStarted, vm, op, loaded, outcome, last, seen, finderVars>>

(* Start: an engine that is started already is left alone.                 *)
StartCheck(m) ==
    /\ mpc[m] = "startCheck"
    /\ lock = "free"
    /\ Goto(m, IF isStarted THEN "startReport" ELSE "startLock")
    /\ outcome' = [outcome EXCEPT ![m] = IF isStarted THEN "ok" ELSE @]
    /\ UNCHANGED <<script, lock, isStarted, vm, op, loaded, last, seen, finderVars>>

(* Mutant of StartLocked: no second look under the write lock.             *)
StartLockedBlindly(m) ==
    /\ mpc[m] = "startLock"
    /\ lock = "free"
    /\ Goto(m, "load")
    /\ lock' = m
    /\ UNCHANGED <<script, isStarted, vm, op, loaded, outcome, last, seen, finderVars>>

(* Start: take the write lock and look again.                              *)
StartLocked(m) ==
    /\ mpc[m] = "startLock"
    /\ lock = "free"
    /\ IF isStarted
         THEN /\ Goto(m, "startReport")
              /\ outcome' = [outcome EXCEPT ![m] = "ok"]
              /\ UNCHANGED lock
         ELSE /\ Goto(m, "load")
              /\ lock' = m
              /\ UNCHANGED outcome
    /\ UNCHANGED <<script, isStarted, vm, op, loaded, last, seen, finderVars>>

(* Start: read the script and run it in a new VM.                          *)
Load(m) ==
    /\ mpc[m] = "load"
    /\ script \notin Broken
    /\ Goto(m, "publish")
    /\ loaded' = [loaded EXCEPT ![m] = script]
    /\ UNCHANGED <<script, lock, isStarted, vm, op, outcome, last, seen, finderVars>>

(* Start: the loader or the script fails; the engine stays as it was.      *)
LoadFails(m) ==
    /\ mpc[m] = "load"
    /\ script \in Broken
    /\ Goto(m, "startReport")
    /\ outcome' = [outcome EXCEPT ![m] = "error"]
    /\ lock' = "free"
    /\ UNCHANGED <<script, isStarted, vm, op, loaded, last, seen, finderVars>>

(* Start: install the new VM and unlock.                                   *)
Publish(m) ==
    /\ mpc[m] = "publish"
    /\ vm' = loaded[m]
    /\ isStarted' = TRUE
    /\ last' = loaded[m]
    /\ outcome' = [outcome EXCEPT ![m] = "ok"]
    /\ lock' = "free"
    /\ Goto(m, "startReport")
    /\ UNCHANGED <<script, op, loaded, seen, finderVars>>

(* Start's deferred report, and the return of Start or Reload.             *)
StartReport(m) ==
    /\ mpc[m] = "startReport"
    /\ lock = "free"
    /\ Goto(m, "idle")
    /\ UNCHANGED <<script, lock, isStarted, vm, op, loaded, outcome, last, seen, finderVars>>

managerVars == <<mpc, op, loaded, outcome, last, seen>>

(* FindProxyForURL is called, ...                                          *)
CallFind(f) ==
    /\ fpc[f] = "idle"
    /\ fpc' = [fpc EXCEPT ![f] = "wait"]
    /\ got' = [got EXCEPT ![f] = Pending]
    /\ UNCHANGED <<script, lock, isStarted, vm, managerVars>>

(* ... gets the mutex, ...                                                 *)
LockFind(f) ==
    /\ fpc[f] = "wait"
    /\ lock = "free"
    /\ lock' = f
    /\ fpc' = [fpc EXCEPT ![f] = "eval"]
    /\ UNCHANGED <<script, isStarted, vm, got, managerVars>>

(* Mutant of FindReturns: a nil VM has a verdict.                          *)
FindReturnsAnyway(f) ==
    /\ fpc[f] = "eval"
    /\ fpc' = [fpc EXCEPT ![f] = "idle"]
    /\ got' = [got EXCEPT ![f] = vm]
    /\ lock' = "free"
    /\ UNCHANGED <<script, isStarted, vm, managerVars>>

(* ... and returns the VM's verdict, a list of proxies or an error.        *)
FindReturns(f) ==
    /\ fpc[f] = "eval"
    /\ vm # NilVM
    /\ fpc' = [fpc EXCEPT ![f] = "idle"]
    /\ got' = [got EXCEPT ![f] = vm]
    /\ lock' = "free"
    /\ UNCHANGED <<script, isStarted, vm, managerVars>>

(* Mutant of FindPanics: the unlock is not deferred.                       *)
FindPanicsLocked(f) ==
    /\ fpc[f] = "eval"
    /\ vm = NilVM
    /\ fpc' = [fpc EXCEPT ![f] = "idle"]
    /\ got' = [got EXCEPT ![f] = Panicked]
    /\ UNCHANGED <<script, lock, isStarted, vm, managerVars>>

(* A call on the nil VM panics; the deferred unlock still runs.            *)
FindPanics(f) ==
    /\ fpc[f] = "eval"
    /\ vm = NilVM
    /\ fpc' = [fpc EXCEPT ![f] = "idle"]
    /\ got' = [got EXCEPT ![f] = Panicked]
    /\ lock' = "free"
    /\ UNCHANGED <<script, isStarted, vm, managerVars>>

ManagerStep(m) ==
    \/ StopCheck(m) \/ StopLocked(m) \/ StopReport(m)
    \/ StartCheck(m) \/ StartLocked(m) \/ Load(m) \/ LoadFails(m)
    \/ Publish(m) \/ StartReport(m)

FindStep(f) == LockFind(f) \/ FindReturns(f) \/ FindPanics(f)

Next ==
    \/ Edit
    \/ \E m \in Managers, call \in {"start", "stop", "reload"} : CallManager(m, call)
    \/ \E m \in Managers : ManagerStep(m)
    \/ \E f \in Finders : CallFind(f) \/ FindStep(f)

Spec == Init /\ [][Next]_engineVars

(* A goroutine that can run does, and a goroutine that waits for the mutex *)
(* gets it if it keeps being released: sync.Mutex hands itself over to a   *)
(* waiter that has waited for a millisecond.  Loading and evaluating a     *)
(* script are assumed to terminate.                                        *)
Fairness ==
    /\ \A m \in Managers : SF_engineVars(ManagerStep(m))
    /\ \A f \in Finders : SF_engineVars(FindStep(f))

FairSpec == Spec /\ Fairness

-----------------------------------------------------------------------------
ManagerStates == {"idle", "stopCheck", "stopLock", "stopReport",
                  "startCheck", "startLock", "load", "publish", "startReport"}

(* Every variable keeps its type.                                          *)
TypeOK ==
    /\ script \in Versions
    /\ lock \in {"free"} \cup Managers \cup Finders
    /\ isStarted \in BOOLEAN
    /\ vm \in Versions \cup {NilVM}
    /\ mpc \in [Managers -> ManagerStates]
    /\ op \in [Managers -> {"none", "start", "stop", "reload"}]
    /\ loaded \in [Managers -> Versions]
    /\ outcome \in [Managers -> {"none", "ok", "error"}]
    /\ fpc \in [Finders -> {"idle", "wait", "eval"}]
    /\ got \in [Finders -> Versions \cup {Panicked, Pending}]
    /\ last \in Versions
    /\ seen \in [Managers -> Versions]

(* Whatever managers do to each other between the two critical sections of *)
(* a Reload, a Reload that succeeds leaves an engine that runs at least    *)
(* the script there was when Reload was called, unless it has been stopped *)
(* since (pac/otto.go:347-355).                                            *)
ReloadSeesEdit ==
    \A m \in Managers :
        op[m] = "reload" /\ outcome[m] = "ok" /\ vm # NilVM => vm >= seen[m]

(* Versions are published in the order they were read: no Start overwrites *)
(* a newer VM with one it loaded earlier (pac/otto.go:302-315).            *)
PublishesInOrder ==
    \A m \in Managers : mpc[m] = "publish" => vm = NilVM /\ loaded[m] >= last

(* The mutex is held by exactly the goroutine inside a write section, and  *)
(* a VM is installed exactly while isStarted says so, whoever looks.       *)
OneInside ==
    /\ \A m \in Managers : mpc[m] \in {"load", "publish"} <=> lock = m
    /\ \A f \in Finders : fpc[f] = "eval" <=> lock = f
    /\ isStarted <=> vm # NilVM

(* Every call returns: a panic on a nil VM, a failed load or a stopped     *)
(* engine never leaves the mutex behind (pac/otto.go:69, 337, 359).        *)
CallsReturn ==
    /\ \A m \in Managers : mpc[m] # "idle" ~> mpc[m] = "idle"
    /\ \A f \in Finders : fpc[f] # "idle" ~> fpc[f] = "idle"
=============================================================================
