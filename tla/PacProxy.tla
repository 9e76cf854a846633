------------------------------ MODULE PacProxy ------------------------------
(***************************************************************************)
(* The process (pacproxy.go, pacproxy_signal.go): main starts the engine   *)
(* and serves requests; each request looks its URL up in the decision      *)
(* cache, which asks the engine on a miss; a goroutine receives SIGHUP and *)
(* has the reloadManager reload the engine and then flush the cache.       *)
(*                                                                         *)
(* The decision cache is ProxyCache, the engine OttoEngine.  A decision is *)
(* named by the version of the script that took it.                        *)
(***************************************************************************)
EXTENDS Integers

CONSTANTS Requests,  \* goroutines that serve a request
          Main, Sig, \* the main goroutine and the one that receives signals
          Keys, NoKey, MaxSize, TTL, MaxNow, Nil,    \* see ProxyCache
          MaxEdits, Broken,                          \* see OttoEngine
          SigCap     \* capacity of sigChan

VARIABLES now, items, order, pc, asked, answer,
          script, lock, isStarted, vm, mpc, op, loaded, outcome, fpc, got, last, seen,
          phase,     \* "boot", "up" or "down"
          pending,   \* signals in sigChan
          sigpc,     \* the signal goroutine: "receive", "reload" or "flush"
          told,      \* history: the script's version at the last SIGHUP
          flushed,   \* history: the version the engine ran when the cache was
                     \* last empty by design: at start, or at the last flush
          late       \* history: keys whose lookup had its decision from an
                     \* older script, but had not inserted it, at that flush

cacheVars  == <<now, items, order, pc, asked, answer>>
engineVars == <<script, lock, isStarted, vm, mpc, op, loaded, outcome, fpc, got, last, seen>>
procVars   == <<phase, pending, sigpc, told, flushed, late>>
vars == <<cacheVars, engineVars, procVars>>

Versions == 0..MaxEdits

Engine == INSTANCE OttoEngine WITH Managers <- {Main, Sig}, Finders <- Requests

Cache == INSTANCE ProxyCache
           WITH Callers <- Requests, Answers <- Versions,
                Decide <- [k \in Keys \cup {NoKey} |-> Versions]

ASSUME ProcessAssumption ==
    /\ Main # Sig
    /\ SigCap \in Nat \ {0}
    /\ Engine!EngineAssumption
    /\ Cache!CacheAssumption
    /\ Cache!NilAssumption

-----------------------------------------------------------------------------
Init ==
    /\ Engine!Init
    /\ Cache!Init
    /\ phase = "boot"
    /\ pending = 0
    /\ sigpc = "receive"
    /\ told = 0
    /\ flushed = 0
    /\ late = {}

Up == phase = "up"

(* main: start the engine; log.Panic if that fails.  After it, SIGHUP is   *)
(* caught and connections are served.                                      *)
MainStarts ==
    /\ phase = "boot"
    /\ op[Main] = "none"
    /\ Engine!CallManager(Main, "start")
    /\ UNCHANGED <<cacheVars, procVars>>

MainSteps ==
    /\ phase = "boot"
    /\ Engine!ManagerStep(Main)
    /\ IF mpc'[Main] = "idle"
         THEN IF outcome[Main] = "ok"
                THEN phase' = "up" /\ flushed' = vm
                ELSE phase' = "down" /\ UNCHANGED flushed
         ELSE UNCHANGED <<phase, flushed>>
    /\ UNCHANGED <<cacheVars, pending, sigpc, told, late>>

(* A request looks its URL up; on a miss the engine is called.             *)
Ask(r, k) ==
    /\ Up
    /\ \/ /\ Cache!Hit(r, k)
          /\ UNCHANGED engineVars
       \/ /\ Cache!Bypass(r, k) \/ Cache!MissExpired(r, k) \/ Cache!MissAbsent(r, k)
          /\ Engine!CallFind(r)
    /\ UNCHANGED procVars

EngineTurn(r) ==
    /\ Up
    /\ Engine!LockFind(r)
    /\ UNCHANGED <<cacheVars, procVars>>

Decided(r) ==
    /\ Up
    /\ Engine!FindReturns(r)
    /\ Cache!InnerReturns(r, vm)
    /\ UNCHANGED procVars

(* Mutant of Panics: the panic never reaches the cache.                    *)
PanicsSwallowed(r) ==
    /\ Up
    /\ Engine!FindPanics(r)
    /\ UNCHANGED <<cacheVars, procVars>>

(* net/http recovers the panic and drops the client's connection.          *)
Panics(r) ==
    /\ Up
    /\ Engine!FindPanics(r)
    /\ Cache!InnerPanics(r)
    /\ UNCHANGED procVars

Insert(r) ==
    /\ Up
    /\ Cache!Insert(r)
    /\ UNCHANGED <<engineVars, procVars>>

(* Mutant of Notified: an unbuffered channel takes a signal only while its *)
(* receiver waits.                                                         *)
NotifiedUnbuffered == IF sigpc = "receive" /\ pending = 0 THEN 1 ELSE pending

(* signal.Notify's send, which does not block.                             *)
Notified == IF pending < SigCap THEN pending + 1 ELSE pending

(* The kernel delivers SIGHUP.  Until main has called signal.Notify it     *)
(* kills the process; after, it is dropped when sigChan is full.           *)
Hup ==
    /\ phase \in {"boot", "up"}
    /\ IF Up
         THEN /\ pending' = Notified
              /\ told' = script
              /\ UNCHANGED phase
         ELSE /\ phase' = "down"
              /\ UNCHANGED <<pending, told>>
    /\ UNCHANGED <<cacheVars, engineVars, sigpc, flushed, late>>

(* The signal goroutine takes a signal and calls reloadManager.Reload.     *)
Receive ==
    /\ Up
    /\ sigpc = "receive"
    /\ pending > 0
    /\ pending' = pending - 1
    /\ sigpc' = "reload"
    /\ Engine!CallManager(Sig, "reload")
    /\ UNCHANGED <<cacheVars, phase, told, flushed, late>>

(* Mutant of ReloadSteps: an error is logged and the process goes on.      *)
ReloadStepsOnError ==
    /\ Up
    /\ sigpc = "reload"
    /\ Engine!ManagerStep(Sig)
    /\ sigpc' = IF mpc'[Sig] # "idle" THEN "reload"
                ELSE IF outcome[Sig] = "ok" THEN "flush" ELSE "receive"
    /\ UNCHANGED <<cacheVars, phase, pending, told, flushed, late>>

(* It is inside the engine's Reload; if that returns an error the process  *)
(* dies of log.Panic.                                                      *)
ReloadSteps ==
    /\ Up
    /\ sigpc = "reload"
    /\ Engine!ManagerStep(Sig)
    /\ IF mpc'[Sig] = "idle"
         THEN IF outcome[Sig] = "ok"
                THEN sigpc' = "flush" /\ UNCHANGED phase
                ELSE phase' = "down" /\ UNCHANGED sigpc
         ELSE UNCHANGED <<phase, sigpc>>
    /\ UNCHANGED <<cacheVars, pending, told, flushed, late>>

(* Mutant of Flush: the cache is not flushed.                              *)
FlushNothing ==
    /\ Up
    /\ sigpc = "flush"
    /\ sigpc' = "receive"
    /\ flushed' = vm
    /\ late' = {asked[r] : r \in {q \in Requests : pc[q] = "insert" /\ answer[q] < vm}}
    /\ UNCHANGED <<cacheVars, engineVars, phase, pending, told>>

(* finder.Invalidate("") after a successful reload.                        *)
Flush ==
    /\ Up
    /\ sigpc = "flush"
    /\ Cache!InvalidateAll
    /\ sigpc' = "receive"
    /\ flushed' = vm
    /\ late' = {asked[r] : r \in {q \in Requests : pc[q] = "insert" /\ answer[q] < vm}}
    /\ UNCHANGED <<engineVars, phase, pending, told>>

Edit ==
    /\ Engine!Edit
    /\ phase # "down"
    /\ UNCHANGED <<cacheVars, procVars>>

Tick ==
    /\ Up
    /\ Cache!Tick
    /\ UNCHANGED <<engineVars, procVars>>

(* A dead process does nothing more.                                       *)
Dead == phase = "down" /\ UNCHANGED vars

RequestStep(r) == EngineTurn(r) \/ Decided(r) \/ Panics(r) \/ Insert(r)

Next ==
    \/ MainStarts \/ MainSteps
    \/ \E r \in Requests, k \in Keys \cup {NoKey} : Ask(r, k)
    \/ \E r \in Requests : RequestStep(r)
    \/ Hup \/ Receive \/ ReloadSteps \/ Flush
    \/ Edit \/ Tick \/ Dead

Spec == Init /\ [][Next]_vars

(* Goroutines that can run do; one that waits for the engine's mutex gets  *)
(* it if it keeps being released (see OttoEngine!Fairness).                *)
Fairness ==
    /\ WF_vars(MainStarts) /\ SF_vars(MainSteps)
    /\ \A r \in Requests : SF_vars(RequestStep(r))
    /\ WF_vars(Receive) /\ SF_vars(ReloadSteps) /\ WF_vars(Flush)

FairSpec == Spec /\ Fairness

-----------------------------------------------------------------------------
(* The process's own variables keep their types, and the signal goroutine, *)
(* the engine and the requests agree on where each of them is.             *)
TypeOK ==
    /\ phase \in {"boot", "up", "down"}
    /\ pending \in 0..SigCap
    /\ sigpc \in {"receive", "reload", "flush"}
    /\ told \in Versions /\ flushed \in Versions
    /\ late \subseteq Keys
    /\ phase = "up" => (sigpc = "reload" <=> mpc[Sig] # "idle")
    /\ \A r \in Requests : pc[r] \in {"inner", "bypass"} <=> fpc[r] # "idle"

(* After a reload, decisions of an older script are cached, or about to    *)
(* be, only under keys whose lookup was overtaken by the reload between    *)
(* its evaluation and its insertion.  Every other cached decision is of    *)
(* the script that was reloaded or of a newer one (pacproxy.go:112-118).   *)
StaleOnlyIfLate ==
    /\ \A k \in Keys : items[k] # Nil /\ items[k].answer < flushed => k \in late
    /\ \A r \in Requests : pc[r] = "insert" /\ answer[r] < flushed => asked[r] \in late

(* No request is given a decision of an older script than the one last     *)
(* flushed for, be it served from the cache or evaluated, unless its key's *)
(* lookup was overtaken by that reload (pacproxy.go:90-92, 104-106).       *)
AnswersAreCurrent ==
    [][\A r \in Requests :
          (\E k \in Keys : Ask(r, k) /\ answer'[r] # Nil) \/ Decided(r)
              => answer'[r] >= flushed \/ asked'[r] \in late]_vars

(* While no reload is under way the engine runs the version that was last  *)
(* flushed for, so what the cache misses is decided by that version.       *)
QuietMeansCurrent ==
    Up /\ sigpc = "receive" => vm = flushed

(* A SIGHUP is not forgotten: while the cache has not been flushed for the *)
(* script there was when it arrived, a signal is waiting in the channel or *)
(* the reload under way was called late enough to see that script          *)
(* (pacproxy_signal.go:15, 20-21).                                         *)
SignalIsKept ==
    Up /\ told > flushed =>
        pending > 0 \/ (sigpc # "receive" /\ seen[Sig] >= told)

(* No SIGHUP is lost: although the channel drops signals that arrive while *)
(* it is full, a script edited before a SIGHUP ends up loaded, with the    *)
(* cache flushed for it, unless the process dies (pacproxy_signal.go:15).  *)
HupTakesEffect ==
    \A v \in Versions : Up /\ told = v ~> flushed >= v \/ phase = "down"

(* Every lookup returns, with a decision or by a panic, whatever reloads   *)
(* happen around it.                                                       *)
LookupsReturn ==
    \A r \in Requests : Up /\ pc[r] # "idle" ~> pc[r] = "idle" \/ phase = "down"

(* pacproxy.go:90: "A SIGHUP reload swaps the VM *and* flushes this cache, *)
(* so edited PAC files take effect immediately rather than after the TTL": *)
(* nothing cached is older than the last reload.                           *)
EditsTakeEffect ==
    \A k \in Keys : items[k] # Nil => items[k].answer >= flushed

(* pacproxy.go:91: a reload "swaps the VM": no request finds the engine    *)
(* without one.                                                            *)
VmIsSwapped == \A r \in Requests : got[r] # Engine!Panicked
=============================================================================
