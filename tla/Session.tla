------------------------------- MODULE Session -------------------------------
(***************************************************************************)
(* One sandbox session (internal/sandbox/engine.go, advanced.go): the      *)
(* callers of its API, the execution goroutines EvalAwait starts, the V8   *)
(* Locker those goroutines contend for, and the teardown Dispose performs  *)
(* while they run.                                                         *)
(*                                                                         *)
(* A critical section of s.mu that does nothing but read and write Go      *)
(* fields (the prologue of EvalAwait, of Dispose, IsDisposed) is a single  *)
(* step guarded by mu = NoCall.  The entry points that keep s.mu across    *)
(* RunScript hold it over several steps, and so does nothing else.         *)
(*                                                                         *)
(* JavaScript is abstracted to what the session can tell apart: it runs,   *)
(* it is inside a native callback that blocks in Go, it is inside the      *)
(* native callback that re-enters s.mu (WebSocket.close), or it has ended. *)
(***************************************************************************)
EXTENDS FiniteSets

CONSTANTS
  Evals,      \* calls of Eval, EvalAwait, CallFunction, EvalWithTimeout
  Locked,     \* calls of LoadScript, EvalRaw, PerformMicrotasks, RunPrecompiled
  Swaps,      \* calls of SwapFingerprint
  Drains,     \* calls of DrainWorkerCallbacks
  Disposes,   \* calls of Dispose
  NoCall      \* "nobody", as the holder of a lock

ASSUME CallsAreDistinct ==
  /\ Evals \cap (Locked \cup Swaps \cup Drains \cup Disposes) = {}
  /\ Locked \cap (Swaps \cup Drains \cup Disposes) = {}
  /\ Swaps \cap (Drains \cup Disposes) = {}
  /\ Drains \cap Disposes = {}
  /\ NoCall \notin Evals \cup Locked \cup Swaps \cup Drains \cup Disposes

VARIABLES
  disposed,   \* s.disposed
  mu,         \* the call holding s.mu, or NoCall
  execWG,     \* the evals counted in s.execWG
  ctxOpen,    \* s.ctx has not been closed
  locker,     \* the call whose thread holds the V8 Locker of s.iso, or NoCall
  terminate,  \* a TerminateExecution request V8 has not acted on yet
  isoPooled,  \* s.iso has been handed back with s.pool.Put
  pc,         \* where each call stands
  exec,       \* where the goroutine of each eval stands
  v8          \* where each thread that runs JavaScript stands relative to V8

vars == <<disposed, mu, execWG, ctxOpen, locker, terminate, isoPooled,
          pc, exec, v8>>

Runners == Evals \cup Locked \cup Swaps \cup Drains
Calls   == Runners \cup Disposes

\* "held": s.mu is held across RunScript.  "wait"/"force": the two selects of
\* EvalAwait's caller.  "terminate".."put": the steps of Dispose.
PC == {"idle", "called", "held", "spin", "wait", "force",
       "terminate", "teardown", "await", "close", "put", "returned"}

ExecPC == {"none", "main", "drain", "result", "done"}

V8PC == {"out", "want", "js", "native", "reenter"}

TypeOK ==
  /\ disposed \in BOOLEAN
  /\ mu \in Locked \cup Swaps \cup {NoCall}
  /\ execWG \subseteq Evals
  /\ ctxOpen \in BOOLEAN
  /\ locker \in Runners \cup {NoCall}
  /\ terminate \in BOOLEAN
  /\ isoPooled \in BOOLEAN
  /\ pc \in [Calls -> PC]
  /\ exec \in [Evals -> ExecPC]
  /\ v8 \in [Runners -> V8PC]

Init ==
  /\ disposed = FALSE
  /\ mu = NoCall
  /\ execWG = {}
  /\ ctxOpen = TRUE
  /\ locker = NoCall
  /\ terminate = FALSE
  /\ isoPooled = FALSE
  /\ pc = [c \in Calls |-> "idle"]
  /\ exec = [e \in Evals |-> "none"]
  /\ v8 = [r \in Runners |-> "out"]

goState == <<disposed, execWG, ctxOpen, isoPooled>>    \* fields of Session
v8State == <<locker, terminate>>                       \* of the V8 isolate
threads == <<exec, v8>>

Goto(c, l) == pc' = [pc EXCEPT ![c] = l]

\* Call c moves from one step to the next and changes nothing else.
Jump(c, from, to) ==
  /\ pc[c] = from
  /\ Goto(c, to)
  /\ UNCHANGED <<goState, mu, v8State, threads>>

\* A client makes the call; it now contends for s.mu.
Call(c) == Jump(c, "idle", "called")

\* errDisposed, and the second Dispose: s.disposed is read under s.mu.
Refused(c) ==
  /\ mu = NoCall
  /\ disposed
  /\ Jump(c, "called", "returned")

-----------------------------------------------------------------------------
(* The V8 Locker and what happens inside RunScript.                        *)

MoveV8(r, from, to) ==
  /\ v8[r] = from
  /\ v8' = [v8 EXCEPT ![r] = to]

\* A thread blocked at the entry of RunScript (or of a microtask checkpoint)
\* gets the Locker and starts executing in s.ctx.
EnterV8(r) ==
  /\ MoveV8(r, "want", "js")
  /\ locker = NoCall
  /\ locker' = r
  /\ UNCHANGED <<goState, mu, terminate, pc, exec>>

\* The script calls a native callback that blocks in Go (a synchronous request,
\* the creation of a worker ...), or the one that calls IsDisposed.  The thread
\* keeps the Locker.
CallNative(r) ==
  /\ \E where \in {"native", "reenter"} : MoveV8(r, "js", where)
  /\ UNCHANGED <<goState, mu, v8State, pc, exec>>

NativeReturns(r) ==
  /\ MoveV8(r, "native", "js")
  /\ UNCHANGED <<goState, mu, v8State, pc, exec>>

\* __besWebSocketClose -> IsDisposed: takes and drops s.mu inside the script.
IsDisposedReturns(r) ==
  /\ mu = NoCall
  /\ MoveV8(r, "reenter", "js")
  /\ UNCHANGED <<goState, mu, v8State, pc, exec>>

\* What the call does when its RunScript returns.  The goroutine of EvalAwait goes
\* on to its drain loop unless the main script failed, returned no value, or the
\* call is EvalWithTimeout (~ok); in the loop, errors are logged or ignored.
AfterScript(r, ok) ==
  \/ /\ r \in Evals
     /\ exec' = [exec EXCEPT ![r] = IF exec[r] = "main" /\ ~ok
                                    THEN "result" ELSE "drain"]
     /\ UNCHANGED <<mu, pc>>
  \/ /\ r \in Locked \cup Swaps      \* the deferred s.mu.Unlock
     /\ mu' = NoCall
     /\ Goto(r, "returned")
     /\ UNCHANGED exec
  \/ /\ r \in Drains
     /\ UNCHANGED <<mu, pc, exec>>

\* The script ends by itself, with a value or with an error.
ScriptEnds(r) ==
  /\ MoveV8(r, "js", "out")
  /\ locker' = NoCall
  /\ \E ok \in BOOLEAN : AfterScript(r, ok)
  /\ UNCHANGED <<goState, terminate>>

\* V8 honours a pending TerminateExecution; the request is consumed.
ScriptTerminated(r) ==
  /\ terminate
  /\ terminate' = FALSE
  /\ MoveV8(r, "js", "out")
  /\ locker' = NoCall
  /\ AfterScript(r, FALSE)
  /\ UNCHANGED goState

-----------------------------------------------------------------------------
(* EvalAwait and EvalWithTimeout: the caller.                              *)

\* execWG.Add and the goroutine that will run the script.
Register(e) ==
  /\ pc[e] = "called"
  /\ mu = NoCall
  /\ execWG' = execWG \cup {e}
  /\ exec' = [exec EXCEPT ![e] = "main"]
  /\ v8' = [v8 EXCEPT ![e] = "want"]
  /\ Goto(e, "wait")
  /\ UNCHANGED <<disposed, ctxOpen, isoPooled, v8State>>

\* Mutant: disposed is not checked where the execution is registered.
EvalBeginUnchecked(e) == Register(e) /\ UNCHANGED mu

\* disposed is checked and the execution registered in one critical section.
EvalBegin(e) == Register(e) /\ ~disposed /\ UNCHANGED mu

\* case r := <-resultCh, in either select.
EvalResult(e) ==
  /\ exec[e] \in {"result", "done"}
  /\ Jump(e, "wait", "returned") \/ Jump(e, "force", "returned")

EvalTimeout(e) ==
  /\ pc[e] = "wait"
  /\ terminate' = TRUE
  /\ Goto(e, "force")
  /\ UNCHANGED <<goState, mu, locker, threads>>

\* Mutant: execWG.Done in the caller, which leaves before the goroutine does.
EvalForceQuitDone(e) ==
  /\ pc[e] = "force"
  /\ Goto(e, "returned")
  /\ execWG' = execWG \ {e}
  /\ UNCHANGED <<disposed, ctxOpen, isoPooled, mu, v8State, threads>>

\* evalForceQuitTimeout: the caller leaves, the goroutine stays behind.
EvalForceQuit(e) == Jump(e, "force", "returned")

-----------------------------------------------------------------------------
(* EvalAwait: the goroutine's drain loop and exit.                         *)

\* DrainCallbacks, the microtask checkpoint and the pending-XHR check all run
\* JavaScript, without looking at s.disposed.
DrainStep(e) ==
  /\ exec[e] = "drain"
  /\ MoveV8(e, "out", "want")
  /\ UNCHANGED <<goState, mu, v8State, pc, exec>>

\* Nothing asynchronous is left, the promise settled, or the deadline passed.
DrainExit(e) ==
  /\ exec[e] = "drain"
  /\ v8[e] = "out"
  /\ exec' = [exec EXCEPT ![e] = "result"]
  /\ UNCHANGED <<goState, mu, v8State, pc, v8>>

\* The deferred execWG.Done, after the result was sent.
ExecDone(e) ==
  /\ exec[e] = "result"
  /\ exec' = [exec EXCEPT ![e] = "done"]
  /\ execWG' = execWG \ {e}
  /\ UNCHANGED <<disposed, ctxOpen, isoPooled, mu, v8State, pc, v8>>

-----------------------------------------------------------------------------
(* Entry points that keep s.mu while V8 runs.                              *)

RunLocked(c) ==
  /\ pc[c] = "called"
  /\ mu = NoCall
  /\ mu' = c
  /\ v8' = [v8 EXCEPT ![c] = "want"]
  /\ Goto(c, "held")
  /\ UNCHANGED <<goState, v8State, exec>>

LockedBegin(c) == ~disposed /\ RunLocked(c)

\* SwapFingerprint takes s.mu and runs its snippet; s.disposed is not read.
SwapBegin(c) == RunLocked(c)

\* No fingerprint can be generated for the options: nothing is run.
SwapFails(c) == mu = NoCall /\ Jump(c, "called", "returned")

\* DrainWorkerCallbacks: neither s.mu nor s.execWG; it spins on the callback
\* queue and the microtask checkpoint until its own deadline.
DrainsBegin(c) == Jump(c, "called", "spin")

DrainsStep(c) ==
  /\ pc[c] = "spin"
  /\ MoveV8(c, "out", "want")
  /\ UNCHANGED <<goState, mu, v8State, pc, exec>>

DrainsEnd(c) == v8[c] = "out" /\ Jump(c, "spin", "returned")

-----------------------------------------------------------------------------
(* Dispose, step by step.                                                  *)

DisposeFlip(d) ==
  /\ pc[d] = "called"
  /\ mu = NoCall
  /\ ~disposed
  /\ disposed' = TRUE
  /\ Goto(d, "terminate")
  /\ UNCHANGED <<mu, execWG, ctxOpen, isoPooled, v8State, threads>>

DisposeTerminate(d) ==
  /\ pc[d] = "terminate"
  /\ terminate' = TRUE
  /\ Goto(d, "teardown")
  /\ UNCHANGED <<goState, mu, locker, threads>>

\* workers.disposeAll, websockets.disposeAll, timers.StopAll end.  Worker, WebSocket and
\* Timers say what they do.  The second may never end: closeRaw waits for the lock of a
\* connection, which a write without a deadline keeps while the peer does not read.
DisposeTeardown(d) == Jump(d, "teardown", "await")

\* Mutant: Dispose does not wait for the executions in flight.
DisposeAwaitedNobody(d) == Jump(d, "await", "close")

DisposeAwaited(d) == execWG = {} /\ Jump(d, "await", "close")

\* Mutant: the wait for the executions in flight is not bounded.
DisposeGivesUpNever(d) == execWG = {} /\ Jump(d, "await", "returned")

\* disposeExecWaitTimeout: neither Close nor Put; context and isolate leak.
DisposeGivesUp(d) == execWG # {} /\ Jump(d, "await", "returned")

DisposeClose(d) ==
  /\ pc[d] = "close"
  /\ mu = NoCall
  /\ ctxOpen' = FALSE
  /\ Goto(d, "put")
  /\ UNCHANGED <<disposed, mu, execWG, isoPooled, v8State, threads>>

DisposePut(d) ==
  /\ pc[d] = "put"
  /\ isoPooled' = TRUE
  /\ Goto(d, "returned")
  /\ UNCHANGED <<disposed, mu, execWG, ctxOpen, v8State, threads>>

-----------------------------------------------------------------------------
V8Step(r) ==
  \/ EnterV8(r) \/ ScriptEnds(r) \/ ScriptTerminated(r)
  \/ CallNative(r) \/ NativeReturns(r) \/ IsDisposedReturns(r)

EvalStep(e) ==
  \/ EvalBegin(e) \/ EvalResult(e) \/ EvalTimeout(e) \/ EvalForceQuit(e)
  \/ DrainStep(e) \/ DrainExit(e) \/ ExecDone(e)

DrainsCallStep(c) == DrainsBegin(c) \/ DrainsStep(c) \/ DrainsEnd(c)

DisposeStep(d) ==
  \/ DisposeFlip(d) \/ DisposeTerminate(d) \/ DisposeTeardown(d)
  \/ DisposeAwaited(d) \/ DisposeGivesUp(d) \/ DisposeClose(d) \/ DisposePut(d)

Next ==
  \/ \E c \in Calls : Call(c)
  \/ \E c \in Evals \cup Locked \cup Disposes : Refused(c)
  \/ \E r \in Runners : V8Step(r)
  \/ \E e \in Evals : EvalStep(e)
  \/ \E c \in Locked : LockedBegin(c)
  \/ \E c \in Swaps : SwapBegin(c) \/ SwapFails(c)
  \/ \E c \in Drains : DrainsCallStep(c)
  \/ \E d \in Disposes : DisposeStep(d)

Spec == Init /\ [][Next]_vars

\* The Go runtime runs every runnable goroutine and its timers fire: once a call
\* has been made its own steps happen.  s.mu is a Go mutex, whose starvation mode
\* serves waiters in order: acquiring it is strongly fair.  Nothing is assumed of
\* scripts, which may loop, of native callbacks, which may block for ever, or of the
\* teardown of WebSockets; but V8 does honour a termination request.
GoFairness ==
  /\ \A e \in Evals :
       /\ SF_vars(Refused(e) \/ EvalBegin(e))
       /\ WF_vars(EvalResult(e))
       /\ WF_vars(EvalTimeout(e))
       /\ WF_vars(EvalForceQuit(e))
       /\ WF_vars(ExecDone(e))
  /\ \A d \in Disposes :
       /\ SF_vars(Refused(d) \/ DisposeFlip(d))
       /\ SF_vars(DisposeClose(d))
       /\ WF_vars(DisposeTerminate(d) \/ DisposePut(d))
       /\ WF_vars(DisposeAwaited(d) \/ DisposeGivesUp(d))
  /\ \A r \in Runners : WF_vars(ScriptTerminated(r))

FairSpec == Spec /\ GoFairness

\* Scripts and native callbacks all end, and a thread waiting for the Locker gets
\* it in the end.
ScriptsEnd ==
  \A r \in Runners :
    /\ SF_vars(EnterV8(r))
    /\ SF_vars(ScriptEnds(r))
    /\ WF_vars(NativeReturns(r))
    /\ SF_vars(IsDisposedReturns(r))

BenignSpec ==
  /\ FairSpec
  /\ ScriptsEnd
  /\ \A c \in Locked : SF_vars(Refused(c) \/ LockedBegin(c))
  /\ \A e \in Evals : WF_vars(DrainExit(e))
  /\ \A d \in Disposes : WF_vars(DisposeTeardown(d))

-----------------------------------------------------------------------------
InV8(r) == v8[r] \in {"js", "native", "reenter"}

\* "errDisposed is returned by V8 entry points when the session has already been
\* disposed": no thread executes JavaScript in a context that Dispose closed.
NoUseAfterClose == \A r \in Runners : InV8(r) => ctxOpen

\* The same for the entry points that check s.disposed under s.mu: they are safe
\* even in a program that also uses those that do not check it.
GuardedNoUseAfterClose == \A r \in Evals \cup Locked : InV8(r) => ctxOpen

\* Once the isolate is back in the pool, where another session may take it, no call
\* that was admitted is inside V8, waits to enter it, or has work left that would:
\* not even a goroutine whose caller force-quit long ago.
PooledIsQuiet ==
  isoPooled => /\ \A r \in Evals \cup Locked : v8[r] = "out"
               /\ \A e \in Evals : exec[e] \in {"none", "done"}

\* The WaitGroup counts exactly the goroutines that may still touch V8, including
\* those abandoned by a caller that gave up after evalForceQuitTimeout.
ExecWGCountsLive == execWG = {e \in Evals : exec[e] \in {"main", "drain", "result"}}

\* s.mu is held exactly by the call that keeps it across its script, and no thread
\* is in V8, or on its way there, without being counted in execWG or holding s.mu
\* (DrainWorkerCallbacks apart).
Admitted ==
  /\ \A c \in Locked \cup Swaps : pc[c] = "held" <=> mu = c
  /\ \A c \in Locked \cup Swaps : v8[c] # "out" => pc[c] = "held"
  /\ \A e \in Evals : v8[e] # "out" => exec[e] \in {"main", "drain"}

\* What the call that carries out Dispose knows at each of its steps.
DisposeKnows ==
  \A d \in Disposes :
    /\ pc[d] \in {"terminate", "teardown", "await", "close", "put"} => disposed
    /\ pc[d] \in {"close", "put"} => execWG = {}
    /\ pc[d] = "put" => ~ctxOpen

\* A closed context has no user left, and none can come.
ClosedForGood ==
  /\ ~ctxOpen => disposed /\ execWG = {} /\ mu \notin Locked
  /\ isoPooled => ~ctxOpen

\* The inductive invariant behind the safety properties: execWG and s.mu account
\* for every guarded thread that may touch V8, and Dispose closes the context
\* only in a state where both are empty.
SafetyInv ==
  /\ TypeOK
  /\ ExecWGCountsLive
  /\ Admitted
  /\ DisposeKnows
  /\ ClosedForGood

\* The session keeps the promise of the abstract SessionContract: work is admitted
\* only while the session is live, and the context is closed and the isolate given
\* back only when all admitted work has left.
Contract == INSTANCE SessionContract WITH
  Users <- Evals \cup Locked,
  phase <- IF isoPooled THEN "returned"
           ELSE IF ~ctxOpen THEN "closed"
           ELSE IF disposed THEN "closing" ELSE "live",
  users <- execWG \cup {c \in Locked : pc[c] = "held"}

KeepsContract == Contract!Spec

\* LoadScript and its like may keep s.mu for ever, with a script that loops or one that
\* calls IsDisposed: NeverDeadlocks is about that.  The other calls return if they do not.
MuComesFree == []<>(mu = NoCall)

\* Every evaluation returns to its caller, whatever the script does: a loop is
\* terminated and a blocked native callback is abandoned after the force-quit wait.
\* And Dispose comes as far as the teardown of the workers, WebSockets and timers, and
\* once that is over it returns, whatever evaluations, native callbacks and second
\* Dispose calls are under way: its wait for them is bounded, and it holds no lock
\* while it waits.  (No call is made twice: to be here again and again is to end here.)
CallsReturn ==
  MuComesFree =>
    /\ \A e \in Evals : []<>(pc[e] \in {"idle", "returned"})
    /\ \A d \in Disposes : []<>(pc[d] \in {"idle", "teardown", "returned"})

\* "Dispose snapshots+flips disposed and returns the lock ... so this never
\* deadlocks": with scripts, native callbacks and writes that end, Dispose returns.
NeverDeadlocks == \A d \in Disposes : pc[d] = "called" ~> pc[d] = "returned"
=============================================================================
