---------------------------- MODULE SessionProofs ----------------------------
(***************************************************************************)
(* Proofs about Session, for any number of calls of each kind: the         *)
(* inductive invariant SafetyInv, the safety properties that follow from   *)
(* it, the refinement of SessionContract, and when its two locks deadlock; *)
(* and about the workers of a session (Worker), any number of them, with   *)
(* mailboxes of any capacity.                                              *)
(***************************************************************************)
EXTENDS Session, Worker, TLAPS, SequenceTheorems

\* CreateSession leaves the session in a state that satisfies the invariant.
LEMMA InitSafetyInv == Init => SafetyInv
<1> SUFFICES ASSUME Init PROVE SafetyInv
  OBVIOUS
<1> USE CallsAreDistinct DEF Init, Calls, Runners
<1>1. TypeOK
  BY DEF TypeOK, PC, ExecPC, V8PC
<1>2. Admitted
  BY DEF Admitted
<1>3. QED
  BY <1>1, <1>2 DEF SafetyInv, ExecWGCountsLive, DisposeKnows, ClosedForGood

\* No step of any call, thread or Dispose breaks the invariant.
LEMMA NextSafetyInv == SafetyInv /\ [Next]_vars => SafetyInv'
<1> USE CallsAreDistinct
    DEF SafetyInv, TypeOK, ExecWGCountsLive, Admitted, DisposeKnows,
        ClosedForGood, PC, ExecPC, V8PC, Calls, Runners
<1> SUFFICES ASSUME SafetyInv, [Next]_vars
             PROVE  SafetyInv'
  OBVIOUS
<1> USE DEF goState, v8State, threads, Goto, Jump
<1>1. ASSUME NEW c \in Calls, Call(c) PROVE SafetyInv'
  BY <1>1 DEF Call
<1>2. ASSUME NEW c \in Evals \cup Locked \cup Disposes, Refused(c)
      PROVE  SafetyInv'
  BY <1>2 DEF Refused
<1>3. ASSUME NEW r \in Runners, EnterV8(r) PROVE SafetyInv'
  BY <1>3 DEF EnterV8, MoveV8
<1>4. ASSUME NEW r \in Runners, ScriptEnds(r) \/ ScriptTerminated(r)
      PROVE  SafetyInv'
  <2>1. /\ v8[r] = "js"
        /\ v8' = [v8 EXCEPT ![r] = "out"]
        /\ UNCHANGED <<disposed, execWG, ctxOpen, isoPooled>>
        /\ locker' = NoCall
        /\ terminate' \in BOOLEAN
    BY <1>4 DEF ScriptEnds, ScriptTerminated, MoveV8
  <2>2. PICK ok \in BOOLEAN : AfterScript(r, ok)
    BY <1>4 DEF ScriptEnds, ScriptTerminated
  <2>3. CASE r \in Evals
    BY <2>1, <2>2, <2>3 DEF AfterScript
  <2>4. CASE r \in Locked \cup Swaps
    <3>1. /\ mu' = NoCall
          /\ pc' = [pc EXCEPT ![r] = "returned"]
          /\ UNCHANGED exec
      BY <2>2, <2>4 DEF AfterScript
    <3>2. TypeOK' /\ Admitted'
      BY <2>1, <2>4, <3>1
    <3>3. QED
      BY <2>1, <2>4, <3>1, <3>2
  <2>5. CASE r \in Drains
    <3>1. UNCHANGED <<mu, pc, exec>>
      BY <2>2, <2>5 DEF AfterScript
    <3>2. QED
      BY <2>1, <2>5, <3>1
  <2>6. QED
    BY <2>3, <2>4, <2>5
<1>5. ASSUME NEW r \in Runners, CallNative(r) PROVE SafetyInv'
  BY <1>5 DEF CallNative, MoveV8
<1>6. ASSUME NEW r \in Runners, NativeReturns(r) PROVE SafetyInv'
  BY <1>6 DEF NativeReturns, MoveV8
<1>7. ASSUME NEW r \in Runners, IsDisposedReturns(r) PROVE SafetyInv'
  BY <1>7 DEF IsDisposedReturns, MoveV8
<1>8. ASSUME NEW e \in Evals, EvalBegin(e) PROVE SafetyInv'
  BY <1>8 DEF EvalBegin, Register
<1>9. ASSUME NEW e \in Evals, EvalResult(e) PROVE SafetyInv'
  BY <1>9 DEF EvalResult
<1>10. ASSUME NEW e \in Evals, EvalTimeout(e) PROVE SafetyInv'
  BY <1>10 DEF EvalTimeout
<1>11. ASSUME NEW e \in Evals, EvalForceQuit(e) PROVE SafetyInv'
  BY <1>11 DEF EvalForceQuit
<1>12. ASSUME NEW e \in Evals, DrainStep(e) PROVE SafetyInv'
  BY <1>12 DEF DrainStep, MoveV8
<1>13. ASSUME NEW e \in Evals, DrainExit(e) PROVE SafetyInv'
  BY <1>13 DEF DrainExit
<1>14. ASSUME NEW e \in Evals, ExecDone(e) PROVE SafetyInv'
  BY <1>14 DEF ExecDone
<1>15. ASSUME NEW c \in Locked, LockedBegin(c) PROVE SafetyInv'
  BY <1>15 DEF LockedBegin, RunLocked
<1>16. ASSUME NEW c \in Swaps, SwapBegin(c) \/ SwapFails(c) PROVE SafetyInv'
  BY <1>16 DEF SwapBegin, RunLocked, SwapFails
<1>17. ASSUME NEW c \in Drains, DrainsCallStep(c) PROVE SafetyInv'
  BY <1>17 DEF DrainsCallStep, DrainsBegin, DrainsStep, DrainsEnd, MoveV8
<1>18. ASSUME NEW d \in Disposes, DisposeFlip(d) PROVE SafetyInv'
  BY <1>18 DEF DisposeFlip
<1>19. ASSUME NEW d \in Disposes, DisposeTerminate(d) PROVE SafetyInv'
  BY <1>19 DEF DisposeTerminate
<1>20. ASSUME NEW d \in Disposes, DisposeTeardown(d) PROVE SafetyInv'
  BY <1>20 DEF DisposeTeardown
<1>21. ASSUME NEW d \in Disposes, DisposeAwaited(d) PROVE SafetyInv'
  BY <1>21 DEF DisposeAwaited
<1>22. ASSUME NEW d \in Disposes, DisposeGivesUp(d) PROVE SafetyInv'
  BY <1>22 DEF DisposeGivesUp
<1>23. ASSUME NEW d \in Disposes, DisposeClose(d) PROVE SafetyInv'
  BY <1>23 DEF DisposeClose
<1>24. ASSUME NEW d \in Disposes, DisposePut(d) PROVE SafetyInv'
  BY <1>24 DEF DisposePut
<1>25. CASE UNCHANGED vars
  BY <1>25 DEF vars
<1>26. QED
  BY <1>1, <1>2, <1>3, <1>4, <1>5, <1>6, <1>7, <1>8, <1>9, <1>10, <1>11,
     <1>12, <1>13, <1>14, <1>15, <1>16, <1>17, <1>18, <1>19, <1>20, <1>21,
     <1>22, <1>23, <1>24, <1>25
  DEF Next, V8Step, EvalStep, DisposeStep

\* The inductive invariant: execWG and s.mu account for every guarded thread that
\* may touch V8, and Dispose closes the context only when both are empty.
THEOREM SafetyInvariant == Spec => []SafetyInv
<1>1. Init => SafetyInv
  BY InitSafetyInv
<1>2. SafetyInv /\ [Next]_vars => SafetyInv'
  BY NextSafetyInv
<1>3. QED
  BY <1>1, <1>2, PTL DEF Spec

\* Every variable keeps its type, however many calls are made.
THEOREM TypeCorrect == Spec => []TypeOK
<1>1. SafetyInv => TypeOK
  BY DEF SafetyInv
<1>2. QED
  BY <1>1, SafetyInvariant, PTL

\* The entry points that check disposed under s.mu never run JavaScript in a
\* closed context, even next to SwapFingerprint and DrainWorkerCallbacks.
THEOREM GuardedCallsAreSafe == Spec => []GuardedNoUseAfterClose
<1>1. SafetyInv => GuardedNoUseAfterClose
  <2> SUFFICES ASSUME SafetyInv, NEW r \in Evals \cup Locked, InV8(r)
               PROVE  ctxOpen
    BY DEF GuardedNoUseAfterClose
  <2>1. v8[r] # "out"
    BY DEF InV8
  <2>2. CASE r \in Evals
    BY <2>1, <2>2 DEF SafetyInv, Admitted, ExecWGCountsLive, ClosedForGood
  <2>3. CASE r \in Locked
    BY <2>1, <2>3 DEF SafetyInv, Admitted, ClosedForGood
  <2>4. QED
    BY <2>2, <2>3
<1>2. QED
  BY <1>1, SafetyInvariant, PTL

\* The WaitGroup counts exactly the goroutines that may still touch V8.
THEOREM ExecWGIsExact == Spec => []ExecWGCountsLive
<1>1. SafetyInv => ExecWGCountsLive
  BY DEF SafetyInv
<1>2. QED
  BY <1>1, SafetyInvariant, PTL

\* An isolate that is back in the pool is idle: no call that was admitted is in V8
\* or will enter it again.
THEOREM PooledIsolateIsIdle == Spec => []PooledIsQuiet
<1>1. SafetyInv => PooledIsQuiet
  <2> SUFFICES ASSUME SafetyInv, isoPooled PROVE PooledIsQuiet
    BY DEF PooledIsQuiet
  <2>1. /\ execWG = {}
        /\ mu \notin Locked
    BY DEF SafetyInv, ClosedForGood
  <2>2. \A e \in Evals : exec[e] \in {"none", "done"}
    BY <2>1 DEF SafetyInv, ExecWGCountsLive, TypeOK, ExecPC
  <2>3. \A r \in Evals \cup Locked : v8[r] = "out"
    BY <2>1, <2>2 DEF SafetyInv, Admitted
  <2>4. QED
    BY <2>2, <2>3 DEF PooledIsQuiet
<1>2. QED
  BY <1>1, SafetyInvariant, PTL

-----------------------------------------------------------------------------
(* Refinement of SessionContract.                                          *)

Phase == IF isoPooled THEN "returned"
         ELSE IF ~ctxOpen THEN "closed"
         ELSE IF disposed THEN "closing" ELSE "live"

UsersNow == execWG \cup {c \in Locked : pc[c] = "held"}

\* A step that leaves the users and the phase alone is a stutter of the contract.
LEMMA ContractStutters ==
  UNCHANGED <<Phase, UsersNow>> => [Contract!Next]_(Contract!vars)
BY DEF Phase, UsersNow, Contract!vars

\* From states where the invariant holds, every step of the session is a step or a
\* stutter of its contract.
LEMMA ContractStep ==
  SafetyInv /\ SafetyInv' /\ [Next]_vars => [Contract!Next]_(Contract!vars)
<1> SUFFICES ASSUME SafetyInv, SafetyInv', [Next]_vars
             PROVE  [Contract!Next]_(Contract!vars)
  OBVIOUS
<1> USE CallsAreDistinct DEF Calls, Runners, goState, v8State, threads, Goto, Jump
<1>1. ASSUME UNCHANGED goState,
             \A c \in Locked : pc'[c] = "held" <=> pc[c] = "held"
      PROVE  [Contract!Next]_(Contract!vars)
  BY <1>1, ContractStutters DEF Phase, UsersNow
<1>2. ASSUME NEW c \in Calls, Call(c) PROVE [Contract!Next]_(Contract!vars)
  BY <1>1, <1>2 DEF Call, SafetyInv, TypeOK
<1>3. ASSUME NEW c \in Evals \cup Locked \cup Disposes, Refused(c)
      PROVE  [Contract!Next]_(Contract!vars)
  BY <1>1, <1>3 DEF Refused, SafetyInv, TypeOK
<1>4. ASSUME NEW r \in Runners, V8Step(r) PROVE [Contract!Next]_(Contract!vars)
  <2>1. CASE EnterV8(r) \/ CallNative(r) \/ NativeReturns(r) \/ IsDisposedReturns(r)
    BY <1>1, <2>1 DEF EnterV8, CallNative, NativeReturns, IsDisposedReturns
  <2>2. CASE ScriptEnds(r) \/ ScriptTerminated(r)
    <3>1. UNCHANGED goState /\ \E ok \in BOOLEAN : AfterScript(r, ok)
      BY <2>2 DEF ScriptEnds, ScriptTerminated
    <3>2. CASE r \in Locked
      <4>1. pc' = [pc EXCEPT ![r] = "returned"]
        BY <3>1, <3>2 DEF AfterScript
      <4>2. UsersNow' = UsersNow \ {r} /\ Phase' = Phase
        BY <3>1, <3>2, <4>1 DEF UsersNow, Phase, SafetyInv, TypeOK
      <4>3. QED
        BY <3>2, <4>2 DEF UsersNow, Phase, Contract!Next, Contract!Leave
    <3>3. CASE r \notin Locked
      BY <1>1, <3>1, <3>3 DEF AfterScript, SafetyInv, TypeOK
    <3>4. QED
      BY <3>2, <3>3
  <2>3. QED
    BY <1>4, <2>1, <2>2 DEF V8Step
<1>5. ASSUME NEW e \in Evals, EvalBegin(e) PROVE [Contract!Next]_(Contract!vars)
  <2>1. UsersNow' = UsersNow \cup {e}
    BY <1>5 DEF EvalBegin, Register, UsersNow, SafetyInv, TypeOK
  <2>2. Phase = "live" /\ Phase' = Phase
    BY <1>5 DEF EvalBegin, Register, Phase, SafetyInv, ClosedForGood
  <2>3. QED
    BY <2>1, <2>2 DEF UsersNow, Phase, Contract!Next, Contract!Admit
<1>6. ASSUME NEW e \in Evals,
             \/ EvalResult(e) \/ EvalTimeout(e) \/ EvalForceQuit(e)
             \/ DrainStep(e) \/ DrainExit(e)
      PROVE  [Contract!Next]_(Contract!vars)
  BY <1>1, <1>6 DEF EvalResult, EvalTimeout, EvalForceQuit, DrainStep, DrainExit,
                    SafetyInv, TypeOK
<1>7. ASSUME NEW e \in Evals, ExecDone(e) PROVE [Contract!Next]_(Contract!vars)
  <2>1. UsersNow' = UsersNow \ {e} /\ Phase' = Phase
    BY <1>7 DEF ExecDone, UsersNow, Phase, SafetyInv, TypeOK
  <2>2. QED
    BY <2>1 DEF UsersNow, Phase, Contract!Next, Contract!Leave
<1>8. ASSUME NEW c \in Locked, LockedBegin(c) PROVE [Contract!Next]_(Contract!vars)
  <2>1. UsersNow' = UsersNow \cup {c}
    BY <1>8 DEF LockedBegin, RunLocked, UsersNow, SafetyInv, TypeOK
  <2>2. Phase = "live" /\ Phase' = Phase
    BY <1>8 DEF LockedBegin, RunLocked, Phase, SafetyInv, ClosedForGood
  <2>3. QED
    BY <2>1, <2>2 DEF UsersNow, Phase, Contract!Next, Contract!Admit
<1>9. ASSUME NEW c \in Swaps, SwapBegin(c) \/ SwapFails(c)
      PROVE  [Contract!Next]_(Contract!vars)
  BY <1>1, <1>9 DEF SwapBegin, RunLocked, SwapFails, SafetyInv, TypeOK
<1>10. ASSUME NEW c \in Drains, DrainsCallStep(c)
       PROVE  [Contract!Next]_(Contract!vars)
  BY <1>1, <1>10 DEF DrainsCallStep, DrainsBegin, DrainsStep, DrainsEnd,
                     SafetyInv, TypeOK
<1>11. ASSUME NEW d \in Disposes, DisposeFlip(d)
       PROVE  [Contract!Next]_(Contract!vars)
  <2>1. UsersNow' = UsersNow
    BY <1>11 DEF DisposeFlip, UsersNow, SafetyInv, TypeOK
  <2>2. Phase = "live" /\ Phase' = "closing"
    BY <1>11 DEF DisposeFlip, Phase, SafetyInv, ClosedForGood
  <2>3. QED
    BY <2>1, <2>2 DEF UsersNow, Phase, Contract!Next, Contract!StartClosing
<1>12. ASSUME NEW d \in Disposes,
              \/ DisposeTerminate(d) \/ DisposeTeardown(d)
              \/ DisposeAwaited(d) \/ DisposeGivesUp(d)
       PROVE  [Contract!Next]_(Contract!vars)
  BY <1>1, <1>12 DEF DisposeTerminate, DisposeTeardown, DisposeAwaited,
                     DisposeGivesUp, SafetyInv, TypeOK
<1>13. ASSUME NEW d \in Disposes, DisposeClose(d)
       PROVE  [Contract!Next]_(Contract!vars)
  <2>1. UsersNow = {} /\ UsersNow' = UsersNow
    BY <1>13 DEF DisposeClose, UsersNow, SafetyInv, TypeOK, DisposeKnows, Admitted
  <2>2. disposed
    BY <1>13 DEF DisposeClose, SafetyInv, DisposeKnows
  <2>3. CASE ctxOpen
    <3>1. Phase = "closing" /\ Phase' = "closed"
      BY <1>13, <2>2, <2>3 DEF DisposeClose, Phase, SafetyInv, ClosedForGood
    <3>2. QED
      BY <2>1, <3>1 DEF UsersNow, Phase, Contract!Next, Contract!CloseContext
  <2>4. CASE ~ctxOpen
    BY <1>13, <2>1, <2>4, ContractStutters
       DEF DisposeClose, Phase, SafetyInv, TypeOK
  <2>5. QED
    BY <2>3, <2>4
<1>14. ASSUME NEW d \in Disposes, DisposePut(d)
       PROVE  [Contract!Next]_(Contract!vars)
  <2>1. UsersNow' = UsersNow
    BY <1>14 DEF DisposePut, UsersNow, SafetyInv, TypeOK
  <2>2. Phase \in {"closed", "returned"} /\ Phase' = "returned"
    BY <1>14 DEF DisposePut, Phase, SafetyInv, DisposeKnows
  <2>3. QED
    BY <2>1, <2>2, ContractStutters
       DEF UsersNow, Phase, Contract!Next, Contract!ReturnIsolate
<1>15. CASE UNCHANGED vars
  BY <1>15, <1>1 DEF vars
<1>16. QED
  BY <1>2, <1>3, <1>4, <1>5, <1>6, <1>7, <1>8, <1>9, <1>10, <1>11, <1>12, <1>13,
     <1>14, <1>15
  DEF Next, EvalStep, DisposeStep

\* The session implements its contract, whatever calls are made on it.
THEOREM SessionKeepsContract == Spec => KeepsContract
<1>1. Init => Contract!Init
  BY DEF Init, Contract!Init, Calls, Runners
<1>2. SafetyInv /\ SafetyInv' /\ [Next]_vars => [Contract!Next]_(Contract!vars)
  BY ContractStep
<1>3. Spec => []SafetyInv
  BY SafetyInvariant
<1>4. Spec => Contract!Init /\ [][Contract!Next]_(Contract!vars)
  BY <1>1, <1>2, <1>3, PTL DEF Spec
<1>5. QED
  BY <1>4 DEF KeepsContract, Contract!Spec

-----------------------------------------------------------------------------
(* The two locks of a session, s.mu and the V8 Locker. *)

\* A thread has the V8 Locker exactly while it executes JavaScript or a native callback of
\* it, and no two threads do.
LockerInv == \A r \in Runners : locker = r <=> InV8(r)

LEMMA InitLocker == Init => LockerInv
BY CallsAreDistinct DEF Init, LockerInv, InV8, Runners

\* An evaluation has no goroutine before it is registered.
Unregistered == \A e \in Evals : pc[e] \in {"idle", "called"} => exec[e] = "none"

LEMMA InitUnregistered == Init => Unregistered
BY DEF Init, Unregistered

LEMMA UnregisteredStep ==
  ASSUME SafetyInv, Unregistered, [Next]_vars
  PROVE  Unregistered'
<1> USE CallsAreDistinct DEF Unregistered, SafetyInv, TypeOK, Calls, Runners, Jump, Goto, threads
<1>1. ASSUME NEW c \in Calls, Call(c) PROVE Unregistered'
  BY <1>1 DEF Call
<1>2. ASSUME NEW c \in Evals \cup Locked \cup Disposes, Refused(c) PROVE Unregistered'
  BY <1>2 DEF Refused
<1>3. ASSUME NEW r \in Runners, EnterV8(r) \/ CallNative(r) \/ NativeReturns(r)
                                \/ IsDisposedReturns(r)
      PROVE  Unregistered'
  BY <1>3 DEF EnterV8, CallNative, NativeReturns, IsDisposedReturns
<1>4. ASSUME NEW r \in Runners, ScriptEnds(r) \/ ScriptTerminated(r) PROVE Unregistered'
  <2>1. PICK ok \in BOOLEAN : AfterScript(r, ok)
    BY <1>4 DEF ScriptEnds, ScriptTerminated
  <2>2. v8[r] = "js"
    BY <1>4 DEF ScriptEnds, ScriptTerminated, MoveV8
  <2>3. CASE r \in Evals
    <3>1. exec[r] \in {"main", "drain"} /\ pc' = pc
      BY <2>1, <2>2, <2>3 DEF AfterScript, Admitted
    <3>2. pc[r] \notin {"idle", "called"}
      BY <2>3, <3>1
    <3>3. exec' = [exec EXCEPT ![r] = IF exec[r] = "main" /\ ~ok THEN "result" ELSE "drain"]
      BY <2>1, <2>3 DEF AfterScript
    <3> QED BY <3>1, <3>2, <3>3
  <2>4. CASE r \in Locked \cup Swaps \cup Drains
    BY <2>1, <2>4 DEF AfterScript
  <2> QED BY <2>3, <2>4
<1>5. ASSUME NEW e \in Evals, EvalBegin(e) PROVE Unregistered'
  BY <1>5 DEF EvalBegin, Register
<1>6. ASSUME NEW e \in Evals, EvalResult(e) \/ EvalTimeout(e) \/ EvalForceQuit(e)
      PROVE  Unregistered'
  BY <1>6 DEF EvalResult, EvalTimeout, EvalForceQuit
<1>7. ASSUME NEW e \in Evals, DrainStep(e) \/ DrainExit(e) \/ ExecDone(e) PROVE Unregistered'
  BY <1>7 DEF DrainStep, DrainExit, ExecDone
<1>8. ASSUME NEW c \in Locked \cup Swaps, LockedBegin(c) \/ SwapBegin(c) \/ SwapFails(c)
      PROVE  Unregistered'
  BY <1>8 DEF LockedBegin, SwapBegin, RunLocked, SwapFails
<1>9. ASSUME NEW c \in Drains, DrainsCallStep(c) PROVE Unregistered'
  BY <1>9 DEF DrainsCallStep, DrainsBegin, DrainsStep, DrainsEnd
<1>10. ASSUME NEW d \in Disposes, DisposeStep(d) PROVE Unregistered'
  BY <1>10 DEF DisposeStep, DisposeFlip, DisposeTerminate, DisposeTeardown, DisposeAwaited,
     DisposeGivesUp, DisposeClose, DisposePut
<1>11. CASE UNCHANGED vars
  BY <1>11 DEF vars
<1> QED BY <1>1, <1>2, <1>3, <1>4, <1>5, <1>6, <1>7, <1>8, <1>9, <1>10, <1>11
        DEF Next, V8Step, EvalStep

\* What a step does to the two locks: nothing, or what one thread may do to them.
LockStep(r) ==
  \/ EnterV8(r) \/ CallNative(r) \/ NativeReturns(r) \/ IsDisposedReturns(r)
  \/ ScriptEnds(r) \/ ScriptTerminated(r)
  \/ r \in Locked \cup Swaps /\ RunLocked(r)
  \/ MoveV8(r, "out", "want") /\ UNCHANGED <<mu, locker>>

LEMMA WhoLocks ==
  ASSUME SafetyInv, Unregistered, [Next]_vars
  PROVE  UNCHANGED <<mu, locker, v8>> \/ \E r \in Runners : LockStep(r)
<1> DEFINE Goal == UNCHANGED <<mu, locker, v8>> \/ \E r \in Runners : LockStep(r)
<1> USE DEF Jump, Goto, v8State, threads, Runners
<1>1. ASSUME NEW c \in Calls, Call(c) PROVE Goal
  BY <1>1 DEF Call
<1>2. ASSUME NEW c \in Evals \cup Locked \cup Disposes, Refused(c) PROVE Goal
  BY <1>2 DEF Refused
<1>3. ASSUME NEW r \in Runners, V8Step(r) PROVE Goal
  BY <1>3 DEF V8Step, LockStep
<1>4. ASSUME NEW e \in Evals, EvalBegin(e) PROVE Goal
  <2>1. pc[e] = "called" /\ v8' = [v8 EXCEPT ![e] = "want"] /\ UNCHANGED <<mu, locker>>
    BY <1>4 DEF EvalBegin, Register
  <2>2. exec[e] = "none" /\ v8[e] \in V8PC
    BY <2>1 DEF Unregistered, SafetyInv, TypeOK
  <2>3. v8[e] = "out"
    BY <2>2 DEF SafetyInv, Admitted
  <2> QED BY <2>1, <2>3 DEF LockStep, MoveV8
<1>5. ASSUME NEW e \in Evals, EvalResult(e) \/ EvalTimeout(e) \/ EvalForceQuit(e) PROVE Goal
  BY <1>5 DEF EvalResult, EvalTimeout, EvalForceQuit
<1>6. ASSUME NEW e \in Evals, DrainStep(e) \/ DrainExit(e) \/ ExecDone(e) PROVE Goal
  BY <1>6 DEF DrainStep, DrainExit, ExecDone, LockStep, MoveV8
<1>7. ASSUME NEW c \in Locked, LockedBegin(c) PROVE Goal
  BY <1>7 DEF LockedBegin, LockStep
<1>8. ASSUME NEW c \in Swaps, SwapBegin(c) \/ SwapFails(c) PROVE Goal
  BY <1>8 DEF SwapBegin, SwapFails, LockStep
<1>9. ASSUME NEW c \in Drains, DrainsCallStep(c) PROVE Goal
  BY <1>9 DEF DrainsCallStep, DrainsBegin, DrainsStep, DrainsEnd, LockStep, MoveV8
<1>10. ASSUME NEW d \in Disposes, DisposeStep(d) PROVE Goal
  BY <1>10 DEF DisposeStep, DisposeFlip, DisposeTerminate, DisposeTeardown, DisposeAwaited,
     DisposeGivesUp, DisposeClose, DisposePut
<1>11. CASE UNCHANGED vars
  BY <1>11 DEF vars
<1> QED BY <1>1, <1>2, <1>3, <1>4, <1>5, <1>6, <1>7, <1>8, <1>9, <1>10, <1>11 DEF Next, EvalStep

LEMMA LockerStep ==
  ASSUME SafetyInv, Unregistered, LockerInv, [Next]_vars
  PROVE  LockerInv'
<1>1. CASE UNCHANGED <<mu, locker, v8>>
  BY <1>1 DEF LockerInv, InV8
<1>2. ASSUME NEW r \in Runners, LockStep(r) PROVE LockerInv'
  <2> USE DEF LockerInv, InV8, MoveV8, SafetyInv, TypeOK
  <2>0. NoCall \notin Runners
    BY CallsAreDistinct DEF Runners
  <2>1. CASE EnterV8(r)
    BY <2>0, <2>1 DEF EnterV8
  <2>2. CASE CallNative(r) \/ NativeReturns(r) \/ IsDisposedReturns(r)
    BY <2>2 DEF CallNative, NativeReturns, IsDisposedReturns, v8State
  <2>3. CASE ScriptEnds(r) \/ ScriptTerminated(r)
    BY <2>0, <2>3 DEF ScriptEnds, ScriptTerminated
  <2>4. CASE r \in Locked \cup Swaps /\ RunLocked(r)
    <3>1. v8[r] = "out"
      BY <2>4 DEF RunLocked, Admitted
    <3> QED BY <2>4, <3>1 DEF RunLocked, v8State
  <2>5. CASE MoveV8(r, "out", "want") /\ UNCHANGED <<mu, locker>>
    BY <2>5
  <2> QED BY <1>2, <2>1, <2>2, <2>3, <2>4, <2>5 DEF LockStep
<1> QED BY <1>1, <1>2, WhoLocks

\* The call that has s.mu is in its script, or waits for the Locker to run it.
HolderRuns == mu # NoCall => v8[mu] # "out"

LEMMA HolderStep ==
  ASSUME SafetyInv, Unregistered, HolderRuns, [Next]_vars
  PROVE  HolderRuns'
<1>1. CASE UNCHANGED <<mu, locker, v8>>
  BY <1>1 DEF HolderRuns
<1>2. ASSUME NEW r \in Runners, LockStep(r) PROVE HolderRuns'
  <2> USE DEF HolderRuns, MoveV8, SafetyInv, TypeOK
  <2>0. mu # NoCall => mu \in Runners
    BY DEF Runners
  <2>1. CASE EnterV8(r) \/ CallNative(r) \/ NativeReturns(r) \/ IsDisposedReturns(r)
    BY <2>0, <2>1 DEF EnterV8, CallNative, NativeReturns, IsDisposedReturns, v8State
  <2>2. CASE ScriptEnds(r) \/ ScriptTerminated(r)
    <3>1. PICK ok \in BOOLEAN : AfterScript(r, ok)
      BY <2>2 DEF ScriptEnds, ScriptTerminated
    <3>2. v8' = [v8 EXCEPT ![r] = "out"]
      BY <2>2 DEF ScriptEnds, ScriptTerminated
    <3>3. CASE r \in Locked \cup Swaps
      BY <3>1, <3>3, CallsAreDistinct DEF AfterScript
    <3>4. CASE r \in Evals \cup Drains
      <4>1. mu' = mu /\ mu # r
        BY <3>1, <3>4, CallsAreDistinct DEF AfterScript
      <4> QED BY <2>0, <3>2, <4>1
    <3> QED BY <3>3, <3>4 DEF Runners
  <2>3. CASE r \in Locked \cup Swaps /\ RunLocked(r)
    BY <2>3 DEF RunLocked
  <2>4. CASE MoveV8(r, "out", "want") /\ UNCHANGED <<mu, locker>>
    BY <2>0, <2>4
  <2> QED BY <1>2, <2>1, <2>2, <2>3, <2>4 DEF LockStep
<1> QED BY <1>1, <1>2, WhoLocks

LocksInv == SafetyInv /\ Unregistered /\ LockerInv /\ HolderRuns

LEMMA LocksHold == Spec => []LocksInv
<1>1. Init => LocksInv
  BY InitSafetyInv, InitUnregistered, InitLocker DEF LocksInv, Init, HolderRuns
<1>2. LocksInv /\ [Next]_vars => LocksInv'
  BY NextSafetyInv, UnregisteredStep, LockerStep, HolderStep DEF LocksInv
<1> QED BY <1>1, <1>2, PTL DEF Spec

\* A script of a call that keeps s.mu asks for s.mu, or waits for the V8 Locker while the
\* script that has it asks for s.mu.
Deadlocked ==
  \E r \in Locked \cup Swaps :
    /\ mu = r
    /\ \/ v8[r] = "reenter"
       \/ v8[r] = "want" /\ \E s \in Runners : locker = s /\ v8[s] = "reenter"

LEMMA DisposeWaits ==
  ASSUME TypeOK, [Next]_vars, mu # NoCall, NEW d \in Disposes, pc[d] = "called"
  PROVE  pc'[d] = "called"
<1> DEFINE Still == pc'[d] = "called"
<1> USE CallsAreDistinct DEF Calls, Runners, Jump, Goto, threads, TypeOK
<1>1. ASSUME NEW c \in Calls, Call(c) PROVE Still
  BY <1>1 DEF Call
<1>2. ASSUME NEW c \in Evals \cup Locked \cup Disposes, Refused(c) PROVE Still
  BY <1>2 DEF Refused
<1>3. ASSUME NEW r \in Runners, V8Step(r) PROVE Still
  <2>1. CASE EnterV8(r) \/ CallNative(r) \/ NativeReturns(r) \/ IsDisposedReturns(r)
    BY <2>1 DEF EnterV8, CallNative, NativeReturns, IsDisposedReturns
  <2>2. CASE ScriptEnds(r) \/ ScriptTerminated(r)
    BY <2>2 DEF ScriptEnds, ScriptTerminated, AfterScript
  <2> QED BY <1>3, <2>1, <2>2 DEF V8Step
<1>4. ASSUME NEW e \in Evals, EvalStep(e) PROVE Still
  BY <1>4 DEF EvalStep, EvalBegin, Register, EvalResult, EvalTimeout, EvalForceQuit,
     DrainStep, DrainExit, ExecDone
<1>5. ASSUME NEW c \in Locked \cup Swaps, LockedBegin(c) \/ SwapBegin(c) \/ SwapFails(c)
      PROVE  Still
  BY <1>5 DEF LockedBegin, SwapBegin, RunLocked, SwapFails
<1>6. ASSUME NEW c \in Drains, DrainsCallStep(c) PROVE Still
  BY <1>6 DEF DrainsCallStep, DrainsBegin, DrainsStep, DrainsEnd
<1>7. ASSUME NEW c \in Disposes, DisposeStep(c) PROVE Still
  BY <1>7 DEF DisposeStep, DisposeFlip, DisposeTerminate, DisposeTeardown, DisposeAwaited,
     DisposeGivesUp, DisposeClose, DisposePut
<1>8. CASE UNCHANGED vars
  BY <1>8 DEF vars
<1> QED BY <1>1, <1>2, <1>3, <1>4, <1>5, <1>6, <1>7, <1>8 DEF Next

\* No step undoes a deadlock: not the end of another script, a timeout, TerminateExecution,
\* or Dispose, which waits for s.mu as well and has not begun.
THEOREM DeadlockIsForEver ==
  Spec => [][Deadlocked => /\ Deadlocked' /\ mu' = mu
                           /\ \A d \in Disposes : pc[d] = "called" => pc'[d] = "called"]_vars
<1> DEFINE Lasts == Deadlocked => /\ Deadlocked' /\ mu' = mu
                                  /\ \A d \in Disposes : pc[d] = "called" => pc'[d] = "called"
<1>1. LocksInv /\ [Next]_vars => [Lasts]_vars
  <2> SUFFICES ASSUME LocksInv, [Next]_vars, Deadlocked
               PROVE  /\ Deadlocked' /\ mu' = mu
                      /\ \A d \in Disposes : pc[d] = "called" => pc'[d] = "called"
    OBVIOUS
  <2>1. PICK r \in Locked \cup Swaps :
          /\ mu = r
          /\ \/ v8[r] = "reenter"
             \/ v8[r] = "want" /\ \E s \in Runners : locker = s /\ v8[s] = "reenter"
    BY DEF Deadlocked
  <2>2. mu # NoCall /\ r \in Runners
    BY <2>1, CallsAreDistinct DEF Runners
  <2>3. ASSUME NEW q \in Runners, LockStep(q) PROVE Deadlocked' /\ mu' = mu
    <3> USE DEF MoveV8, LocksInv, SafetyInv, TypeOK
    <3>1. CASE EnterV8(q)
      <4>1. locker = NoCall /\ v8[q] = "want" /\ v8' = [v8 EXCEPT ![q] = "js"] /\ mu' = mu
        BY <3>1 DEF EnterV8
      <4>2. \A s \in Runners : locker # s
        BY <4>1, CallsAreDistinct DEF Runners
      <4>3. v8[r] = "reenter"
        BY <2>1, <4>2
      <4>4. mu' = r /\ v8'[r] = "reenter"
        BY <2>1, <2>2, <4>1, <4>3
      <4> QED BY <2>1, <4>4 DEF Deadlocked
    <3>2. CASE CallNative(q) \/ NativeReturns(q)
      <4>1. v8[q] \in {"js", "native"} /\ v8'[q] # "want" /\ UNCHANGED <<mu, locker>>
            /\ \A s \in Runners : s # q => v8'[s] = v8[s]
        BY <3>2 DEF CallNative, NativeReturns, v8State
      <4>2. v8'[r] = v8[r] /\ \A s \in Runners : v8[s] = "reenter" => v8'[s] = "reenter"
        BY <2>1, <2>2, <4>1
      <4> QED BY <2>1, <2>2, <4>1, <4>2 DEF Deadlocked
    <3>3. CASE IsDisposedReturns(q)
      BY <2>1, <2>2, <3>3 DEF IsDisposedReturns
    <3>4. CASE ScriptEnds(q) \/ ScriptTerminated(q)
      <4>1. v8[q] = "js" /\ \A s \in Runners : s # q => v8'[s] = v8[s]
        BY <3>4 DEF ScriptEnds, ScriptTerminated
      <4>2. locker = q
        BY <4>1 DEF LockerInv, InV8
      <4>3. v8[r] = "reenter"
        BY <2>1, <4>1, <4>2
      <4>4. locker = r
        BY <2>2, <4>3 DEF LockerInv, InV8
      <4> QED BY <4>1, <4>2, <4>3, <4>4
    <3>5. CASE q \in Locked \cup Swaps /\ RunLocked(q)
      BY <2>1, <2>2, <3>5 DEF RunLocked
    <3>6. CASE MoveV8(q, "out", "want") /\ UNCHANGED <<mu, locker>>
      <4>1. \A s \in Runners : v8[s] \in {"reenter", "want"} => v8'[s] = v8[s]
        BY <3>6
      <4> QED BY <2>1, <2>2, <3>6, <4>1 DEF Deadlocked
    <3> QED BY <2>3, <3>1, <3>2, <3>3, <3>4, <3>5, <3>6 DEF LockStep
  <2>4. ASSUME UNCHANGED <<mu, locker, v8>> PROVE Deadlocked' /\ mu' = mu
    BY <2>4 DEF Deadlocked
  <2>5. Deadlocked' /\ mu' = mu
    BY <2>3, <2>4, WhoLocks DEF LocksInv
  <2>6. ASSUME NEW d \in Disposes, pc[d] = "called" PROVE pc'[d] = "called"
    BY <2>2, <2>6, DisposeWaits DEF LocksInv, SafetyInv
  <2> QED BY <2>5, <2>6
<1> HIDE DEF Lasts
<1>2. Spec => [][Lasts]_vars
  BY <1>1, LocksHold, PTL DEF Spec
<1> QED BY <1>2 DEF Lasts

\* The call that has s.mu, or the thread that keeps the V8 Locker from it, can go on: it
\* gets the Locker, or its script or its native callback, which has no lock to wait for, ends.
HolderGoesOn ==
  \E r \in Runners :
    /\ r = mu \/ r = locker
    /\ \/ v8[r] \in {"js", "native"}
       \/ v8[r] = "want" /\ locker = NoCall

\* There is no other deadlock on s.mu: as long as somebody has it, and scripts do not ask
\* for it meanwhile, its holder waits for nobody, or for a script that waits for nobody.
THEOREM OnlyReentryDeadlocks == Spec => [](mu # NoCall => Deadlocked \/ HolderGoesOn)
<1>1. LocksInv => (mu # NoCall => Deadlocked \/ HolderGoesOn)
  <2> SUFFICES ASSUME LocksInv, mu # NoCall, ~Deadlocked PROVE HolderGoesOn
    OBVIOUS
  <2> USE DEF LocksInv, SafetyInv, TypeOK
  <2>1. mu \in Locked \cup Swaps /\ mu \in Runners
    BY DEF Runners
  <2>2. v8[mu] # "out"
    BY DEF HolderRuns
  <2>6. v8[mu] # "reenter"
    BY <2>1, Zenon DEF Deadlocked
  <2>3. CASE v8[mu] \in {"js", "native"}
    BY <2>1, <2>3 DEF HolderGoesOn
  <2>4. CASE v8[mu] = "want" /\ locker = NoCall
    BY <2>1, <2>4 DEF HolderGoesOn
  <2>5. CASE v8[mu] = "want" /\ locker # NoCall
    <3>1. locker \in Runners /\ InV8(locker)
      BY <2>5 DEF LockerInv
    <3>2. v8[locker] # "reenter"
      BY <2>1, <2>5, <3>1 DEF Deadlocked
    <3> QED BY <3>1, <3>2 DEF HolderGoesOn, InV8
  <2> QED BY <2>1, <2>2, <2>3, <2>4, <2>5, <2>6 DEF V8PC
<1> QED BY <1>1, LocksHold, PTL

-----------------------------------------------------------------------------
(* The workers.                                                            *)

\* A goroutine is started once, where its worker is created, so what terminate has
\* waited for stays ended.
Waits(w) ==
  /\ loop[w] \in {"select", "inV8", "exited"} => create[w] \in {"started", "registered", "ready"}
  /\ pump[w] \in {"select", "exited"} => create[w] = "ready"
  /\ term[w] \in {"awaitPump", "isoDispose", "terminated"} /\ ~gaveUp[w] => loop[w] = "exited"
  /\ term[w] \in {"isoDispose", "terminated"} /\ ~gaveUp[w] => pump[w] = "exited"

\* The worker can be found as long as its loop runs.
Found(w) ==
  loop[w] \in {"select", "inV8"} =>
    w \in reg \cup todo \/ create[w] = "started" \/ term[w] # "no"

\* The inductive invariant behind WorkerInv.
WorkerIInv ==
  /\ WorkerTypeOK
  /\ dispose = "no" => todo = {}
  /\ \A w \in Workers : Waits(w) /\ Found(w)

\* An envelope offered to a mailbox leaves a mailbox that is not over its capacity.
LEMMA OfferFits ==
  ASSUME NEW S, NEW q \in Seq(S), Len(q) <= MailboxCap, NEW m \in S
  PROVE  Offer(q, m) \in Seq(S) /\ Len(Offer(q, m)) <= MailboxCap
BY WorkerConstants, AppendProperties, LenProperties DEF Offer

\* Taking the head of a mailbox leaves one that is shorter.
LEMMA MailboxTail ==
  ASSUME NEW S, NEW q \in Seq(S), Len(q) <= MailboxCap, q # <<>>
  PROVE  Head(q) \in S /\ Tail(q) \in Seq(S) /\ Len(Tail(q)) <= MailboxCap
BY WorkerConstants, HeadTailProperties, LenProperties

\* One more envelope, of a worker that may send one more.
LEMMA PostsFit ==
  ASSUME posts \in [Workers -> Nat], \A v \in Workers : posts[v] <= PostBound[v],
         NEW w \in Workers, posts[w] < PostBound[w]
  PROVE  /\ [posts EXCEPT ![w] = @ + 1] \in [Workers -> Nat]
         /\ \A v \in Workers : [posts EXCEPT ![w] = @ + 1][v] <= PostBound[v]
<1>1. posts[w] + 1 <= PostBound[w] /\ posts[w] + 1 \in Nat
  BY WorkerConstants
<1> QED BY <1>1

\* No worker runs before one is created.
LEMMA WorkerInitInv == WorkerInit => WorkerIInv
<1> SUFFICES ASSUME WorkerInit PROVE WorkerIInv
  OBVIOUS
<1>1. \A S : <<>> \in Seq(S) /\ Len(<<>>) = 0
  BY EmptySeq
<1>2. WorkerTypeOK
  BY <1>1, WorkerConstants DEF WorkerInit, WorkerTypeOK, Envelopes
<1> QED BY <1>2 DEF WorkerInit, WorkerIInv, Waits, Found

\* No step overfills a mailbox or leaves the states that the code knows.
LEMMA WorkerTypeStep == WorkerTypeOK /\ [WorkerNext]_workerVars => WorkerTypeOK'
<1> SUFFICES ASSUME WorkerTypeOK, [WorkerNext]_workerVars PROVE WorkerTypeOK'
  OBVIOUS
<1> USE DEF WorkerTypeOK, parentVars, chanVars, threadVars, termVars
<1>a. ASSUME NEW w \in Workers, NEW m \in {"message", "close"}
      PROVE  /\ [inbound EXCEPT ![w] = Offer(@, m)] \in [Workers -> Seq({"message", "close"})]
             /\ \A v \in Workers : Len([inbound EXCEPT ![w] = Offer(@, m)][v]) <= MailboxCap
  <2>1. Offer(inbound[w], m) \in Seq({"message", "close"}) /\ Len(Offer(inbound[w], m)) <= MailboxCap
    BY OfferFits
  <2> QED BY <2>1
<1>b. ASSUME NEW w \in Workers, NEW m \in Envelopes
      PROVE  /\ [outbound EXCEPT ![w] = Offer(@, m)] \in [Workers -> Seq(Envelopes)]
             /\ \A v \in Workers : Len([outbound EXCEPT ![w] = Offer(@, m)][v]) <= MailboxCap
  <2>1. Offer(outbound[w], m) \in Seq(Envelopes) /\ Len(Offer(outbound[w], m)) <= MailboxCap
    BY OfferFits
  <2> QED BY <2>1
<1>1. ASSUME NEW w \in Workers, CreateBegins(w) \/ WorkerStarts(w) \/ CreateFails(w)
                                \/ RegisterWorker(w) \/ StartParentPump(w)
      PROVE  WorkerTypeOK'
  BY <1>1 DEF CreateBegins, WorkerStarts, CreateFails, RegisterWorker, StartParentPump, CreateIs
<1>2. ASSUME NEW w \in Workers, WorkerScriptFails(w) PROVE WorkerTypeOK'
  <2>1. "error" \in Envelopes
    BY DEF Envelopes
  <2> QED BY <1>2, <1>a, <1>b, <2>1 DEF WorkerScriptFails, CreateIs
<1>3. ASSUME NEW w \in Workers, PostMessage(w) PROVE WorkerTypeOK'
  <2>1. posts' \in [Workers -> Nat] /\ \A v \in Workers : posts'[v] <= PostBound[v]
    BY <1>3, PostsFit DEF PostMessage
  <2> QED BY <1>3, <1>a, <2>1 DEF PostMessage
<1>4. ASSUME NEW w \in Workers, Remove(w) \/ DisposeNext(w) PROVE WorkerTypeOK'
  <2>1. TerminateBegins(w) /\ create' = create /\ reg' \subseteq reg /\ todo' = todo /\ dispose' = dispose
    BY <1>4 DEF Remove, DisposeNext
  <2>2. term' \in [Workers -> {"no", "awaitLoop", "awaitPump", "isoDispose", "terminated"}]
        /\ stop' \in [Workers -> BOOLEAN]
    BY <2>1 DEF TerminateBegins
  <2> QED BY <1>a, <2>1, <2>2 DEF TerminateBegins
<1>5. ASSUME NEW w \in Workers, TerminateStep(w) PROVE WorkerTypeOK'
  BY <1>5 DEF TerminateStep, AwaitLoop, AwaitPump, IsoDispose, WaitEnds
<1>6. ASSUME DisposeAll \/ DisposeAllEnds \/ \E w \in Workers : DisposeDone(w)
      PROVE  WorkerTypeOK'
  BY <1>6 DEF DisposeAll, DisposeAllEnds, DisposeDone
<1>7. ASSUME NEW w \in Workers, LoopStops(w) \/ DispatchEnds(w) PROVE WorkerTypeOK'
  BY <1>7 DEF LoopStops, DispatchEnds, LoopGoes
<1>8. ASSUME NEW w \in Workers, LoopReceives(w) PROVE WorkerTypeOK'
  <2>1. Tail(inbound[w]) \in Seq({"message", "close"}) /\ Len(Tail(inbound[w])) <= MailboxCap
    BY <1>8, MailboxTail DEF LoopReceives
  <2> QED BY <1>8, <2>1 DEF LoopReceives, LoopGoes
<1>9. ASSUME NEW w \in Workers, WorkerPosts(w) PROVE WorkerTypeOK'
  <2>1. PICK m \in {"message", "close"} : outbound' = [outbound EXCEPT ![w] = Offer(@, m)]
    BY <1>9 DEF WorkerPosts
  <2>2. posts' \in [Workers -> Nat] /\ \A v \in Workers : posts'[v] <= PostBound[v]
    BY <1>9, PostsFit DEF WorkerPosts
  <2>3. m \in Envelopes
    BY DEF Envelopes
  <2> QED BY <1>9, <1>b, <2>1, <2>2, <2>3 DEF WorkerPosts
<1>10. ASSUME NEW w \in Workers, PumpStops(w) PROVE WorkerTypeOK'
  BY <1>10 DEF PumpStops
<1>11. ASSUME NEW w \in Workers, PumpReceives(w) PROVE WorkerTypeOK'
  <2>1. Tail(outbound[w]) \in Seq(Envelopes) /\ Len(Tail(outbound[w])) <= MailboxCap
        /\ Head(outbound[w]) \in Envelopes
    BY <1>11, MailboxTail DEF PumpReceives
  <2>2. pump' \in [Workers -> {"none", "select", "exited"}]
        /\ landed' \in [Workers -> SUBSET Envelopes]
    <3>1. CASE Head(outbound[w]) = "close"
      BY <1>11, <3>1 DEF PumpReceives
    <3>2. CASE Head(outbound[w]) # "close"
      <4>1. landed[w] \cup {Head(outbound[w])} \in SUBSET Envelopes
        BY <2>1
      <4>2. pump' = pump /\ landed' = [landed EXCEPT ![w] = @ \cup {Head(outbound[w])}]
        BY <1>11, <3>2 DEF PumpReceives
      <4> QED BY <4>1, <4>2
    <3> QED BY <3>1, <3>2
  <2>3. outbound' \in [Workers -> Seq(Envelopes)] /\ \A v \in Workers : Len(outbound'[v]) <= MailboxCap
    BY <1>11, <2>1 DEF PumpReceives
  <2> QED BY <1>11, <2>2, <2>3 DEF PumpReceives
<1>12. CASE UNCHANGED workerVars
  BY <1>12 DEF workerVars
<1> QED BY <1>1, <1>2, <1>3, <1>4, <1>5, <1>6, <1>7, <1>8, <1>9, <1>10, <1>11, <1>12
        DEF WorkerNext, ScriptStep, CreateStep, LoopStep, PumpStep, DisposeAllStep

\* A step of a goroutine, of terminate, of createCb and of disposeAll keeps the invariant,
\* for the worker it is about and for the others.
LEMMA WorkerIInvStep == WorkerIInv /\ [WorkerNext]_workerVars => WorkerIInv'
<1> SUFFICES ASSUME WorkerIInv, [WorkerNext]_workerVars PROVE WorkerIInv'
  OBVIOUS
<1>0. dispose' = "no" => todo' = {}
  BY DEF WorkerIInv, WorkerNext, ScriptStep, CreateBegins, PostMessage, Remove, TerminateBegins,
     CreateIs, CreateStep, WorkerStarts, WorkerScriptFails, CreateFails, RegisterWorker,
     StartParentPump, TerminateStep, AwaitLoop, AwaitPump, IsoDispose, WaitEnds, LoopStep,
     LoopStops, LoopReceives, DispatchEnds, LoopGoes, WorkerPosts, PumpStep, PumpStops,
     PumpReceives, DisposeAll, DisposeAllStep, DisposeNext, DisposeDone, DisposeAllEnds,
     parentVars, workerVars
<1> SUFFICES ASSUME NEW v \in Workers PROVE Waits(v)' /\ Found(v)'
  BY <1>0, WorkerTypeStep DEF WorkerIInv
<1>a. /\ create \in [Workers -> {"none", "starting", "failing", "failed",
                                 "started", "registered", "ready"}]
      /\ loop \in [Workers -> {"none", "select", "inV8", "exited"}]
      /\ pump \in [Workers -> {"none", "select", "exited"}]
      /\ term \in [Workers -> {"no", "awaitLoop", "awaitPump", "isoDispose", "terminated"}]
      /\ DOMAIN gaveUp = Workers
      /\ Waits(v) /\ Found(v) /\ (dispose = "no" => todo = {})
  BY DEF WorkerIInv, WorkerTypeOK
<1> USE DEF Waits, Found, parentVars, chanVars, threadVars, termVars
\* The step of another worker.
<1>b. ASSUME create'[v] = create[v], loop'[v] = loop[v], pump'[v] = pump[v],
             term'[v] = term[v], gaveUp'[v] = gaveUp[v],
             v \in reg \cup todo => v \in reg' \cup todo'
      PROVE  Waits(v)' /\ Found(v)'
  BY <1>a, <1>b
<1>1. ASSUME NEW w \in Workers, CreateBegins(w) \/ PostMessage(w) \/ Remove(w)
      PROVE  Waits(v)' /\ Found(v)'
  <2>1. CASE w # v
    BY <1>1, <1>a, <1>b, <2>1 DEF CreateBegins, PostMessage, Remove, TerminateBegins, CreateIs
  <2>2. CASE w = v
    BY <1>1, <1>a, <2>2 DEF CreateBegins, PostMessage, Remove, TerminateBegins, CreateIs
  <2> QED BY <2>1, <2>2
<1>2. ASSUME NEW w \in Workers, CreateStep(w)
      PROVE  Waits(v)' /\ Found(v)'
  <2>1. CASE w # v
    BY <1>2, <1>a, <1>b, <2>1 DEF CreateStep, WorkerStarts, WorkerScriptFails, CreateFails,
       RegisterWorker, StartParentPump, CreateIs
  <2>2. CASE w = v
    BY <1>2, <1>a, <2>2 DEF CreateStep, WorkerStarts, WorkerScriptFails, CreateFails,
       RegisterWorker, StartParentPump, CreateIs
  <2> QED BY <2>1, <2>2
<1>3. ASSUME NEW w \in Workers, TerminateStep(w)
      PROVE  Waits(v)' /\ Found(v)'
  <2>1. CASE w # v
    BY <1>3, <1>a, <1>b, <2>1 DEF TerminateStep, AwaitLoop, AwaitPump, IsoDispose, WaitEnds
  <2>2. CASE w = v /\ AwaitLoop(w)
    BY <1>a, <2>2 DEF AwaitLoop, WaitEnds
  <2>3. CASE w = v /\ AwaitPump(w)
    BY <1>a, <2>3 DEF AwaitPump, WaitEnds
  <2>4. CASE w = v /\ IsoDispose(w)
    BY <1>a, <2>4 DEF IsoDispose
  <2> QED BY <1>3, <2>1, <2>2, <2>3, <2>4 DEF TerminateStep
<1>4. ASSUME NEW w \in Workers, LoopStep(w) \/ DispatchEnds(w) \/ WorkerPosts(w) \/ PumpStep(w)
      PROVE  Waits(v)' /\ Found(v)'
  <2>1. UNCHANGED <<create, reg, todo, term, gaveUp>>
    BY <1>4 DEF LoopStep, LoopStops, LoopReceives, DispatchEnds, LoopGoes, WorkerPosts,
       PumpStep, PumpStops, PumpReceives
  <2>2. /\ loop'[v] = loop[v] \/ (loop[v] \in {"select", "inV8"} /\ loop'[v] # "none")
        /\ pump'[v] = pump[v] \/ (pump[v] = "select" /\ pump'[v] = "exited")
    BY <1>4, <1>a DEF LoopStep, LoopStops, LoopReceives, DispatchEnds, LoopGoes, WorkerPosts,
       PumpStep, PumpStops, PumpReceives
  <2> QED BY <1>a, <2>1, <2>2
<1>5. CASE DisposeAll \/ DisposeAllEnds \/ UNCHANGED workerVars
  BY <1>5, <1>a, <1>b DEF DisposeAll, DisposeAllEnds, workerVars
<1>6. ASSUME NEW w \in Workers, DisposeNext(w) PROVE Waits(v)' /\ Found(v)'
  <2>1. CASE w # v
    BY <1>6, <1>a, <1>b, <2>1 DEF DisposeNext, TerminateBegins
  <2>2. CASE w = v
    BY <1>6, <1>a, <2>2 DEF DisposeNext, TerminateBegins
  <2> QED BY <2>1, <2>2
<1>7. ASSUME NEW w \in Workers, DisposeDone(w) PROVE Waits(v)' /\ Found(v)'
  <2>1. UNCHANGED <<create, reg, termVars, threadVars>> /\ todo' = todo \ {w}
        /\ term[w] = "terminated"
    BY <1>7 DEF DisposeDone
  <2> QED BY <1>a, <2>1
<1> QED BY <1>1, <1>2, <1>3, <1>4, <1>5, <1>6, <1>7
        DEF WorkerNext, ScriptStep, DisposeAllStep

\* A worker is quiet when terminate has returned and none of its waits timed out, and one
\* that runs is known to somebody: to the registry, though a worker entered there after
\* disposeAll is not terminated any more, to the createCb that makes it, or to terminate.
THEOREM WorkersAccounted == WorkerSpec => []WorkerInv
<1>1. WorkerIInv => WorkerInv
  BY DEF WorkerIInv, WorkerInv, Waits, Found, WorkerAccounted, TerminatedIsQuiet
<1> QED BY <1>1, WorkerInitInv, WorkerIInvStep, PTL DEF WorkerSpec

-----------------------------------------------------------------------------
(* Who terminates a worker. *)

\* A worker that can still be found has not been terminated, and it is found in one place:
\* by the script that makes it, in the registry, or in what disposeAll has left.  disposeAll
\* has begun to terminate one of those at most.
Untouched(w) == term[w] = "no" /\ ~stop[w]

FoundOnce ==
  /\ \A w \in Workers :
       /\ create[w] \in {"none", "starting", "started"} =>
            Untouched(w) /\ w \notin reg /\ w \notin todo
       /\ w \in reg => Untouched(w) /\ w \notin todo
       /\ w \in todo /\ term[w] = "no" => Untouched(w)
       /\ create[w] \in {"failing", "failed"} => w \notin reg /\ w \notin todo
  /\ \A v, w \in todo : term[v] # "no" /\ term[w] # "no" => v = w
  /\ dispose # "terminating" => todo = {}

LEMMA InitFoundOnce == WorkerInit => FoundOnce
BY DEF WorkerInit, FoundOnce, Untouched

LEMMA FoundOnceStep ==
  ASSUME WorkerTypeOK, FoundOnce, [WorkerNext]_workerVars
  PROVE  FoundOnce'
<1> USE DEF FoundOnce, Untouched, parentVars, chanVars, threadVars, termVars
<1>t. /\ create \in [Workers -> {"none", "starting", "failing", "failed",
                                 "started", "registered", "ready"}]
      /\ reg \subseteq Workers /\ todo \subseteq Workers
      /\ dispose \in {"no", "terminating", "finished"}
      /\ stop \in [Workers -> BOOLEAN]
      /\ term \in [Workers -> {"no", "awaitLoop", "awaitPump", "isoDispose", "terminated"}]
  BY DEF WorkerTypeOK
<1>1. ASSUME NEW w \in Workers, CreateBegins(w) \/ WorkerStarts(w) PROVE FoundOnce'
  BY <1>1, <1>t DEF CreateBegins, WorkerStarts, CreateIs
<1>2. ASSUME NEW w \in Workers, WorkerScriptFails(w) PROVE FoundOnce'
  BY <1>2, <1>t DEF WorkerScriptFails, CreateIs
<1>3. ASSUME NEW w \in Workers, CreateFails(w) \/ StartParentPump(w) PROVE FoundOnce'
  BY <1>3, <1>t DEF CreateFails, StartParentPump, CreateIs
<1>4. ASSUME NEW w \in Workers, RegisterWorker(w) PROVE FoundOnce'
  BY <1>4, <1>t DEF RegisterWorker, CreateIs
<1>5. ASSUME NEW w \in Workers, Remove(w) PROVE FoundOnce'
  BY <1>5, <1>t DEF Remove, TerminateBegins
<1>6. ASSUME NEW w \in Workers, TerminateStep(w) PROVE FoundOnce'
  BY <1>6, <1>t DEF TerminateStep, AwaitLoop, AwaitPump, IsoDispose, WaitEnds
<1>7. ASSUME DisposeAll PROVE FoundOnce'
  BY <1>7, <1>t DEF DisposeAll
<1>8. ASSUME NEW w \in Workers, DisposeNext(w) PROVE FoundOnce'
  BY <1>8, <1>t DEF DisposeNext, TerminateBegins
<1>9. ASSUME NEW w \in Workers, DisposeDone(w) PROVE FoundOnce'
  BY <1>9, <1>t DEF DisposeDone
<1>10. ASSUME DisposeAllEnds PROVE FoundOnce'
  BY <1>10, <1>t DEF DisposeAllEnds
<1>11. ASSUME UNCHANGED <<create, reg, todo, dispose, stop, term>> PROVE FoundOnce'
  BY <1>11
<1>12. ASSUME NEW w \in Workers,
              PostMessage(w) \/ LoopStep(w) \/ DispatchEnds(w) \/ WorkerPosts(w) \/ PumpStep(w)
       PROVE  FoundOnce'
  BY <1>11, <1>12 DEF PostMessage, LoopStep, LoopStops, LoopReceives, LoopGoes, DispatchEnds,
     WorkerPosts, PumpStep, PumpStops, PumpReceives
<1>13. CASE UNCHANGED workerVars
  BY <1>11, <1>13 DEF workerVars
<1> QED BY <1>1, <1>2, <1>3, <1>4, <1>5, <1>6, <1>7, <1>8, <1>9, <1>10, <1>12, <1>13
        DEF WorkerNext, ScriptStep, CreateStep, DisposeAllStep

\* What begins the termination of w.
Begins(w) == term[w] = "no" /\ term'[w] # "no"

LEMMA TypesOfWorkers == WorkerIInv => WorkerTypeOK
BY DEF WorkerIInv

LEMMA WhoBegins ==
  ASSUME WorkerTypeOK, WorkerNext, NEW w \in Workers, Begins(w)
  PROVE  WorkerScriptFails(w) \/ Remove(w) \/ DisposeNext(w)
<1> DEFINE Goal == WorkerScriptFails(w) \/ Remove(w) \/ DisposeNext(w)
<1> USE DEF parentVars, chanVars, threadVars, termVars
<1>t. term \in [Workers -> {"no", "awaitLoop", "awaitPump", "isoDispose", "terminated"}]
  BY DEF WorkerTypeOK
<1>1. ASSUME NEW v \in Workers, WorkerScriptFails(v) \/ Remove(v) \/ DisposeNext(v) PROVE Goal
  <2>1. v = w
    BY <1>1, <1>t DEF WorkerScriptFails, Remove, DisposeNext, TerminateBegins, Begins
  <2> QED BY <1>1, <2>1
<1>2. ASSUME NEW v \in Workers, TerminateStep(v) PROVE FALSE
  BY <1>2, <1>t DEF TerminateStep, AwaitLoop, AwaitPump, IsoDispose, WaitEnds, Begins
<1>3. ASSUME UNCHANGED term PROVE FALSE
  BY <1>3 DEF Begins
<1>4. ASSUME NEW v \in Workers,
             \/ CreateBegins(v) \/ WorkerStarts(v) \/ CreateFails(v) \/ RegisterWorker(v)
             \/ StartParentPump(v) \/ PostMessage(v) \/ LoopStep(v) \/ DispatchEnds(v)
             \/ WorkerPosts(v) \/ PumpStep(v) \/ DisposeDone(v)
      PROVE  FALSE
  BY <1>3, <1>4 DEF CreateBegins, WorkerStarts, CreateFails, RegisterWorker, StartParentPump,
     PostMessage, LoopStep, LoopStops, LoopReceives, LoopGoes, DispatchEnds, WorkerPosts,
     PumpStep, PumpStops, PumpReceives, DisposeDone
<1>5. ASSUME DisposeAll \/ DisposeAllEnds PROVE FALSE
  BY <1>3, <1>5 DEF DisposeAll, DisposeAllEnds
<1> QED BY <1>1, <1>2, <1>4, <1>5 DEF WorkerNext, ScriptStep, CreateStep, DisposeAllStep

\* Each worker is terminated by one caller, the script that failed to make it, the parent's
\* worker.terminate() or disposeAll, and finds its stop channel open: the sync.Once of
\* terminate never turns a second caller away, and disposeAll, which has only workers
\* that nobody else can find, begins the next when the last one is terminated.
THEOREM WorkersAreTerminatedOnce ==
  WorkerSpec => /\ []FoundOnce
                /\ [][\A w \in Workers : Begins(w) =>
                        /\ ~stop[w]
                        /\ w \in todo => \A v \in todo : term[v] = "no"]_workerVars
<1> DEFINE Apart == \A w \in Workers : Begins(w) =>
                      /\ ~stop[w]
                      /\ w \in todo => \A v \in todo : term[v] = "no"
           Inv == WorkerIInv /\ FoundOnce
<1>1. WorkerInit => Inv
  BY WorkerInitInv, InitFoundOnce
<1>2. Inv /\ [WorkerNext]_workerVars => Inv'
  BY WorkerIInvStep, FoundOnceStep, TypesOfWorkers
<1>3. Inv /\ [WorkerNext]_workerVars => [Apart]_workerVars
  <2> SUFFICES ASSUME Inv, WorkerNext, NEW w \in Workers, Begins(w)
               PROVE  ~stop[w] /\ (w \in todo => \A v \in todo : term[v] = "no")
    OBVIOUS
  <2>1. WorkerScriptFails(w) \/ Remove(w) \/ DisposeNext(w)
    BY WhoBegins, TypesOfWorkers
  <2>2. CASE WorkerScriptFails(w)
    BY <2>2 DEF WorkerScriptFails, CreateIs, FoundOnce, Untouched
  <2>3. CASE Remove(w)
    BY <2>3 DEF Remove, FoundOnce, Untouched
  <2>4. CASE DisposeNext(w)
    BY <2>4 DEF DisposeNext, FoundOnce, Untouched
  <2> QED BY <2>1, <2>2, <2>3, <2>4
<1> HIDE DEF Apart
<1>4. Inv => FoundOnce
  OBVIOUS
<1> HIDE DEF Inv
<1>5. WorkerSpec => []FoundOnce /\ [][Apart]_workerVars
  BY <1>1, <1>2, <1>3, <1>4, PTL DEF WorkerSpec
<1> QED BY <1>5 DEF Apart
=============================================================================
