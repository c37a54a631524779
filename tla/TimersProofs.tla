----------------------------- MODULE TimersProofs -----------------------------
(***************************************************************************)
(* Proofs about the timers of a session, for any number of timers and      *)
(* evaluations, any queue capacity and any number of ticks: the entries,   *)
(* the callbacks, and that the goroutines wind down.                       *)
(***************************************************************************)
EXTENDS Timers, TLAPS, SequenceTheorems

\* Taking the head of a non-empty queue leaves a queue, one callback shorter.
LEMMA TailIsShorter ==
  ASSUME NEW S, NEW s \in Seq(S), s # <<>>
  PROVE  Head(s) \in S /\ Tail(s) \in Seq(S) /\ Len(Tail(s)) = Len(s) - 1
         /\ Len(s) \in Nat
BY HeadTailProperties, LenProperties

\* The invariant holds when the manager has just been made.
LEMMA InitEntryInv == TimersInit => EntryInv
<1> SUFFICES ASSUME TimersInit PROVE EntryInv
  OBVIOUS
<1>1. queue \in Seq(All) /\ Len(queue) <= QueueCap
  BY BoundsAreNumbers, EmptySeq DEF TimersInit
<1>2. ticks \in [Intervals -> 0..TickBound]
  BY BoundsAreNumbers DEF TimersInit
<1>3. TimersTypeOK
  BY <1>1, <1>2 DEF TimersInit, TimersTypeOK, GoPC, Fates, EvalPC
<1>4. StopClosedOnce /\ StopReachesAll /\ TimersTracked
  BY DEF TimersInit, StopClosedOnce, StopReachesAll, TimersTracked
<1>5. QED
  BY <1>3, <1>4 DEF EntryInv

\* Every step of a goroutine, of a drain loop, of a script and of StopAll keeps it.
LEMMA NextEntryInv == EntryInv /\ [TimersNext]_loopVars => EntryInv'
<1> SUFFICES ASSUME EntryInv, [TimersNext]_loopVars PROVE EntryInv'
  OBVIOUS
<1>t. Once \subseteq All /\ OneShots \subseteq All /\ Intervals \subseteq All
      /\ Posts \subseteq All /\ OneShots \subseteq Once
  BY DEF Once, All
<1>s. ASSUME NEW S, NEW f \in Fates, Settle(S, f)
      PROVE  fate' \in [Once -> Fates]
  BY <1>s DEF Settle, EntryInv, TimersTypeOK
<1>1. ASSUME NEW t \in All, ScheduleTimer(t) PROVE EntryInv'
  BY <1>1, <1>t DEF ScheduleTimer, GoTo, EntryInv, TimersTypeOK, StopClosedOnce,
     StopReachesAll, TimersTracked, GoPC, evalVars
<1>2. ASSUME NEW t \in All, Cancel(t) PROVE EntryInv'
  <2>1. fate' \in [Once -> Fates]
    BY <1>2, <1>s DEF Cancel, Fates
  <2>2. QED
    BY <1>2, <2>1 DEF Cancel, EntryInv, TimersTypeOK, StopClosedOnce,
       StopReachesAll, TimersTracked, evalVars
<1>3. ASSUME StopAll PROVE EntryInv'
  <2>1. fate' \in [Once -> Fates]
    BY <1>3, <1>s DEF StopAll, Fates
  <2>2. queue' \in Seq(All) /\ Len(queue') <= QueueCap
    BY <1>3, BoundsAreNumbers, EmptySeq DEF StopAll
  <2>3. QED
    BY <1>3, <2>1, <2>2 DEF StopAll, EntryInv, TimersTypeOK, StopClosedOnce,
       StopReachesAll, TimersTracked, evalVars
<1>4. ASSUME NEW t \in All, Fire(t) PROVE EntryInv'
  <2>1. ticks' \in [Intervals -> 0..TickBound]
    BY <1>4, BoundsAreNumbers DEF Fire, EntryInv, TimersTypeOK
  <2>2. QED
    BY <1>4, <2>1 DEF Fire, GoTo, EntryInv, TimersTypeOK, StopClosedOnce,
       StopReachesAll, TimersTracked, GoPC, evalVars, entryVars
<1>5. ASSUME NEW t \in All, Stopped(t) PROVE EntryInv'
  BY <1>5 DEF Stopped, GoTo, EntryInv, TimersTypeOK, StopClosedOnce,
     StopReachesAll, TimersTracked, GoPC, evalVars, entryVars
<1>6. ASSUME NEW t \in All, Enqueue(t) PROVE EntryInv'
  <2>1. queue' \in Seq(All) /\ Len(queue') <= QueueCap
    BY <1>6, BoundsAreNumbers, AppendProperties, LenProperties
       DEF Enqueue, EntryInv, TimersTypeOK
  <2>2. QED
    BY <1>6, <2>1 DEF Enqueue, AfterSend, GoTo, EntryInv, TimersTypeOK, StopClosedOnce,
       StopReachesAll, TimersTracked, GoPC, evalVars, entryVars
<1>7. ASSUME NEW t \in All, QueueFull(t) PROVE EntryInv'
  <2>1. fate' \in [Once -> Fates]
    BY <1>7, <1>s DEF QueueFull, Fates
  <2>2. QED
    BY <1>7, <2>1 DEF QueueFull, AfterSend, GoTo, EntryInv, TimersTypeOK, StopClosedOnce,
       StopReachesAll, TimersTracked, GoPC, evalVars, entryVars
<1>8. ASSUME NEW t \in Once, Forget(t) PROVE EntryInv'
  BY <1>8, <1>t DEF Forget, GoTo, EntryInv, TimersTypeOK, StopClosedOnce,
     StopReachesAll, TimersTracked, GoPC, evalVars
<1>9. ASSUME NEW e \in Evals, Receive(e) PROVE EntryInv'
  <2>1. queue' \in Seq(All) /\ Len(queue') <= QueueCap /\ Head(queue) \in All
    BY <1>9, BoundsAreNumbers, TailIsShorter DEF Receive, EntryInv, TimersTypeOK
  <2>2. QED
    BY <1>9, <2>1 DEF Receive, EntryInv, TimersTypeOK, StopClosedOnce,
       StopReachesAll, TimersTracked, EvalPC, timerVars, entryVars
<1>10. ASSUME NEW e \in Evals, RunCallback(e) PROVE EntryInv'
  <2>1. fate' \in [Once -> Fates]
    BY <1>10, <1>s DEF RunCallback, Fates
  <2>2. QED
    BY <1>10, <2>1 DEF RunCallback, Enter, EntryInv, TimersTypeOK, StopClosedOnce,
       StopReachesAll, TimersTracked, EvalPC, timerVars, entryVars
<1>11. ASSUME NEW e \in Evals,
              NEW from \in EvalPC, NEW to \in EvalPC, Advance(e, from, to)
       PROVE  EntryInv'
  BY <1>11 DEF Advance, EntryInv, TimersTypeOK, StopClosedOnce,
       StopReachesAll, TimersTracked, timerVars, entryVars
<1>12. ASSUME NEW e \in Evals,
              NEW from \in EvalPC, NEW to \in EvalPC,
              \/ Enter(e, from, to) /\ UNCHANGED <<fate, hand, xhr>>
              \/ Exit(e, from, to)
       PROVE  EntryInv'
  BY <1>12 DEF Enter, Exit, EntryInv, TimersTypeOK, StopClosedOnce,
       StopReachesAll, TimersTracked, timerVars, entryVars
<1>13. ASSUME NEW e \in Evals, EvalAwait(e) \/ SleepAndRepeat(e) \/ DeadlinePassed(e)
       PROVE  EntryInv'
  BY <1>13, <1>11 DEF EvalAwait, SleepAndRepeat, DeadlinePassed, EvalPC
<1>14. ASSUME NEW e \in Evals, DrainStep(e) PROVE EntryInv'
  <2>1. CASE DrainEnds(e) \/ PendingCallbacks(e) \/ PendingOneShotTimers(e)
    BY <2>1, <1>11 DEF DrainEnds, PendingCallbacks, PendingOneShotTimers, EvalPC
  <2>2. CASE CallbackReturns(e) \/ CheckpointEnds(e) \/ Flush(e)
    BY <2>2, <1>12 DEF CallbackReturns, CheckpointEnds, Flush, EvalPC
  <2>3. QED
    BY <1>14, <1>9, <1>10, <2>1, <2>2 DEF DrainStep
<1>15. ASSUME NEW e \in Evals, JavaScriptStep(e) PROVE EntryInv'
  <2>1. CASE RunScript(e) \/ ScriptReturns(e) \/ ScriptFails(e)
    BY <2>1, <1>12 DEF RunScript, ScriptReturns, ScriptFails, EvalPC
  <2>2. CASE \E p \in Posts : ScriptRequests(e, p)
    BY <2>2 DEF ScriptRequests, EntryInv, TimersTypeOK, StopClosedOnce, StopReachesAll,
       TimersTracked, entryVars
  <2>3. QED
    BY <1>15, <1>1, <1>2, <1>t, <2>1, <2>2
       DEF JavaScriptStep, ScriptSchedules, ScriptCancels, All
<1>16. ASSUME NEW t \in All, TimerStep(t) PROVE EntryInv'
  BY <1>16, <1>4, <1>5, <1>6, <1>7, <1>8 DEF TimerStep
<1>17. CASE UNCHANGED loopVars
  BY <1>17 DEF loopVars, EntryInv, TimersTypeOK, StopClosedOnce, StopReachesAll, TimersTracked
<1>18. QED
  BY <1>1, <1>3, <1>13, <1>14, <1>15, <1>16, <1>17, <1>t DEF TimersNext

\* tm.timers, the stop flags and the goroutines stay consistent: no channel is
\* closed twice, and a goroutine that can still deliver is tracked or stopped.
THEOREM EntriesConsistent == TimersSpec => []EntryInv
<1>1. QED
  BY InitEntryInv, NextEntryInv, PTL DEF TimersSpec

\* Every variable of the event loop keeps its type; the queue never overflows.
THEOREM TimersTypeCorrect == TimersSpec => []TimersTypeOK
<1>1. EntryInv => TimersTypeOK
  BY DEF EntryInv
<1>2. QED
  BY <1>1, EntriesConsistent, PTL

\* Once StopAll has run no timer is registered, and every goroutine that waits has
\* been told to stop.
THEOREM StopAllReachesEveryTimer == TimersSpec => []StopReachesAll
<1>1. EntryInv => StopReachesAll
  BY DEF EntryInv
<1>2. QED
  BY <1>1, EntriesConsistent, PTL

-----------------------------------------------------------------------------
(* Where the callback of a timer that fires once waits.                    *)

\* The elements of a queue, and whether t stands in it at most once.
Elems(q) == {q[i] : i \in DOMAIN q}
AtMostOnce(q, t) == \A i, j \in DOMAIN q : q[i] = t /\ q[j] = t => i = j

InSomeHand(t) == \E e \in Evals : hand[e] = t

\* The callback of t waits in one place of one kind while it still has to run, and in
\* none otherwise.
Accounted(t) ==
  /\ InGoroutine(t) \/ t \in Queued \/ InSomeHand(t) <=> gor[t] # "none" /\ fate[t] = "open"
  /\ gor[t] = "none" => fate[t] = "open"
  /\ InGoroutine(t) => t \notin Queued /\ ~InSomeHand(t)
  /\ t \in Queued => ~InSomeHand(t)
  /\ AtMostOnce(queue, t)
  /\ \A e, f \in Evals : hand[e] = t /\ hand[f] = t => e = f

\* A drain loop has a callback in hand only between receiving and running it.
HandPopped == \A e \in Evals : pc[e] # "popped" => hand[e] = Nobody

\* The inductive invariant behind OneShotAccounted.
PlaceInv == EntryInv /\ HandPopped /\ \A t \in Once : Accounted(t)

\* A callback accounted for in this way is in exactly one of its places, or in none.
LEMMA AccountedIsOnePlace == PlaceInv => OneShotAccounted
<1> SUFFICES ASSUME PlaceInv, NEW t \in Once
             PROVE  IF gor[t] # "none" /\ fate[t] = "open"
                    THEN \E p \in Whereabouts(t) : Whereabouts(t) = {p}
                    ELSE Whereabouts(t) = {}
  BY DEF OneShotAccounted
<1>a. Accounted(t)
  BY DEF PlaceInv
<1>1. CASE ~(gor[t] # "none" /\ fate[t] = "open")
  <2>1. InQueue(t) = {} /\ InHand(t) = {} /\ ~InGoroutine(t)
    BY <1>1, <1>a DEF Accounted, InQueue, InHand, InSomeHand, Queued
  <2> QED BY <1>1, <2>1 DEF Whereabouts
<1>2. CASE gor[t] # "none" /\ fate[t] = "open"
  <2>1. CASE InGoroutine(t)
    <3>1. InQueue(t) = {} /\ InHand(t) = {}
      BY <2>1, <1>a DEF Accounted, InQueue, InHand, InSomeHand, Queued
    <3>2. Whereabouts(t) = {<<"goroutine", t>>}
      BY <2>1, <3>1 DEF Whereabouts
    <3> QED BY <1>2, <3>2
  <2>2. CASE t \in Queued
    <3>1. PICK i \in DOMAIN queue : queue[i] = t
      BY <2>2 DEF Queued
    <3>2. InQueue(t) = {i} /\ InHand(t) = {} /\ ~InGoroutine(t)
      BY <2>2, <3>1, <1>a DEF Accounted, InQueue, InHand, InSomeHand, AtMostOnce
    <3>3. Whereabouts(t) = {<<"queue", i>>}
      BY <3>2 DEF Whereabouts
    <3> QED BY <1>2, <3>3
  <2>3. CASE InSomeHand(t)
    <3>1. PICK e \in Evals : hand[e] = t
      BY <2>3 DEF InSomeHand
    <3>2. InHand(t) = {e}
      BY <3>1, <1>a DEF Accounted, InHand
    <3>3. InQueue(t) = {} /\ ~InGoroutine(t)
      BY <2>3, <1>a DEF Accounted, InQueue, Queued
    <3>4. Whereabouts(t) = {<<"hand", e>>}
      BY <3>2, <3>3 DEF Whereabouts
    <3> QED BY <1>2, <3>4
  <2> QED BY <1>2, <1>a, <2>1, <2>2, <2>3 DEF Accounted
<1> QED BY <1>1, <1>2

\* A callback put at the end of the queue is one of its elements, and the others stay.
LEMMA EnqueueOne ==
  ASSUME NEW S, NEW q \in Seq(S), NEW x \in S
  PROVE  /\ Elems(Append(q, x)) = Elems(q) \cup {x}
         /\ \A t : t # x /\ AtMostOnce(q, t) => AtMostOnce(Append(q, x), t)
         /\ x \notin Elems(q) => AtMostOnce(Append(q, x), x)
<1>1. /\ Append(q, x) \in Seq(S) /\ Len(q) \in Nat
      /\ DOMAIN q = 1..Len(q) /\ DOMAIN Append(q, x) = 1..(Len(q) + 1)
      /\ \A i \in 1..Len(q) : Append(q, x)[i] = q[i]
      /\ Append(q, x)[Len(q) + 1] = x
  BY AppendProperties, LenProperties
<1>2. DOMAIN Append(q, x) = DOMAIN q \cup {Len(q) + 1}
  BY <1>1
<1>3. \A i \in DOMAIN q : Append(q, x)[i] = q[i]
  BY <1>1
<1> QED BY <1>1, <1>2, <1>3 DEF Elems, AtMostOnce

\* Receiving takes the head out; what is left, and how often, is what was behind it.
LEMMA ReceiveHead ==
  ASSUME NEW S, NEW q \in Seq(S), q # <<>>
  PROVE  /\ Elems(q) = {Head(q)} \cup Elems(Tail(q))
         /\ \A t : AtMostOnce(q, t) => AtMostOnce(Tail(q), t)
         /\ AtMostOnce(q, Head(q)) => Head(q) \notin Elems(Tail(q))
<1>1. /\ Len(q) \in Nat \ {0} /\ DOMAIN q = 1..Len(q) /\ Head(q) = q[1]
      /\ Tail(q) \in Seq(S) /\ Len(Tail(q)) = Len(q) - 1
      /\ DOMAIN Tail(q) = 1..(Len(q) - 1)
      /\ \A i \in 1..(Len(q) - 1) : Tail(q)[i] = q[i + 1]
  BY HeadTailProperties, LenProperties, EmptySeq
<1>2. \A i \in DOMAIN q : i = 1 \/ (i - 1 \in DOMAIN Tail(q) /\ q[i] = Tail(q)[i - 1])
  BY <1>1
<1>3. \A i \in DOMAIN Tail(q) : i + 1 \in DOMAIN q /\ Tail(q)[i] = q[i + 1] /\ i + 1 # 1
                                /\ i \in Nat
  BY <1>1
<1>4. 1 \in DOMAIN q
  BY <1>1
<1>5. Elems(q) = {Head(q)} \cup Elems(Tail(q))
  <2>1. \A x \in Elems(q) : x = Head(q) \/ x \in Elems(Tail(q))
    BY <1>1, <1>2 DEF Elems
  <2>2. \A x \in Elems(Tail(q)) : x \in Elems(q)
    BY <1>3 DEF Elems
  <2> QED BY <2>1, <2>2, <1>4, <1>1 DEF Elems
<1>6. ASSUME NEW t, AtMostOnce(q, t) PROVE AtMostOnce(Tail(q), t)
  <2> SUFFICES ASSUME NEW i \in DOMAIN Tail(q), NEW j \in DOMAIN Tail(q),
                      Tail(q)[i] = t, Tail(q)[j] = t
               PROVE  i = j
    BY DEF AtMostOnce
  <2>1. i + 1 = j + 1
    BY <1>3, <1>6 DEF AtMostOnce
  <2> QED BY <2>1, <1>3
<1>7. ASSUME AtMostOnce(q, Head(q)), Head(q) \in Elems(Tail(q)) PROVE FALSE
  BY <1>1, <1>3, <1>4, <1>7 DEF AtMostOnce, Elems
<1> QED BY <1>5, <1>6, <1>7

\* At the start no callback waits anywhere.
LEMMA InitPlaceInv == TimersInit => PlaceInv
<1> SUFFICES ASSUME TimersInit PROVE PlaceInv
  OBVIOUS
<1>1. Queued = {} /\ \A t : AtMostOnce(queue, t)
  BY DEF TimersInit, Queued, AtMostOnce
<1>2. ASSUME NEW t \in Once PROVE Accounted(t)
  <2>1. gor[t] = "none" /\ fate[t] = "open" /\ t # Nobody
    BY TimersAreDistinct DEF TimersInit, Once, All
  <2>2. ~InGoroutine(t) /\ ~InSomeHand(t) /\ \A e \in Evals : hand[e] # t
    BY <2>1 DEF TimersInit, InGoroutine, InSomeHand
  <2> QED BY <1>1, <2>1, <2>2 DEF Accounted
<1>3. HandPopped
  BY DEF TimersInit, HandPopped
<1> QED BY <1>2, <1>3, InitEntryInv DEF PlaceInv

\* Only RunCallback and Receive touch what the drain loops have in hand.
LEMMA HandPoppedStep == PlaceInv /\ [TimersNext]_loopVars => HandPopped'
<1> SUFFICES ASSUME PlaceInv, [TimersNext]_loopVars PROVE HandPopped'
  OBVIOUS
<1>a. pc \in [Evals -> EvalPC] /\ hand \in [Evals -> All \cup {Nobody}] /\ HandPopped
  BY DEF PlaceInv, EntryInv, TimersTypeOK
<1>1. ASSUME NEW t \in All, TimerStep(t) \/ ScheduleTimer(t) \/ Cancel(t) PROVE HandPopped'
  BY <1>1, <1>a DEF TimerStep, Fire, Stopped, Enqueue, QueueFull, Forget, ScheduleTimer,
     Cancel, evalVars, HandPopped
<1>2. ASSUME NEW e \in Evals, Receive(e) \/ RunCallback(e) PROVE HandPopped'
  BY <1>2, <1>a DEF Receive, RunCallback, Enter, HandPopped
<1>3. ASSUME NEW e \in Evals, NEW from, NEW to, from # "popped",
             \/ Advance(e, from, to)
             \/ Enter(e, from, to) /\ UNCHANGED <<fate, hand, xhr>>
             \/ Exit(e, from, to)
      PROVE  HandPopped'
  BY <1>3, <1>a DEF Advance, Enter, Exit, HandPopped
<1>4. ASSUME NEW e \in Evals, DrainStep(e) PROVE HandPopped'
  BY <1>2, <1>3, <1>4 DEF DrainStep, CallbackReturns, DrainEnds, Flush, CheckpointEnds,
     PendingCallbacks, PendingOneShotTimers
<1>5. ASSUME NEW e \in Evals, JavaScriptStep(e) PROVE HandPopped'
  <2>1. ASSUME NEW p \in Posts, ScriptRequests(e, p) PROVE HandPopped'
    BY <2>1, <1>a DEF ScriptRequests, HandPopped
  <2> QED BY <1>1, <1>3, <1>5, <2>1 DEF JavaScriptStep, RunScript, ScriptReturns, ScriptFails,
     ScriptSchedules, ScriptCancels, All, Once
<1>6. ASSUME NEW e \in Evals, EvalAwait(e) \/ SleepAndRepeat(e) \/ DeadlinePassed(e)
      PROVE  HandPopped'
  BY <1>3, <1>6 DEF EvalAwait, SleepAndRepeat, DeadlinePassed
<1>7. CASE StopAll \/ UNCHANGED loopVars
  BY <1>7, <1>a DEF StopAll, loopVars, evalVars, HandPopped
<1> QED BY <1>1, <1>4, <1>5, <1>6, <1>7 DEF TimersNext, All, Once

\* Settling leaves the fate of the others alone, and decides that of its own.
LEMMA SettleOnce ==
  ASSUME NEW S, NEW f \in Fates \ {"open"}, NEW t \in Once, Settle(S, f)
  PROVE  /\ t \notin S => fate'[t] = fate[t]
         /\ t \in S => fate'[t] # "open"
BY DEF Settle, Fates

\* Wherever a step takes a callback, it is the only place that callback is in.
LEMMA AccountedStep ==
  ASSUME PlaceInv, [TimersNext]_loopVars, NEW t \in Once
  PROVE  Accounted(t)'
<1>a. /\ Accounted(t) /\ HandPopped /\ t \in All /\ t \notin Intervals /\ t # Nobody
      /\ stopFlag \subseteq All /\ queue \in Seq(All) /\ gor \in [All -> GoPC]
      /\ hand \in [Evals -> All \cup {Nobody}]
      /\ timers \cap stopFlag = {}
      /\ gor[t] = "none" => t \notin stopFlag
      /\ gor[t] \in {"armed", "checked"} => t \in timers \cup stopFlag
  BY TimersAreDistinct DEF PlaceInv, EntryInv, TimersTypeOK, StopClosedOnce, TimersTracked, All, Once
<1>b. ASSUME queue' = queue
      PROVE  Queued' = Queued /\ (AtMostOnce(queue, t) => AtMostOnce(queue', t))
  BY <1>b DEF Queued
<1>c. ASSUME hand' = hand PROVE InSomeHand(t)' <=> InSomeHand(t)
  BY <1>c DEF InSomeHand
\* The goroutine of another timer, or a step that moves no callback.
<1>d. ASSUME queue' = queue, hand' = hand, fate'[t] = fate[t], gor'[t] = gor[t],
             t \in stopFlag' <=> t \in stopFlag
      PROVE  Accounted(t)'
  <2>1. InGoroutine(t)' <=> InGoroutine(t)
    BY <1>d DEF InGoroutine
  <2> QED BY <1>a, <1>b, <1>c, <1>d, <2>1 DEF Accounted
<1>1. ASSUME NEW u \in All, ScheduleTimer(u) PROVE Accounted(t)'
  <2>1. UNCHANGED <<stopFlag, queue, fate, hand>> /\ gor[u] = "none"
        /\ gor' = [gor EXCEPT ![u] = "armed"]
    BY <1>1 DEF ScheduleTimer, GoTo, evalVars
  <2>2. CASE u = t
    <3>1. gor[t] = "none" /\ gor'[t] = "armed"
      BY <2>1, <2>2, <1>a
    <3>2. ~InGoroutine(t) /\ InGoroutine(t)'
      BY <2>1, <3>1, <1>a DEF InGoroutine
    <3> QED BY <2>1, <3>1, <3>2, <1>a, <1>b, <1>c DEF Accounted
  <2>3. CASE u # t
    BY <2>1, <2>3, <1>a, <1>d
  <2> QED BY <2>2, <2>3
<1>2. ASSUME NEW u \in All, Cancel(u) PROVE Accounted(t)'
  <2>1. UNCHANGED <<queue, hand, gor>> /\ stopFlag' = stopFlag \cup {u} /\ u \in timers
        /\ Settle(IF gor[u] = "armed" THEN {u} ELSE {}, "cleared")
    BY <1>2 DEF Cancel, evalVars
  <2>2. CASE u = t /\ gor[t] = "armed"
    <3>1. InGoroutine(t) /\ ~InGoroutine(t)' /\ fate'[t] # "open"
      BY <2>1, <2>2, <1>a, SettleOnce DEF InGoroutine, Fates
    <3> QED BY <2>1, <2>2, <3>1, <1>a, <1>b, <1>c DEF Accounted
  <2>3. CASE u = t /\ gor[t] # "armed"
    <3>1. fate'[t] = fate[t] /\ (InGoroutine(t)' <=> InGoroutine(t))
      BY <2>1, <2>3, SettleOnce DEF InGoroutine, Fates
    <3> QED BY <2>1, <3>1, <1>a, <1>b, <1>c DEF Accounted
  <2>4. CASE u # t
    <3>1. fate'[t] = fate[t]
      BY <2>1, <2>4, SettleOnce DEF Fates
    <3> QED BY <2>1, <2>4, <3>1, <1>d
  <2> QED BY <2>2, <2>3, <2>4
\* StopAll discards what waits in the queue and with the goroutines; what is past the
\* test of the flag, or in a hand, goes on.
<1>3. CASE StopAll
  <2>1. UNCHANGED <<hand, gor>> /\ stopFlag' = stopFlag \cup timers /\ queue' = <<>>
        /\ Settle(Queued \cup {u \in timers : gor[u] = "armed"}, "discarded")
    BY <1>3 DEF StopAll, evalVars
  <2>2. Queued' = {} /\ AtMostOnce(queue', t)
    BY <2>1 DEF Queued, AtMostOnce
  <2>3. CASE t \in Queued \/ (t \in timers /\ gor[t] = "armed")
    <3>1. fate'[t] # "open"
      BY <2>1, <2>3, SettleOnce DEF Fates
    <3>2. ~InGoroutine(t)' /\ ~InSomeHand(t)' /\ gor'[t] # "none"
      BY <2>1, <2>3, <1>a, <1>c DEF Accounted, InGoroutine
    <3> QED BY <2>1, <2>2, <3>1, <3>2, <1>a DEF Accounted
  <2>4. CASE t \notin Queued /\ ~(t \in timers /\ gor[t] = "armed")
    <3>1. fate'[t] = fate[t]
      BY <2>1, <2>4, SettleOnce DEF Fates
    <3>2. InGoroutine(t)' <=> InGoroutine(t)
      BY <2>1, <2>4, <1>a DEF InGoroutine
    <3> QED BY <2>1, <2>2, <2>4, <3>1, <3>2, <1>a, <1>c DEF Accounted
  <2> QED BY <2>3, <2>4
<1>4. ASSUME NEW u \in All, Fire(u) \/ Stopped(u) \/ (u \in Once /\ Forget(u))
      PROVE  Accounted(t)'
  <2>1. UNCHANGED <<stopFlag, queue, fate, hand>>
    BY <1>4 DEF Fire, Stopped, Forget, entryVars, evalVars
  <2>2. gor[u] # "none" /\ (u # t => gor'[t] = gor[t])
        /\ (u = t => gor'[t] # "none" /\ (InGoroutine(t)' <=> InGoroutine(t)))
    BY <1>4, <1>a DEF Fire, Stopped, Forget, GoTo, InGoroutine, entryVars, evalVars
  <2>3. CASE u = t
    BY <2>1, <2>2, <2>3, <1>a, <1>b, <1>c DEF Accounted
  <2>4. CASE u # t
    BY <2>1, <2>2, <2>4, <1>d
  <2> QED BY <2>3, <2>4
<1>5. ASSUME NEW u \in All, Enqueue(u) PROVE Accounted(t)'
  <2>1. UNCHANGED <<stopFlag, fate, hand>> /\ queue' = Append(queue, u) /\ gor[u] = "checked"
        /\ gor' = [gor EXCEPT ![u] = IF u \in Intervals THEN "armed" ELSE "sent"]
    BY <1>5 DEF Enqueue, AfterSend, GoTo, entryVars, evalVars
  <2>2. Queued = Elems(queue) /\ Queued' = Elems(Append(queue, u))
    BY <2>1 DEF Queued, Elems
  <2>3. /\ Queued' = Queued \cup {u}
        /\ u # t => AtMostOnce(queue', t)
        /\ u = t /\ t \notin Queued => AtMostOnce(queue', t)
    BY <2>1, <2>2, <1>a, EnqueueOne DEF Accounted
  <2>4. CASE u = t
    <3>1. InGoroutine(t) /\ ~InGoroutine(t)' /\ gor'[t] # "none"
      BY <2>1, <2>4, <1>a DEF InGoroutine
    <3> QED BY <2>1, <2>3, <2>4, <3>1, <1>a, <1>c DEF Accounted
  <2>5. CASE u # t
    <3>1. gor'[t] = gor[t] /\ (InGoroutine(t)' <=> InGoroutine(t))
      BY <2>1, <2>5, <1>a DEF InGoroutine
    <3> QED BY <2>1, <2>3, <2>5, <3>1, <1>a, <1>c DEF Accounted
  <2> QED BY <2>4, <2>5
<1>6. ASSUME NEW u \in All, QueueFull(u) PROVE Accounted(t)'
  <2>1. UNCHANGED <<stopFlag, queue, hand>> /\ Settle({u}, "queueFull") /\ gor[u] = "checked"
        /\ gor' = [gor EXCEPT ![u] = IF u \in Intervals THEN "armed" ELSE "sent"]
    BY <1>6 DEF QueueFull, AfterSend, GoTo, entryVars, evalVars
  <2>2. CASE u = t
    <3>1. InGoroutine(t) /\ ~InGoroutine(t)' /\ gor'[t] # "none" /\ fate'[t] # "open"
      BY <2>1, <2>2, <1>a, SettleOnce DEF InGoroutine, Fates
    <3> QED BY <2>1, <3>1, <1>a, <1>b, <1>c DEF Accounted
  <2>3. CASE u # t
    <3>1. fate'[t] = fate[t]
      BY <2>1, <2>3, SettleOnce DEF Fates
    <3> QED BY <2>1, <2>3, <3>1, <1>a, <1>d
  <2> QED BY <2>2, <2>3
\* From the queue into a hand, which was empty.
<1>7. ASSUME NEW e \in Evals, Receive(e) PROVE Accounted(t)'
  <2>1. UNCHANGED <<stopFlag, fate, gor>> /\ queue # <<>> /\ queue' = Tail(queue)
        /\ hand[e] = Nobody /\ hand' = [hand EXCEPT ![e] = Head(queue)]
    BY <1>7, <1>a DEF Receive, HandPopped, timerVars, entryVars
  <2>2. Queued = Elems(queue) /\ Queued' = Elems(Tail(queue))
    BY <2>1 DEF Queued, Elems
  <2>3. /\ Queued = {Head(queue)} \cup Queued'
        /\ AtMostOnce(queue', t)
        /\ Head(queue) = t => t \notin Queued'
    BY <2>1, <2>2, <1>a, ReceiveHead DEF Accounted
  <2>4. InGoroutine(t)' <=> InGoroutine(t)
    BY <2>1 DEF InGoroutine
  <2>5. InSomeHand(t)' <=> InSomeHand(t) \/ Head(queue) = t
    BY <2>1, <1>a DEF InSomeHand
  <2>6. \A f, g \in Evals : hand'[f] = t /\ hand'[g] = t => f = g
    <3>1. Head(queue) = t => ~InSomeHand(t)
      BY <2>3, <1>a DEF Accounted
    <3> QED BY <2>1, <3>1, <1>a DEF Accounted, InSomeHand
  <2> QED BY <2>1, <2>3, <2>4, <2>5, <2>6, <1>a DEF Accounted
\* Out of the hand: the callback runs, and its fate is settled.
<1>8. ASSUME NEW e \in Evals, RunCallback(e) PROVE Accounted(t)'
  <2>1. UNCHANGED <<stopFlag, queue, gor>> /\ Settle({hand[e]}, "ran")
        /\ hand' = [hand EXCEPT ![e] = Nobody]
    BY <1>8 DEF RunCallback, Enter, timerVars, entryVars
  <2>2. InGoroutine(t)' <=> InGoroutine(t)
    BY <2>1 DEF InGoroutine
  <2>3. CASE hand[e] = t
    <3>1. InSomeHand(t) /\ ~InSomeHand(t)' /\ \A f \in Evals : hand'[f] # t
      BY <2>1, <2>3, <1>a DEF InSomeHand, Accounted
    <3>2. fate'[t] # "open"
      BY <2>1, <2>3, SettleOnce DEF Fates
    <3> QED BY <2>1, <2>2, <3>1, <3>2, <1>a, <1>b DEF Accounted
  <2>4. CASE hand[e] # t
    <3>1. InSomeHand(t)' <=> InSomeHand(t)
      BY <2>1, <2>4, <1>a DEF InSomeHand
    <3>2. \A f, g \in Evals : hand'[f] = t /\ hand'[g] = t => f = g
      BY <2>1, <1>a DEF Accounted
    <3>3. fate'[t] = fate[t]
      BY <2>1, <2>4, SettleOnce DEF Fates
    <3> QED BY <2>1, <2>2, <3>1, <3>2, <3>3, <1>a, <1>b DEF Accounted
  <2> QED BY <2>3, <2>4
<1>9. ASSUME NEW e \in Evals, NEW from, NEW to,
             \/ Advance(e, from, to)
             \/ Enter(e, from, to) /\ UNCHANGED <<fate, hand, xhr>>
             \/ Exit(e, from, to)
      PROVE  Accounted(t)'
  BY <1>9, <1>d DEF Advance, Enter, Exit, timerVars, entryVars
<1>10. ASSUME NEW e \in Evals,
              DrainStep(e) \/ EvalAwait(e) \/ SleepAndRepeat(e) \/ DeadlinePassed(e)
       PROVE  Accounted(t)'
  BY <1>7, <1>8, <1>9, <1>10 DEF DrainStep, CallbackReturns, DrainEnds, Flush, CheckpointEnds,
     PendingCallbacks, PendingOneShotTimers, EvalAwait, SleepAndRepeat, DeadlinePassed
<1>11. ASSUME NEW e \in Evals, JavaScriptStep(e) PROVE Accounted(t)'
  <2>1. ASSUME NEW p \in Posts, ScriptRequests(e, p) PROVE Accounted(t)'
    BY <2>1, <1>d DEF ScriptRequests, entryVars
  <2> QED BY <1>1, <1>2, <1>9, <1>11, <2>1 DEF JavaScriptStep, RunScript, ScriptReturns, ScriptFails,
     ScriptSchedules, ScriptCancels, All, Once
<1>12. ASSUME NEW u \in All, TimerStep(u) PROVE Accounted(t)'
  BY <1>4, <1>5, <1>6, <1>12 DEF TimerStep
<1>13. CASE UNCHANGED loopVars
  BY <1>13, <1>d DEF loopVars
<1> QED BY <1>1, <1>3, <1>10, <1>11, <1>12, <1>13 DEF TimersNext, All, Once

\* Every callback that is to fire once is in exactly one place until its fate is
\* settled, and in none afterwards: none runs twice, whatever the number of drain loops,
\* and none is lost but to a full queue, a cancel or StopAll.
THEOREM CallbacksAccounted == TimersSpec => []OneShotAccounted
<1>1. PlaceInv /\ [TimersNext]_loopVars => PlaceInv'
  BY NextEntryInv, HandPoppedStep, AccountedStep DEF PlaceInv
<1> QED BY InitPlaceInv, <1>1, AccountedIsOnePlace, PTL DEF TimersSpec

-----------------------------------------------------------------------------
(* The goroutines of the timers wind down. *)

\* How many steps the goroutine of t has left at most: the one of an interval that is to
\* end may be about to send once more.
StepsLeft(t) ==
  IF t \in Intervals
  THEN CASE gor[t] = "checked" -> 2 [] gor[t] = "armed" -> 1 [] OTHER -> 0
  ELSE CASE gor[t] = "armed" -> 3 [] gor[t] = "checked" -> 2 [] gor[t] = "sent" -> 1 [] OTHER -> 0

\* A goroutine that is to end: every one of a timer that fires once, and all of them once
\* the manager is stopped.
ToEnd(t) == gor[t] # "none" /\ (t \in Once \/ stopped)

\* The goroutine of t can go on: each of its waits is for the time to pass, or for the
\* queue, whose default branch is there when the queue is full.
GoroutineCanMove(t) ==
  \/ gor[t] = "armed" /\ (t \in stopFlag \/ t \in Once)
  \/ gor[t] = "checked" /\ (Len(queue) < QueueCap \/ Len(queue) = QueueCap)
  \/ gor[t] = "sent" /\ t \in Once

\* What a step does to the goroutine of t.
LEMMA WhoMoves ==
  ASSUME EntryInv, [TimersNext]_loopVars, NEW t \in All
  PROVE  TimerStep(t) \/ gor'[t] = gor[t] \/ (gor[t] = "none" /\ gor'[t] = "armed")
<1> DEFINE Goal == TimerStep(t) \/ gor'[t] = gor[t] \/ (gor[t] = "none" /\ gor'[t] = "armed")
<1> USE DEF EntryInv, TimersTypeOK, GoTo, AfterSend, timerVars, entryVars, evalVars
<1>1. ASSUME NEW u \in All, TimerStep(u) PROVE Goal
  <2>1. CASE u = t
    BY <1>1, <2>1
  <2>2. CASE u # t
    BY <1>1, <2>2 DEF TimerStep, Fire, Stopped, Enqueue, QueueFull, Forget
  <2> QED BY <2>1, <2>2
<1>2. ASSUME NEW u \in All, ScheduleTimer(u) PROVE Goal
  BY <1>2 DEF ScheduleTimer
<1>3. ASSUME NEW u \in All, Cancel(u) PROVE Goal
  BY <1>3 DEF Cancel
<1>4. ASSUME NEW e \in Evals, EvalAwait(e) \/ SleepAndRepeat(e) \/ DeadlinePassed(e) PROVE Goal
  BY <1>4 DEF EvalAwait, SleepAndRepeat, DeadlinePassed, Advance
<1>5. ASSUME NEW e \in Evals, JavaScriptStep(e) PROVE Goal
  BY <1>2, <1>3, <1>5 DEF JavaScriptStep, RunScript, ScriptReturns, ScriptFails,
     Enter, Exit, ScriptRequests,
     ScriptSchedules, ScriptCancels, All, Once
<1>6. ASSUME NEW e \in Evals, DrainStep(e) PROVE Goal
  BY <1>6 DEF DrainStep, Receive, RunCallback, CallbackReturns, DrainEnds, Flush,
     CheckpointEnds, PendingCallbacks, PendingOneShotTimers, Enter, Exit, Advance
<1>7. ASSUME StopAll PROVE Goal
  BY <1>7 DEF StopAll
<1>8. CASE UNCHANGED loopVars
  BY <1>8 DEF loopVars
<1> QED BY <1>1, <1>2, <1>4, <1>5, <1>6, <1>7, <1>8 DEF TimersNext, All, Once

\* The manager stays stopped.
LEMMA StoppedForGood ==
  ASSUME EntryInv, [TimersNext]_loopVars
  PROVE  stopped => stopped'
<1> USE DEF timerVars, entryVars, evalVars
<1>1. ASSUME NEW t \in All, TimerStep(t) PROVE stopped' = stopped
  BY <1>1 DEF TimerStep, Fire, Stopped, Enqueue, QueueFull, Forget
<1>2. ASSUME NEW t, ScheduleTimer(t) \/ Cancel(t) PROVE stopped' = stopped
  BY <1>2 DEF ScheduleTimer, Cancel
<1>3. ASSUME NEW e \in Evals, EvalAwait(e) \/ SleepAndRepeat(e) \/ DeadlinePassed(e)
      PROVE  stopped' = stopped
  BY <1>3 DEF EvalAwait, SleepAndRepeat, DeadlinePassed, Advance
<1>4. ASSUME NEW e \in Evals, JavaScriptStep(e) PROVE stopped' = stopped
  BY <1>2, <1>4 DEF JavaScriptStep, RunScript, ScriptReturns, ScriptFails,
     Enter, Exit, ScriptRequests,
     ScriptSchedules, ScriptCancels
<1>5. ASSUME NEW e \in Evals, DrainStep(e) PROVE stopped' = stopped
  BY <1>5 DEF DrainStep, Receive, RunCallback, CallbackReturns, DrainEnds, Flush,
     CheckpointEnds, PendingCallbacks, PendingOneShotTimers, Enter, Exit, Advance
<1>6. ASSUME StopAll PROVE stopped'
  BY <1>6 DEF StopAll
<1>7. CASE UNCHANGED loopVars
  BY <1>7 DEF loopVars
<1> QED BY <1>1, <1>2, <1>3, <1>4, <1>5, <1>6, <1>7 DEF TimersNext

\* The goroutine of an interval stays in its loop when it has sent.
SentIsOnce == \A t \in Intervals : gor[t] # "sent"

LEMMA SentIsOnceStep ==
  ASSUME EntryInv, SentIsOnce, [TimersNext]_loopVars
  PROVE  SentIsOnce'
<1> SUFFICES ASSUME NEW t \in Intervals, gor'[t] = "sent" PROVE FALSE
  BY DEF SentIsOnce
<1>1. t \in All /\ gor[t] # "sent" /\ gor[t] \in GoPC
  BY DEF All, SentIsOnce, EntryInv, TimersTypeOK
<1>2. CASE TimerStep(t)
  BY <1>1, <1>2 DEF TimerStep, Fire, Stopped, Enqueue, QueueFull, Forget, AfterSend, GoTo,
     EntryInv, TimersTypeOK
<1> QED BY <1>1, <1>2, WhoMoves

\* The goroutine of a timer that is to end has no step left, or can go on; and whatever
\* happens it gets no further from its end, and closer with each step of its own.
THEOREM GoroutinesWindDown ==
  TimersSpec => /\ [](\A t \in All : ToEnd(t) /\ gor[t] # "exited" => GoroutineCanMove(t))
          /\ [][\A t \in All : ToEnd(t) =>
                  /\ ToEnd(t)'
                  /\ StepsLeft(t)' <= StepsLeft(t)
                  /\ TimerStep(t) => StepsLeft(t)' < StepsLeft(t)]_loopVars
<1> DEFINE CanEnd == \A t \in All : ToEnd(t) /\ gor[t] # "exited" => GoroutineCanMove(t)
           Closer(t) == /\ ToEnd(t)'
                        /\ StepsLeft(t)' <= StepsLeft(t)
                        /\ TimerStep(t) => StepsLeft(t)' < StepsLeft(t)
           Descends == \A t \in All : ToEnd(t) => Closer(t)
           Inv == EntryInv /\ SentIsOnce
<1>1. Inv => CanEnd
  <2> SUFFICES ASSUME EntryInv, SentIsOnce, NEW t \in All, ToEnd(t), gor[t] # "exited"
               PROVE  GoroutineCanMove(t)
    OBVIOUS
  <2> USE DEF EntryInv, TimersTypeOK, GoPC
  <2>1. CASE gor[t] = "armed"
    BY <2>1 DEF GoroutineCanMove, ToEnd, StopReachesAll
  <2>2. CASE gor[t] = "checked"
    <3>1. Len(queue) \in Nat /\ Len(queue) <= QueueCap
      BY LenProperties
    <3> QED BY <2>2, <3>1, BoundsAreNumbers DEF GoroutineCanMove
  <2>3. CASE gor[t] = "sent"
    BY <2>3 DEF GoroutineCanMove, SentIsOnce, All, Once
  <2> QED BY <2>1, <2>2, <2>3 DEF ToEnd
<1>2. Inv /\ [TimersNext]_loopVars => [Descends]_loopVars
  <2> SUFFICES ASSUME EntryInv, SentIsOnce, [TimersNext]_loopVars, NEW t \in All, ToEnd(t) PROVE Closer(t)
    OBVIOUS
  <2>1. gor[t] # "none" /\ (stopped => stopped')
    BY StoppedForGood DEF ToEnd
  <2>4. gor \in [All -> GoPC] /\ Intervals \cap Once = {}
    BY TimersAreDistinct DEF EntryInv, TimersTypeOK, Once
  <2>2. CASE TimerStep(t)
    <3>1. CASE Fire(t)
      <4>1. gor[t] = "armed" /\ t \notin stopFlag /\ gor'[t] = "checked" /\ stopped' = stopped
        BY <2>4, <3>1 DEF Fire, GoTo, entryVars
      <4>2. t \notin Intervals
        BY <2>4, <4>1 DEF ToEnd, EntryInv, StopReachesAll
      <4> QED BY <4>1, <4>2 DEF ToEnd, StepsLeft
    <3>2. CASE Stopped(t)
      <4>1. gor[t] = "armed" /\ gor'[t] = "exited" /\ stopped' = stopped
        BY <2>4, <3>2 DEF Stopped, GoTo, entryVars
      <4> QED BY <4>1 DEF ToEnd, StepsLeft
    <3>3. CASE Enqueue(t) \/ QueueFull(t)
      <4>1. /\ gor[t] = "checked" /\ stopped' = stopped
            /\ gor'[t] = IF t \in Intervals THEN "armed" ELSE "sent"
        BY <2>4, <3>3 DEF Enqueue, QueueFull, AfterSend, GoTo, entryVars
      <4> QED BY <4>1 DEF ToEnd, StepsLeft
    <3>4. CASE t \in Once /\ Forget(t)
      <4>1. gor[t] = "sent" /\ gor'[t] = "exited" /\ stopped' = stopped /\ t \notin Intervals
        BY <2>4, <3>4 DEF Forget, GoTo
      <4> QED BY <4>1 DEF ToEnd, StepsLeft
    <3> QED BY <2>2, <3>1, <3>2, <3>3, <3>4 DEF TimerStep
  <2>3. CASE ~TimerStep(t)
    <3>1. gor'[t] = gor[t]
      BY <2>1, <2>3, WhoMoves
    <3>2. ToEnd(t)'
      BY <2>1, <3>1 DEF ToEnd
    <3>3. StepsLeft(t)' = StepsLeft(t) /\ StepsLeft(t) \in Nat
      BY <3>1 DEF StepsLeft
    <3> QED BY <2>3, <3>2, <3>3
  <2> QED BY <2>2, <2>3
<1>3. TimersInit => Inv
  BY InitEntryInv DEF TimersInit, SentIsOnce, All
<1>4. Inv /\ [TimersNext]_loopVars => Inv'
  BY NextEntryInv, SentIsOnceStep
<1> HIDE DEF CanEnd, Descends, Inv
<1>5. TimersSpec => []CanEnd /\ [][Descends]_loopVars
  BY <1>1, <1>2, <1>3, <1>4, PTL DEF TimersSpec
<1> QED BY <1>5 DEF CanEnd, Descends, Closer

=============================================================================
