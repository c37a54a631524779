----------------------------- MODULE EngineProofs -----------------------------
(***************************************************************************)
(* The isolate pool hands each V8 isolate to one session at a time, for    *)
(* any number of sessions, calls and isolates and any size of the pool.    *)
(*                                                                         *)
(* The inductive invariant PoolInv joins the exclusiveness of isolates,    *)
(* that those in use are alive, and UsersHold: JavaScript runs only in a   *)
(* session that holds its isolate.                                         *)
(***************************************************************************)
EXTENDS Engine, TLAPS

Elems(q) == {q[i] : i \in DOMAIN q}
NoRepeat(q) == \A i, j \in DOMAIN q : q[i] = q[j] => i = j

-----------------------------------------------------------------------------
(* The channel as a sequence without repetition.                           *)

\* Receiving from the channel removes one element and repeats none.
LEMMA ReceiveOne ==
  ASSUME NEW S, NEW q \in Seq(S), q # <<>>, NoRepeat(q)
  PROVE  /\ Tail(q) \in Seq(S) /\ Len(Tail(q)) <= Len(q)
         /\ Head(q) \in Elems(q) /\ Head(q) \in S
         /\ Elems(Tail(q)) \subseteq Elems(q) \ {Head(q)}
         /\ Elems(q) = {Head(q)} \cup Elems(Tail(q))
         /\ NoRepeat(Tail(q))
<1>1. /\ Tail(q) \in Seq(S) /\ Len(Tail(q)) = Len(q) - 1 /\ Len(q) \in Nat \ {0}
      /\ DOMAIN q = 1..Len(q) /\ DOMAIN Tail(q) = 1..(Len(q) - 1)
      /\ Head(q) = q[1]
      /\ \A i \in 1..(Len(q) - 1) : Tail(q)[i] = q[i + 1]
  OBVIOUS
<1>2. Head(q) \in Elems(q) /\ Head(q) \in S
  BY <1>1 DEF Elems
<1>3. \A i \in DOMAIN Tail(q) : i + 1 \in DOMAIN q /\ i + 1 # 1 /\ Tail(q)[i] = q[i + 1]
  BY <1>1
<1>4. Elems(Tail(q)) \subseteq Elems(q) \ {Head(q)}
  <2>1. 1 \in DOMAIN q
    BY <1>1
  <2> QED BY <2>1, <1>1, <1>3 DEF Elems, NoRepeat
<1>5. NoRepeat(Tail(q))
  <2> SUFFICES ASSUME NEW i \in DOMAIN Tail(q), NEW j \in DOMAIN Tail(q),
                      Tail(q)[i] = Tail(q)[j]
               PROVE  i = j
    BY DEF NoRepeat
  <2>1. i + 1 = j + 1
    BY <1>3 DEF NoRepeat
  <2> QED BY <2>1, <1>1
<1>6. Elems(q) \subseteq {Head(q)} \cup Elems(Tail(q))
  <2> SUFFICES ASSUME NEW i \in DOMAIN q, i # 1
               PROVE  q[i] \in Elems(Tail(q))
    BY <1>1 DEF Elems
  <2>1. i - 1 \in DOMAIN Tail(q) /\ Tail(q)[i - 1] = q[i]
    BY <1>1
  <2> QED BY <2>1 DEF Elems
<1> QED BY <1>1, <1>2, <1>4, <1>5, <1>6

\* Sending a new element to the channel repeats none.
LEMMA SendOne ==
  ASSUME NEW S, NEW q \in Seq(S), NoRepeat(q), NEW x \in S, x \notin Elems(q)
  PROVE  /\ Append(q, x) \in Seq(S) /\ Len(Append(q, x)) = Len(q) + 1
         /\ Elems(Append(q, x)) = Elems(q) \cup {x}
         /\ NoRepeat(Append(q, x))
<1>1. /\ Append(q, x) \in Seq(S) /\ Len(Append(q, x)) = Len(q) + 1 /\ Len(q) \in Nat
      /\ DOMAIN q = 1..Len(q) /\ DOMAIN Append(q, x) = 1..(Len(q) + 1)
      /\ Append(q, x)[Len(q) + 1] = x
      /\ \A i \in 1..Len(q) : Append(q, x)[i] = q[i]
  OBVIOUS
<1>2. \A i \in DOMAIN Append(q, x) : i \in DOMAIN q \/ i = Len(q) + 1
  BY <1>1
<1>3. Elems(Append(q, x)) = Elems(q) \cup {x}
  <2>1. DOMAIN q \subseteq DOMAIN Append(q, x) /\ Len(q) + 1 \in DOMAIN Append(q, x)
    BY <1>1
  <2> QED BY <2>1, <1>1, <1>2 DEF Elems
<1>4. NoRepeat(Append(q, x))
  BY <1>1, <1>2 DEF NoRepeat, Elems
<1> QED BY <1>1, <1>3, <1>4

-----------------------------------------------------------------------------
(* The pool starts empty, open and with every isolate unmade. *)
LEMMA PoolInvInit == Init => PoolInv
<1> SUFFICES ASSUME Init PROVE PoolInv
  OBVIOUS
<1>1. pool = <<>> /\ pool \in Seq(Isolates) /\ Len(pool) = 0 /\ DOMAIN pool = {}
  BY DEF Init
<1>2. TypeOK
  <2>1. pool \in Seq(Isolates) /\ Len(pool) <= PoolSize
    BY <1>1, EngineConstants
  <2>2. /\ iso \in [Sessions -> Isolates \cup {NoIsolate}]
        /\ phase \in [Sessions -> Phases]
        /\ users \in [Sessions -> SUBSET Users]
    BY DEF Init, Phases
  <2> QED BY <2>1, <2>2 DEF Init, TypeOK
<1>3. Pooled = {} /\ \A s \in Sessions : ~Holds(s)
  BY <1>1 DEF Init, Pooled, Holds
<1>4. IsolateExclusive /\ NothingDeadInUse /\ UsersHold
  BY <1>1, <1>3 DEF Init, IsolateExclusive, NothingDeadInUse, UsersHold
<1> QED BY <1>2, <1>4 DEF PoolInv, Init

\* Every step preserves the invariant: one step of the proof for each action.
LEMMA PoolInvStep == PoolInv /\ [Next]_vars => PoolInv'
<1> SUFFICES ASSUME PoolInv, [Next]_vars PROVE PoolInv'
  OBVIOUS
<1> USE EngineConstants
<1>a. TypeOK /\ IsolateExclusive /\ NothingDeadInUse /\ UsersHold /\ dead \subseteq made
  BY DEF PoolInv
<1>b. /\ Pooled = Elems(pool) /\ Pooled' = Elems(pool')
      /\ NoRepeat(pool) /\ (IsolateExclusive' => NoRepeat(pool'))
  BY <1>a DEF Pooled, Elems, NoRepeat, IsolateExclusive
<1>c. /\ pool \in Seq(Isolates) /\ Len(pool) <= PoolSize /\ Len(pool) \in Nat
      /\ iso \in [Sessions -> Isolates \cup {NoIsolate}]
      /\ phase \in [Sessions -> Phases] /\ users \in [Sessions -> SUBSET Users]
      /\ made \subseteq Isolates /\ dead \subseteq Isolates
      /\ closed \in BOOLEAN /\ draining \in BOOLEAN /\ raced \subseteq Sessions
  BY <1>a DEF TypeOK
<1> DEFINE Same == UNCHANGED <<pool, made, dead, iso>>
\* A change of phase that takes no isolate, and of users that hold it.
<1>d. ASSUME Same, TypeOK', UsersHold', \A s \in Sessions : Holds(s)' => Holds(s)
      PROVE  PoolInv'
  BY <1>a, <1>d DEF PoolInv, IsolateExclusive, NothingDeadInUse, Holds, Pooled
<1>1. ASSUME NEW s \in Sessions, CreatePooled(s) PROVE PoolInv'
  <2> USE <1>1 DEF CreatePooled, Start, SetPhase
  <2>1. /\ Tail(pool) \in Seq(Isolates) /\ Len(Tail(pool)) <= PoolSize
        /\ Head(pool) \in Pooled /\ Head(pool) \in Isolates
        /\ Pooled' \subseteq Pooled \ {Head(pool)} /\ NoRepeat(pool')
    BY <1>b, <1>c, ReceiveOne
  <2>2. TypeOK'
    BY <1>c, <2>1 DEF TypeOK, Phases
  <2>3. \A t \in Sessions : Holds(t)' => t = s \/ (Holds(t) /\ iso'[t] = iso[t])
    BY <1>c DEF Holds
  <2>4. iso'[s] = Head(pool) /\ phase'[s] = "live"
    BY <1>c
  <2>5. IsolateExclusive'
    <3>1. \A t \in Sessions : Holds(t) => iso[t] # Head(pool) /\ iso[t] \notin Pooled
      BY <1>a, <2>1 DEF IsolateExclusive
    <3>2. \A t, u \in Sessions : Holds(t)' /\ Holds(u)' /\ iso'[t] = iso'[u] => t = u
      BY <1>a, <2>3, <2>4, <3>1 DEF IsolateExclusive
    <3>3. \A t \in Sessions : Holds(t)' => iso'[t] \notin Pooled'
      BY <2>1, <2>3, <2>4, <3>1
    <3> QED BY <2>1, <3>2, <3>3 DEF IsolateExclusive, NoRepeat
  <2>6. NothingDeadInUse'
    BY <1>a, <2>1, <2>3, <2>4 DEF NothingDeadInUse
  <2>7. UsersHold'
    BY <1>a, <1>c DEF UsersHold
  <2> QED BY <1>a, <2>2, <2>5, <2>6, <2>7 DEF PoolInv
<1>2. ASSUME NEW s \in Sessions, CreateFresh(s) PROVE PoolInv'
  <2> USE <1>2 DEF CreateFresh, Start, SetPhase
  <2>1. PICK i \in Isolates \ made : Start(s, i) /\ made' = made \cup {i}
    OBVIOUS
  <2>2. TypeOK'
    BY <1>c, <2>1 DEF TypeOK, Phases
  <2>3. \A t \in Sessions : Holds(t)' => t = s \/ (Holds(t) /\ iso'[t] = iso[t])
    BY <1>c, <2>1 DEF Holds
  <2>4. iso'[s] = i /\ phase'[s] = "live" /\ Pooled' = Pooled
    BY <1>c, <2>1 DEF Pooled
  <2>5. i \notin Pooled /\ i \notin dead /\ \A t \in Sessions : Holds(t) => iso[t] # i
    BY <1>a, <2>1 DEF NothingDeadInUse
  <2>6. IsolateExclusive'
    BY <1>a, <1>b, <2>3, <2>4, <2>5 DEF IsolateExclusive
  <2>7. NothingDeadInUse'
    BY <1>a, <2>1, <2>3, <2>4, <2>5 DEF NothingDeadInUse
  <2>8. UsersHold'
    BY <1>a, <1>c, <2>1 DEF UsersHold
  <2> QED BY <1>a, <2>1, <2>2, <2>6, <2>7, <2>8 DEF PoolInv
\* Steps of the calls and of Dispose before Put move neither isolates nor the pool.
<1>3. ASSUME NEW s \in Sessions, NEW u \in Users, Admit(s, u) PROVE PoolInv'
  <2>1. TypeOK' /\ UsersHold' /\ \A t \in Sessions : Holds(t)' => Holds(t)
    BY <1>3, <1>a, <1>c DEF Admit, poolVars, TypeOK, UsersHold, Holds
  <2> QED BY <2>1, <1>3, <1>d DEF Admit, poolVars
<1>4. ASSUME NEW s \in Sessions, NEW u \in Users, Leave(s, u) PROVE PoolInv'
  <2>1. TypeOK' /\ UsersHold' /\ \A t \in Sessions : Holds(t)' => Holds(t)
    BY <1>4, <1>a, <1>c DEF Leave, poolVars, TypeOK, UsersHold, Holds
  <2> QED BY <2>1, <1>4, <1>d DEF Leave, poolVars
<1>5. ASSUME NEW s \in Sessions, StartClosing(s) PROVE PoolInv'
  <2>1. TypeOK' /\ UsersHold' /\ \A t \in Sessions : Holds(t)' => Holds(t)
    BY <1>5, <1>a, <1>c DEF StartClosing, SetPhase, poolVars, TypeOK, UsersHold, Holds, Phases
  <2> QED BY <2>1, <1>5, <1>d DEF StartClosing, poolVars
<1>6. ASSUME NEW s \in Sessions, CloseContext(s) PROVE PoolInv'
  <2>1. TypeOK' /\ UsersHold' /\ \A t \in Sessions : Holds(t)' => Holds(t)
    BY <1>6, <1>a, <1>c DEF CloseContext, SetPhase, poolVars, TypeOK, UsersHold, Holds, Phases
  <2> QED BY <2>1, <1>6, <1>d DEF CloseContext, poolVars
<1>7. ASSUME NEW s \in Sessions, GiveUp(s) PROVE PoolInv'
  <2>1. TypeOK' /\ UsersHold' /\ \A t \in Sessions : Holds(t)' => Holds(t)
    BY <1>7, <1>a, <1>c DEF GiveUp, SetPhase, poolVars, TypeOK, UsersHold, Holds, Phases
  <2> QED BY <2>1, <1>7, <1>d DEF GiveUp, poolVars
<1>8. ASSUME NEW s \in Sessions, PutOpen(s) PROVE PoolInv'
  <2>1. TypeOK' /\ UsersHold' /\ \A t \in Sessions : Holds(t)' => Holds(t)
    BY <1>8, <1>a, <1>c DEF PutOpen, SetPhase, poolVars, TypeOK, UsersHold, Holds, Phases
  <2> QED BY <2>1, <1>8, <1>d DEF PutOpen, poolVars
\* The three ends of Put: the session holds the isolate no longer.
<1>e. ASSUME NEW s \in Sessions, phase[s] \in {"closed", "putting"},
             SetPhase(s, "returned"), UNCHANGED <<iso, users>>
      PROVE  /\ phase' \in [Sessions -> Phases] /\ UsersHold'
             /\ iso[s] \in made \ dead /\ iso[s] \in Isolates /\ iso[s] \notin Pooled
             /\ \A t \in Sessions : Holds(t)' => Holds(t) /\ iso[t] # iso[s]
  <2>1. Holds(s)
    BY <1>e DEF Holds
  <2>2. iso[s] \in made \ dead /\ iso[s] \in Isolates /\ iso[s] \notin Pooled
    BY <2>1, <1>a, <1>c DEF NothingDeadInUse, IsolateExclusive
  <2>3. /\ phase' \in [Sessions -> Phases]
        /\ \A t \in Sessions : Holds(t)' => Holds(t) /\ t # s
    BY <1>e, <1>c DEF SetPhase, Holds, Phases
  <2>4. \A t \in Sessions : Holds(t)' => Holds(t) /\ iso[t] # iso[s]
    BY <2>1, <2>3, <1>a DEF IsolateExclusive
  <2>5. UsersHold'
    BY <1>e, <1>a, <1>c DEF UsersHold, SetPhase
  <2> QED BY <2>2, <2>3, <2>4, <2>5
\* An isolate that nobody holds and that is not pooled is disposed.
<1>f. ASSUME NEW s \in Sessions, phase[s] \in {"closed", "putting"},
             SetPhase(s, "returned"), dead' = dead \cup {iso[s]},
             UNCHANGED <<pool, closed, draining, made, raced, iso, users>>
      PROVE  PoolInv'
  <2>1. /\ phase' \in [Sessions -> Phases] /\ UsersHold'
        /\ iso[s] \in made \ dead /\ iso[s] \in Isolates /\ iso[s] \notin Pooled
        /\ \A t \in Sessions : Holds(t)' => Holds(t) /\ iso[t] # iso[s]
    BY <1>e, <1>f
  <2>2. TypeOK'
    BY <1>f, <1>c, <2>1 DEF TypeOK
  <2>3. Pooled' = Pooled
    BY <1>f DEF Pooled
  <2>4. IsolateExclusive'
    BY <1>a, <1>f, <2>1, <2>3 DEF IsolateExclusive
  <2>5. NothingDeadInUse'
    BY <1>a, <1>f, <2>1, <2>3 DEF NothingDeadInUse
  <2> QED BY <1>a, <1>f, <2>1, <2>2, <2>4, <2>5 DEF PoolInv
<1>9. ASSUME NEW s \in Sessions, PutClosed(s) PROVE PoolInv'
  BY <1>9, <1>f DEF PutClosed
<1>10. ASSUME NEW s \in Sessions, PutFull(s) PROVE PoolInv'
  BY <1>10, <1>f DEF PutFull
<1>11. ASSUME NEW s \in Sessions, PutSend(s) PROVE PoolInv'
  <2> USE <1>11 DEF PutSend
  <2>1. /\ phase' \in [Sessions -> Phases] /\ UsersHold'
        /\ iso[s] \in made \ dead /\ iso[s] \in Isolates /\ iso[s] \notin Pooled
        /\ \A t \in Sessions : Holds(t)' => Holds(t) /\ iso[t] # iso[s]
    BY <1>e
  <2>2. /\ pool' \in Seq(Isolates) /\ Len(pool') = Len(pool) + 1
        /\ Pooled' = Pooled \cup {iso[s]} /\ NoRepeat(pool')
    BY <1>b, <1>c, <2>1, SendOne
  <2>3. TypeOK'
    BY <1>c, <2>1, <2>2 DEF TypeOK
  <2>4. IsolateExclusive'
    BY <1>a, <2>1, <2>2 DEF IsolateExclusive, NoRepeat
  <2>5. NothingDeadInUse'
    BY <1>a, <2>1, <2>2 DEF NothingDeadInUse
  <2> QED BY <1>a, <2>1, <2>3, <2>4, <2>5 DEF PoolInv
<1>12. ASSUME DisposeAll PROVE PoolInv'
  <2>1. TypeOK' /\ UsersHold' /\ \A t \in Sessions : Holds(t)' => Holds(t)
    BY <1>12, <1>a, <1>c DEF DisposeAll, sessVars, TypeOK, UsersHold, Holds
  <2> QED BY <2>1, <1>12, <1>d DEF DisposeAll, sessVars
<1>13. ASSUME DisposeOne PROVE PoolInv'
  <2> USE <1>13 DEF DisposeOne, sessVars
  <2>0. /\ iso' = iso /\ made' = made /\ dead' = dead \cup {Head(pool)}
        /\ users' = users /\ phase' = phase
    OBVIOUS
  <2>1. /\ pool' \in Seq(Isolates) /\ Len(pool') <= PoolSize
        /\ Head(pool) \in Pooled /\ Head(pool) \in Isolates
        /\ Pooled' \subseteq Pooled \ {Head(pool)} /\ NoRepeat(pool')
    BY <1>b, <1>c, ReceiveOne
  <2>2. TypeOK'
    BY <1>c, <2>1 DEF TypeOK
  <2>3. \A t \in Sessions : Holds(t)' => Holds(t) /\ iso[t] # Head(pool)
    BY <1>a, <2>1 DEF Holds, IsolateExclusive
  <2>4. IsolateExclusive'
    BY <1>a, <2>0, <2>1, <2>3 DEF IsolateExclusive, NoRepeat
  <2>5. NothingDeadInUse'
    BY <1>a, <2>0, <2>1, <2>3 DEF NothingDeadInUse
  <2>6. UsersHold' /\ dead' \subseteq made'
    BY <1>a, <2>1 DEF UsersHold, NothingDeadInUse
  <2> QED BY <2>2, <2>4, <2>5, <2>6 DEF PoolInv
<1>14. ASSUME DisposeAllEnds PROVE PoolInv'
  <2>1. TypeOK' /\ UsersHold' /\ \A t \in Sessions : Holds(t)' => Holds(t)
    BY <1>14, <1>a, <1>c DEF DisposeAllEnds, sessVars, TypeOK, UsersHold, Holds
  <2> QED BY <2>1, <1>14, <1>d DEF DisposeAllEnds, sessVars
<1>15. ASSUME UNCHANGED vars PROVE PoolInv'
  <2>1. TypeOK' /\ UsersHold' /\ \A t \in Sessions : Holds(t)' => Holds(t)
    BY <1>15, <1>a, <1>c DEF vars, TypeOK, UsersHold, Holds
  <2> QED BY <2>1, <1>15, <1>d DEF vars
<1> QED
  BY <1>1, <1>2, <1>3, <1>4, <1>5, <1>6, <1>7, <1>8, <1>9, <1>10, <1>11, <1>12,
     <1>13, <1>14, <1>15 DEF Next, SessionStep

-----------------------------------------------------------------------------
\* The invariant holds in every reachable state of any number of sessions that
\* create, dispose and abandon themselves around a draining pool.
THEOREM PoolInvariant == Spec => []PoolInv
<1>1. Init => PoolInv
  BY PoolInvInit
<1>2. PoolInv /\ [Next]_vars => PoolInv'
  BY PoolInvStep
<1> QED BY <1>1, <1>2, PTL DEF Spec

\* The variables of the engine keep their types; the channel stays within its size.
THEOREM EngineTypeCorrect == Spec => []TypeOK
<1>1. PoolInv => TypeOK
  BY DEF PoolInv
<1> QED BY <1>1, PoolInvariant, PTL

\* No isolate serves two sessions, or waits in the pool while a session holds it.
THEOREM IsolatesAreExclusive == Spec => []IsolateExclusive
<1>1. PoolInv => IsolateExclusive
  BY DEF PoolInv
<1> QED BY <1>1, PoolInvariant, PTL

\* No session holds an isolate that was disposed, and none comes back from the pool.
THEOREM NoDeadIsolateInUse == Spec => []NothingDeadInUse
<1>1. PoolInv => NothingDeadInUse
  BY DEF PoolInv
<1> QED BY <1>1, PoolInvariant, PTL

\* JavaScript of two sessions never shares an isolate, not even JavaScript that
\* outlives a Dispose that gave up on it.
THEOREM ScriptsAreIsolated == Spec => []UsersIsolated
<1>1. ASSUME PoolInv PROVE UsersIsolated
  <2> SUFFICES ASSUME NEW s \in Sessions, users[s] # {}
               PROVE  Holders(iso[s]) = {s} /\ iso[s] \notin Pooled \cup dead
    BY DEF UsersIsolated
  <2>1. Holds(s)
    BY <1>1 DEF PoolInv, UsersHold, Holds
  <2>2. Holders(iso[s]) = {s}
    BY <1>1, <2>1 DEF PoolInv, IsolateExclusive, Holders
  <2> QED BY <1>1, <2>1, <2>2 DEF PoolInv, IsolateExclusive, NothingDeadInUse
<1> QED BY <1>1, PoolInvariant, PTL
-----------------------------------------------------------------------------
(* No isolate is lost between a session, the pool and its disposal.        *)

\* From a session to the pool or to disposal, and back from the pool: wherever a step
\* takes an isolate, it is accounted for there.
LEMMA AccountedStep == PoolInv /\ NoneMissing /\ [Next]_vars => NoneMissing'
<1> SUFFICES ASSUME PoolInv, NoneMissing, [Next]_vars PROVE NoneMissing'
  OBVIOUS
<1>a. /\ pool \in Seq(Isolates) /\ NoRepeat(pool)
      /\ iso \in [Sessions -> Isolates \cup {NoIsolate}]
      /\ phase \in [Sessions -> Phases]
  BY DEF PoolInv, TypeOK, IsolateExclusive, NoRepeat
<1>b. Pooled = Elems(pool) /\ Pooled' = Elems(pool')
  BY DEF Pooled, Elems
<1>c. \A i \in made : (\E s \in Sessions : Holds(s) /\ iso[s] = i) \/ i \in Pooled \/ i \in dead
  BY DEF NoneMissing, Holders
<1> DEFINE Found(i) == (\E s \in Sessions : Holds(s)' /\ iso'[s] = i) \/ i \in Pooled' \/ i \in dead'
<1>d. SUFFICES ASSUME NEW i \in made' PROVE Found(i)
  BY DEF NoneMissing, Holders
<1> HIDE DEF Found
<1>e. ASSUME UNCHANGED poolVars, \A s \in Sessions : Holds(s) => Holds(s)' /\ iso'[s] = iso[s]
      PROVE  Found(i)
  BY <1>c, <1>e DEF Found, poolVars, Pooled
<1>1. ASSUME NEW s \in Sessions, CreatePooled(s) PROVE Found(i)
  <2>1. Elems(pool) = {Head(pool)} \cup Elems(pool')
    BY <1>1, <1>a, ReceiveOne DEF CreatePooled
  <2>2. Holds(s)' /\ iso'[s] = Head(pool)
    BY <1>1, <1>a DEF CreatePooled, Start, SetPhase, Holds
  <2>3. \A t \in Sessions : Holds(t) => Holds(t)' /\ iso'[t] = iso[t]
    BY <1>1, <1>a DEF CreatePooled, Start, SetPhase, Holds
  <2> QED BY <1>1, <1>b, <1>c, <2>1, <2>2, <2>3 DEF CreatePooled, Found
<1>2. ASSUME NEW s \in Sessions, CreateFresh(s) PROVE Found(i)
  <2>1. PICK j \in Isolates \ made : Start(s, j) /\ made' = made \cup {j}
    BY <1>2 DEF CreateFresh
  <2>2. Holds(s)' /\ iso'[s] = j
    BY <2>1, <1>a DEF Start, SetPhase, Holds
  <2>3. \A t \in Sessions : Holds(t) => Holds(t)' /\ iso'[t] = iso[t]
    BY <2>1, <1>a DEF Start, SetPhase, Holds
  <2>4. Pooled' = Pooled /\ dead' = dead
    BY <1>2 DEF CreateFresh, Pooled
  <2> QED BY <1>c, <2>1, <2>2, <2>3, <2>4 DEF Found
\* What a session does without giving its isolate away.
<1>3. ASSUME NEW s \in Sessions,
             \/ \E u \in Users : Admit(s, u) \/ Leave(s, u)
             \/ StartClosing(s) \/ CloseContext(s) \/ GiveUp(s) \/ PutOpen(s)
      PROVE  Found(i)
  <2>1. UNCHANGED poolVars /\ \A t \in Sessions : Holds(t) => Holds(t)' /\ iso'[t] = iso[t]
    BY <1>3, <1>a DEF Admit, Leave, StartClosing, CloseContext, GiveUp, PutOpen, SetPhase, Holds
  <2> QED BY <1>e, <2>1
\* The three ends of Put.
<1>4. ASSUME NEW s \in Sessions, PutClosed(s) \/ PutFull(s) \/ PutSend(s) PROVE Found(i)
  <2>1. \A t \in Sessions : Holds(t) => t = s \/ (Holds(t)' /\ iso'[t] = iso[t])
    BY <1>4, <1>a DEF PutClosed, PutFull, PutSend, SetPhase, Holds
  <2>2. iso[s] \in Pooled' \cup dead' /\ Pooled \subseteq Pooled' /\ dead \subseteq dead'
        /\ made' = made
    <3>1. CASE PutClosed(s) \/ PutFull(s)
      BY <3>1 DEF PutClosed, PutFull, Pooled
    <3>2. CASE PutSend(s)
      <4>1. Holds(s) /\ iso[s] \in Isolates /\ iso[s] \notin Elems(pool)
        BY <3>2, <1>a, <1>b DEF PutSend, Holds, PoolInv, IsolateExclusive, NothingDeadInUse, TypeOK
      <4> QED BY <3>2, <4>1, <1>a, <1>b, SendOne DEF PutSend
    <3> QED BY <1>4, <3>1, <3>2
  <2> QED BY <1>c, <2>1, <2>2 DEF Found
<1>5. CASE DisposeOne
  <2>1. Elems(pool) = {Head(pool)} \cup Elems(pool')
    BY <1>5, <1>a, ReceiveOne DEF DisposeOne
  <2> QED BY <1>5, <1>b, <1>c, <2>1 DEF DisposeOne, sessVars, Found, Holds
<1>6. CASE DisposeAll \/ DisposeAllEnds \/ UNCHANGED vars
  BY <1>6, <1>c DEF DisposeAll, DisposeAllEnds, vars, sessVars, Found, Pooled, Holds
<1> QED BY <1>1, <1>2, <1>3, <1>4, <1>5, <1>6 DEF Next, SessionStep

\* Whoever may still send into a closed pool had tested closed before it was set, and so
\* had those whose isolates came into the pool after it was drained.
RacedInv ==
  /\ \A s \in raced : phase[s] # "none"
  /\ closed => \A s \in Sessions : phase[s] = "putting" => s \in raced
  /\ LateOnesRaced

LEMMA RacedStep == PoolInv /\ RacedInv /\ [Next]_vars => RacedInv'
<1> SUFFICES ASSUME PoolInv, RacedInv, [Next]_vars PROVE RacedInv'
  OBVIOUS
<1>a. /\ pool \in Seq(Isolates) /\ NoRepeat(pool)
      /\ iso \in [Sessions -> Isolates \cup {NoIsolate}]
      /\ phase \in [Sessions -> Phases] /\ raced \subseteq Sessions
  BY DEF PoolInv, TypeOK, IsolateExclusive, NoRepeat
<1>b. Pooled = Elems(pool) /\ Pooled' = Elems(pool')
  BY DEF Pooled, Elems
<1> USE DEF RacedInv, LateOnesRaced
<1>1. ASSUME NEW s \in Sessions, CreatePooled(s) \/ CreateFresh(s) PROVE RacedInv'
  <2>1. /\ phase[s] = "none" /\ phase' = [phase EXCEPT ![s] = "live"]
        /\ UNCHANGED <<closed, draining, raced>>
        /\ \A t \in Sessions : t # s => iso'[t] = iso[t]
    BY <1>1, <1>a DEF CreatePooled, CreateFresh, Start, SetPhase
  <2>2. Pooled' \subseteq Pooled
    BY <1>1, <1>a, <1>b, ReceiveOne DEF CreatePooled, CreateFresh
  <2> QED BY <1>a, <2>1, <2>2
<1>2. ASSUME NEW s \in Sessions,
             \/ \E u \in Users : Admit(s, u) \/ Leave(s, u)
             \/ StartClosing(s) \/ CloseContext(s) \/ GiveUp(s) \/ PutOpen(s)
      PROVE  RacedInv'
  <2>1. /\ UNCHANGED <<pool, closed, draining, raced, iso>>
        /\ \A t \in Sessions : phase'[t] = phase[t] \/ phase'[t] \in {"closing", "closed", "leaked"}
                               \/ (phase'[t] = "putting" /\ ~closed)
    BY <1>2, <1>a DEF Admit, Leave, StartClosing, CloseContext, GiveUp, PutOpen, SetPhase, poolVars
  <2> QED BY <1>a, <2>1 DEF Pooled
<1>3. ASSUME NEW s \in Sessions, PutClosed(s) \/ PutFull(s) PROVE RacedInv'
  <2>1. UNCHANGED <<pool, closed, draining, raced, iso>> /\ phase' = [phase EXCEPT ![s] = "returned"]
    BY <1>3 DEF PutClosed, PutFull, SetPhase
  <2> QED BY <1>a, <2>1 DEF Pooled
<1>4. ASSUME NEW s \in Sessions, PutSend(s) PROVE RacedInv'
  <2>1. /\ phase[s] = "putting" /\ phase' = [phase EXCEPT ![s] = "returned"]
        /\ UNCHANGED <<closed, draining, raced, iso>> /\ pool' = Append(pool, iso[s])
    BY <1>4 DEF PutSend, SetPhase
  <2>2. iso[s] \in Isolates /\ iso[s] \notin Elems(pool)
    BY <2>1, <1>a, <1>b DEF Holds, PoolInv, IsolateExclusive, NothingDeadInUse, TypeOK
  <2>3. Pooled' = Pooled \cup {iso[s]}
    BY <2>1, <2>2, <1>a, <1>b, SendOne
  <2> QED BY <1>a, <2>1, <2>3
<1>5. CASE DisposeAll
  BY <1>5, <1>a DEF DisposeAll, sessVars
<1>6. CASE DisposeOne
  <2>1. Pooled' \subseteq Pooled
    BY <1>6, <1>a, <1>b, ReceiveOne DEF DisposeOne
  <2> QED BY <1>6, <1>a, <2>1 DEF DisposeOne, sessVars
<1>7. CASE DisposeAllEnds
  <2>1. Pooled' = {}
    BY <1>7 DEF DisposeAllEnds, Pooled
  <2> QED BY <1>7, <1>a, <2>1 DEF DisposeAllEnds, sessVars
<1>8. CASE UNCHANGED vars
  BY <1>8 DEF vars, Pooled
<1> QED BY <1>1, <1>2, <1>3, <1>4, <1>5, <1>6, <1>7, <1>8 DEF Next, SessionStep

\* Every isolate that was ever made is held, pooled or disposed, and none comes into the
\* drained pool but by a Put that tested closed before DisposeAll set it: neither a full
\* nor a closed pool loses an isolate otherwise.
THEOREM OnlyRacedIsolatesAreLost == Spec => []IsolateAccounted
<1>1. Init => NoneMissing /\ RacedInv
  BY DEF Init, NoneMissing, RacedInv, LateOnesRaced
<1>2. Spec => [](NoneMissing /\ RacedInv)
  BY <1>1, AccountedStep, RacedStep, PoolInvariant, PTL DEF Spec
<1>3. NoneMissing /\ RacedInv => IsolateAccounted
  BY DEF RacedInv, IsolateAccounted
<1> QED BY <1>2, <1>3, PTL
=============================================================================
