---------------------------- MODULE BridgeProofs ----------------------------
(***************************************************************************)
(* Proofs about the two services that outlive a connection: the registry   *)
(* of sessions (BridgeService), for any sets of sessions, operations,      *)
(* teardowns and subscribers: who has a session, and that a teardown that  *)
(* was begun is never forgotten; and the DevTools server (CDPServer), for  *)
(* any number of connections, frames and places in a queue.                *)
(***************************************************************************)
EXTENDS BridgeService, CDPServer, TLAPS, FiniteSetTheorems, SequenceTheorems

-----------------------------------------------------------------------------
(* The registry of sessions.                                               *)

\* Teardown t has claimed session i.
Holds(t, i) == i \in work[t] \/ cur[t] = i

\* At most one teardown has a session, once, and only when it is out of the registry; a
\* session that is neither in the registry nor in the hands of a teardown is not live yet,
\* or has been disposed.
Owned(i) ==
  /\ \A t, u \in Teardowns : Holds(t, i) /\ Holds(u, i) => t = u
  /\ \A t \in Teardowns : cur[t] = i => i \notin work[t]
  /\ \A t \in Teardowns : Holds(t, i) => i \notin entry /\ i \in closing
  /\ sess[i] = "registered" <=> (i \in entry \/ \E t \in Teardowns : Holds(t, i))

\* The operations that hold session i.
Pinners(i) == {o \in Ops : opPc[o] = "pinned" /\ op[o] = i}

\* There are finitely many at a time, and refCount is their number.
Counted(i) == IsFiniteSet(Pinners(i)) /\ refCount[i] = Cardinality(Pinners(i))

\* The inductive invariant of the registry.
BridgeInv == ServiceTypeOK /\ (\A i \in Ids : Owned(i)) /\ (\A i \in Ids : Counted(i))

\* What is said of the holders one by one is what RegistryInv says of the set of claimers.
LEMMA BridgeInvSays == BridgeInv => RegistryInv
<1> SUFFICES ASSUME BridgeInv PROVE RegistryInv
  OBVIOUS
<1>1. \A i \in Ids, t \in Teardowns : t \in Claimers(i) <=> Holds(t, i)
  BY DEF Claimers, Holds
<1>2. \A i \in Ids : Claimers(i) \subseteq Teardowns
  BY DEF Claimers
<1>3. ClaimedOnce
  BY <1>1, <1>2 DEF BridgeInv, Owned, ClaimedOnce, Holds
<1>4. SessionAccounted
  <2> SUFFICES ASSUME NEW i \in Ids
               PROVE  CASE sess[i] = "registered" -> i \in entry \/ Claimers(i) # {}
                        [] sess[i] = "disposed"   -> i \notin entry /\ Claimers(i) = {}
                        [] OTHER                  -> i \notin entry /\ Claimers(i) = {}
    BY DEF SessionAccounted
  <2>1. sess[i] = "registered" <=> (i \in entry \/ Claimers(i) # {})
    BY <1>1, <1>2 DEF BridgeInv, Owned
  <2>2. CASE sess[i] = "registered"
    BY <2>1, <2>2
  <2>3. CASE sess[i] # "registered"
    BY <2>1, <2>3
  <2> QED BY <2>2, <2>3
<1>5. RefCountExact
  BY DEF BridgeInv, Counted, Pinners, RefCountExact
<1> QED BY <1>3, <1>4, <1>5 DEF BridgeInv, RegistryInv

\* What a step that leaves the sessions and their holders alone keeps.
LEMMA OwnedFrame ==
  ASSUME NEW i, Owned(i), UNCHANGED <<work, cur, entry, sess>>, closing' = closing
  PROVE  Owned(i)'
BY DEF Owned, Holds

\* What a step that leaves the operations alone keeps.
LEMMA CountedFrame ==
  ASSUME NEW i, Counted(i), UNCHANGED <<refCount, op, opPc>>
  PROVE  Counted(i)'
BY DEF Counted, Pinners

\* An operation begins or ends to hold a session.
LEMMA PinsCounted ==
  ASSUME BridgeInv, NEW o \in Ops, NEW i \in Ids,
         \/ opPc[o] # "pinned" /\ opPc' = [opPc EXCEPT ![o] = "pinned"]
            /\ op' = [op EXCEPT ![o] = i] /\ refCount' = [refCount EXCEPT ![i] = @ + 1]
         \/ opPc[o] = "pinned" /\ op[o] = i /\ opPc' = [opPc EXCEPT ![o] = "over"]
            /\ op' = op /\ refCount' = [refCount EXCEPT ![i] = @ - 1]
  PROVE  /\ \A j \in Ids : Counted(j)'
         /\ refCount' \in [Ids -> Nat]
<1>a. refCount \in [Ids -> Nat] /\ op \in [Ops -> Ids \cup {NoId}] /\ DOMAIN opPc = Ops
  BY DEF BridgeInv, ServiceTypeOK
<1>b. \A j \in Ids : IsFiniteSet(Pinners(j)) /\ refCount[j] = Cardinality(Pinners(j))
  BY DEF BridgeInv, Counted
<1>1. CASE opPc[o] # "pinned"
  <2>1. Pinners(i)' = Pinners(i) \cup {o} /\ o \notin Pinners(i)
    BY <1>1, <1>a DEF Pinners
  <2>2. \A j \in Ids \ {i} : Pinners(j)' = Pinners(j)
    BY <1>1, <1>a DEF Pinners
  <2>3. /\ refCount'[i] = refCount[i] + 1
        /\ \A j \in Ids \ {i} : refCount'[j] = refCount[j]
        /\ refCount' \in [Ids -> Nat]
    BY <1>1, <1>a
  <2>4. IsFiniteSet(Pinners(i)') /\ Cardinality(Pinners(i)') = Cardinality(Pinners(i)) + 1
    BY <1>b, <2>1, FS_AddElement
  <2> QED BY <1>b, <2>2, <2>3, <2>4 DEF Counted
<1>2. CASE opPc[o] = "pinned"
  <2>1. Pinners(i)' = Pinners(i) \ {o} /\ o \in Pinners(i)
    BY <1>2, <1>a DEF Pinners
  <2>2. \A j \in Ids \ {i} : Pinners(j)' = Pinners(j)
    BY <1>2, <1>a DEF Pinners
  <2>3. IsFiniteSet(Pinners(i)') /\ Cardinality(Pinners(i)') = Cardinality(Pinners(i)) - 1
    BY <1>b, <2>1, FS_RemoveElement
  <2>4. Cardinality(Pinners(i)') \in Nat
    BY <2>3, FS_CardinalityType
  <2>5. refCount' = [refCount EXCEPT ![i] = @ - 1]
    BY <1>2
  <2>6. /\ refCount'[i] = refCount[i] - 1
        /\ \A j \in Ids \ {i} : refCount'[j] = refCount[j]
    BY <2>5, <1>a
  <2>7. refCount[i] = Cardinality(Pinners(i)) /\ refCount[i] \in Nat
    BY <1>a, <1>b
  <2>8. refCount[i] - 1 \in Nat
    BY <2>3, <2>4, <2>7
  <2>9. refCount' \in [Ids -> Nat]
    BY <1>a, <2>5, <2>8
  <2> QED BY <1>b, <2>2, <2>3, <2>6, <2>9 DEF Counted
<1> QED BY <1>1, <1>2

\* Every variable keeps its type.
LEMMA BridgeTypes == BridgeInv /\ [ServiceNext]_serviceVars => ServiceTypeOK'
<1> SUFFICES ASSUME BridgeInv, [ServiceNext]_serviceVars PROVE ServiceTypeOK'
  OBVIOUS
<1>a. ServiceTypeOK
  BY DEF BridgeInv
<1>b. /\ work \in [Teardowns -> SUBSET Ids] /\ cur \in [Teardowns -> Ids \cup {NoId}]
      /\ muted \in [Teardowns -> 0..2] /\ Len(Streams) = 2
      /\ subs \in [Broadcasters -> SUBSET Subscribers]
      /\ sess \in [Ids -> {"none", "created", "registered", "disposed"}]
  BY <1>a DEF ServiceTypeOK, Streams
<1> USE DEF lifeVars, opVars, tearVars, subVars
<1>1. ASSUME NEW i \in Ids, EngineCreates(i) \/ RegisterEntry(i) \/ TimePasses(i) PROVE ServiceTypeOK'
  <2>1. CASE EngineCreates(i)
    BY <2>1, <1>a DEF ServiceTypeOK, EngineCreates
  <2>2. CASE RegisterEntry(i)
    BY <2>2, <1>a DEF ServiceTypeOK, RegisterEntry
  <2>3. CASE TimePasses(i)
    BY <2>3, <1>a DEF ServiceTypeOK, TimePasses
  <2> QED BY <1>1, <2>1, <2>2, <2>3
<1>2. ASSUME NEW o \in Ops, NEW i \in Ids, Acquire(o, i) \/ AcquireFails(o, i) PROVE ServiceTypeOK'
  <2>1. CASE Acquire(o, i)
    <3>1. /\ refCount' = [refCount EXCEPT ![i] = @ + 1]
          /\ op' = [op EXCEPT ![o] = i] /\ opPc' = [opPc EXCEPT ![o] = "pinned"]
          /\ idle' = idle \ {i}
          /\ UNCHANGED <<locked, shutdown, sess, entry, closing, tearVars, subVars>>
      BY <2>1 DEF Acquire, Pin
    <3>2. refCount' \in [Ids -> Nat]
      <4>1. refCount \in [Ids -> Nat] /\ refCount[i] + 1 \in Nat
        <5>1. refCount \in [Ids -> Nat]
          BY <1>a DEF ServiceTypeOK
        <5>2. refCount[i] \in Nat
          BY <5>1
        <5> QED BY <5>1, <5>2
      <4>2. refCount' = [refCount EXCEPT ![i] = refCount[i] + 1]
        BY <3>1
      <4> QED BY <4>1, <4>2
    <3>3. op' \in [Ops -> Ids \cup {NoId}] /\ opPc' \in [Ops -> {"idle", "pinned", "over"}]
      BY <1>a, <3>1 DEF ServiceTypeOK
    <3>4. idle' \subseteq Ids /\ UNCHANGED <<locked, shutdown, sess, entry, closing, tearVars, subVars>>
      BY <1>a, <3>1 DEF ServiceTypeOK
    <3> QED BY <1>a, <3>2, <3>3, <3>4 DEF ServiceTypeOK
  <2>2. CASE AcquireFails(o, i)
    BY <1>a, <2>2 DEF ServiceTypeOK, AcquireFails
  <2> QED BY <1>2, <2>1, <2>2
<1>3. ASSUME NEW o \in Ops, Release(o) PROVE ServiceTypeOK'
  <2>1. op[o] \in Ids \cup {NoId}
    BY <1>a DEF ServiceTypeOK
  <2>2. refCount' \in [Ids -> Nat]
    <3>1. CASE op[o] \in Ids
      BY <1>3, <3>1, PinsCounted DEF Release
    <3>2. CASE op[o] = NoId
      BY <1>3, <1>a, <3>2, ServiceConstants DEF Release, ServiceTypeOK
    <3> QED BY <2>1, <3>1, <3>2
  <2> QED BY <1>3, <1>a, <2>2 DEF ServiceTypeOK, Release
<1>4. ASSUME NEW t \in Teardowns, NEW S \in SUBSET Ids, Claim(t, S) PROVE ServiceTypeOK'
  BY <1>4, <1>a DEF ServiceTypeOK, Claim
<1>5. CASE JanitorReturns
  BY <1>5, <1>a DEF ServiceTypeOK, JanitorReturns
<1>6. ASSUME NEW t \in Teardowns, TakeNext(t) PROVE ServiceTypeOK'
  <2>1. /\ work' \in [Teardowns -> SUBSET Ids] /\ cur' \in [Teardowns -> Ids \cup {NoId}]
        /\ muted' \in [Teardowns -> 0..2]
    <3>1. PICK i \in work[t] : /\ cur' = [cur EXCEPT ![t] = i]
                               /\ work' = [work EXCEPT ![t] = @ \ {i}]
      BY <1>6 DEF TakeNext
    <3>2. muted' = [muted EXCEPT ![t] = 0]
      BY <1>6 DEF TakeNext
    <3> QED BY <1>b, <3>1, <3>2
  <2>2. UNCHANGED <<lifeVars, opVars, gone, subVars>>
    BY <1>6 DEF TakeNext
  <2> QED BY <1>a, <1>b, <2>1, <2>2 DEF ServiceTypeOK
<1>7. ASSUME NEW t \in Teardowns, CloseAll(t) PROVE ServiceTypeOK'
  <2>1. muted' \in [Teardowns -> 0..2] /\ subs' \in [Broadcasters -> SUBSET Subscribers]
    <3>1. muted[t] < 2 /\ muted' = [muted EXCEPT ![t] = @ + 1]
      BY <1>7, <1>b DEF CloseAll
    <3>2. muted[t] \in 0..2
      BY <1>b
    <3>3. muted[t] + 1 \in 0..2
      BY <3>1, <3>2
    <3>4. muted' \in [Teardowns -> 0..2]
      BY <1>b, <3>1, <3>3
    <3>5. subs' \in [Broadcasters -> SUBSET Subscribers]
      BY <1>7, <1>b DEF CloseAll
    <3> QED BY <3>4, <3>5
  <2>2. UNCHANGED <<lifeVars, opVars, work, cur, gone, sub, subPc>>
    BY <1>7 DEF CloseAll
  <2> QED BY <1>a, <1>b, <2>1, <2>2 DEF ServiceTypeOK
<1>8. ASSUME NEW t \in Teardowns, DisposeSession(t) PROVE ServiceTypeOK'
  BY <1>8, <1>a DEF ServiceTypeOK, DisposeSession
<1>9. ASSUME NEW x \in Subscribers, NEW i \in Ids, NEW s \in Kinds, LookUp(x, i, s) PROVE ServiceTypeOK'
  BY <1>9, <1>a DEF ServiceTypeOK, LookUp, Broadcasters
<1>10. ASSUME NEW x \in Subscribers, Subscribe(x) \/ StreamEnds(x) \/ ClientDisconnects(x)
       PROVE  ServiceTypeOK'
  <2>1. subs \in [Broadcasters -> SUBSET Subscribers] /\ subPc \in [Subscribers -> {"idle", "looked up", "streaming", "over"}]
    BY <1>a DEF ServiceTypeOK
  <2>2. subs' \in [Broadcasters -> SUBSET Subscribers]
    <3>1. \/ subs' = [subs EXCEPT ![sub[x]] = @ \cup {x}]
          \/ subs' = subs
          \/ subs' = [subs EXCEPT ![sub[x]] = @ \ {x}]
      BY <1>10 DEF Subscribe, StreamEnds, ClientDisconnects
    <3>2. subs[sub[x]] \in SUBSET Subscribers \/ sub[x] \notin Broadcasters
      BY <2>1
    <3>3. CASE sub[x] \in Broadcasters
      <4>1. subs[sub[x]] \cup {x} \in SUBSET Subscribers /\ subs[sub[x]] \ {x} \in SUBSET Subscribers
        BY <2>1, <3>3
      <4> QED BY <2>1, <3>1, <4>1
    <3>4. CASE sub[x] \notin Broadcasters
      BY <2>1, <3>1, <3>4
    <3> QED BY <3>3, <3>4
  <2>3. subPc' \in [Subscribers -> {"idle", "looked up", "streaming", "over"}]
    BY <1>10, <2>1 DEF Subscribe, StreamEnds, ClientDisconnects
  <2> QED BY <1>10, <1>a, <2>2, <2>3 DEF ServiceTypeOK, Subscribe, StreamEnds, ClientDisconnects
<1>11. CASE ShutdownStep
  BY <1>11, <1>a DEF ServiceTypeOK, ShutdownStep, CloseDone, LockAll, DisposeEntry, Finish
<1>12. CASE UNCHANGED serviceVars
  BY <1>12, <1>a DEF ServiceTypeOK, serviceVars
<1>13. ASSUME NEW c \in Closers, NEW i \in Ids, CloseSession(c, i) PROVE ServiceTypeOK'
  BY <1>13, <1>4 DEF CloseSession, Teardowns
<1>14. CASE CleanupIdle
  <2>1. Janitor \in Teardowns /\ entry \cap idle \in SUBSET Ids
    BY <1>a DEF Teardowns, ServiceTypeOK
  <2> QED BY <1>14, <1>4, <2>1 DEF CleanupIdle
<1> QED
  BY <1>1, <1>2, <1>3, <1>5, <1>6, <1>7, <1>8, <1>9, <1>10, <1>11, <1>12, <1>13, <1>14
  DEF ServiceNext, OpStep, TeardownStep, SubscriberStep

\* refCount stays the number of the operations that hold the entry.
LEMMA BridgeCounts == BridgeInv /\ [ServiceNext]_serviceVars => (\A i \in Ids : Counted(i))'
<1> SUFFICES ASSUME BridgeInv, [ServiceNext]_serviceVars PROVE \A i \in Ids : Counted(i)'
  OBVIOUS
<1>a. ServiceTypeOK /\ \A i \in Ids : Counted(i)
  BY DEF BridgeInv
<1> USE DEF opVars
<1>1. ASSUME NEW o \in Ops, NEW i \in Ids, Acquire(o, i) PROVE \A j \in Ids : Counted(j)'
  BY <1>1, PinsCounted DEF Acquire, Pin
<1>2. ASSUME NEW o \in Ops, NEW i \in Ids, AcquireFails(o, i) PROVE \A j \in Ids : Counted(j)'
  <2>1. \A j \in Ids : Pinners(j)' = Pinners(j)
    BY <1>2, <1>a DEF AcquireFails, Pinners, ServiceTypeOK
  <2> QED BY <1>2, <1>a, <2>1 DEF AcquireFails, Counted
<1>3. ASSUME NEW o \in Ops, Release(o) PROVE \A j \in Ids : Counted(j)'
  <2>1. op[o] \in Ids \cup {NoId}
    BY <1>a DEF ServiceTypeOK
  <2>2. CASE op[o] \in Ids
    BY <1>3, <2>2, PinsCounted DEF Release
  <2>3. CASE op[o] = NoId
    <3>1. \A j \in Ids : Pinners(j)' = Pinners(j)
      BY <1>3, <1>a, <2>3, ServiceConstants DEF Release, Pinners, ServiceTypeOK
    <3>2. refCount' = refCount
      BY <1>3, <1>a, <2>3, ServiceConstants DEF Release, ServiceTypeOK
    <3> QED BY <1>a, <3>1, <3>2 DEF Counted
  <2> QED BY <2>1, <2>2, <2>3
<1>4. CASE UNCHANGED opVars
  BY <1>4, <1>a, CountedFrame
<1>5. CASE \E o \in Ops : OpStep(o)
  BY <1>5, <1>1, <1>2, <1>3 DEF OpStep
<1>6. CASE \E i \in Ids : EngineCreates(i) \/ RegisterEntry(i) \/ TimePasses(i)
  BY <1>6, <1>4 DEF EngineCreates, RegisterEntry, TimePasses
<1>7. CASE \E c \in Closers, i \in Ids : CloseSession(c, i)
  BY <1>7, <1>4 DEF CloseSession, Claim
<1>8. CASE CleanupIdle \/ JanitorReturns
  BY <1>8, <1>4 DEF CleanupIdle, Claim, JanitorReturns
<1>9. CASE \E t \in Teardowns : TeardownStep(t)
  BY <1>9, <1>4 DEF TeardownStep, TakeNext, CloseAll, DisposeSession
<1>10. CASE \E x \in Subscribers : SubscriberStep(x)
  BY <1>10, <1>4 DEF SubscriberStep, LookUp, Subscribe, StreamEnds, ClientDisconnects
<1>11. CASE ShutdownStep
  BY <1>11, <1>4 DEF ShutdownStep, CloseDone, LockAll, DisposeEntry, Finish
<1>12. CASE UNCHANGED serviceVars
  BY <1>12, <1>4 DEF serviceVars
<1> QED BY <1>5, <1>6, <1>7, <1>8, <1>9, <1>10, <1>11, <1>12 DEF ServiceNext

\* A teardown that claims entries is the only one that has them.
LEMMA ClaimOwns ==
  ASSUME BridgeInv, NEW t \in Teardowns, NEW S \in SUBSET entry, Claim(t, S), NEW i \in Ids
  PROVE  Owned(i)'
<1>a. /\ Owned(i) /\ work \in [Teardowns -> SUBSET Ids] /\ cur \in [Teardowns -> Ids \cup {NoId}]
      /\ i # NoId
  BY ServiceConstants DEF BridgeInv, ServiceTypeOK
<1>b. /\ work[t] = {} /\ cur[t] = NoId /\ cur' = cur /\ sess' = sess
      /\ work' = [work EXCEPT ![t] = S] /\ closing' = closing \cup S /\ entry' = entry \ S
  BY DEF Claim
<1>1. \A u \in Teardowns : Holds(u, i)' <=> (Holds(u, i) \/ (u = t /\ i \in S))
  BY <1>a, <1>b DEF Holds
<1>2. CASE i \in S
  <2>1. \A u \in Teardowns : ~Holds(u, i)
    BY <1>a, <1>2 DEF Owned
  <2>2. cur[t] # i /\ \A u \in Teardowns : cur[u] # i
    BY <1>a, <1>b, <2>1 DEF Holds
  <2>3. i \in closing' /\ i \notin entry' /\ sess'[i] = "registered"
    BY <1>a, <1>b, <1>2 DEF Owned
  <2> QED BY <1>1, <1>2, <1>b, <2>1, <2>2, <2>3 DEF Owned
<1>3. CASE i \notin S
  <2>1. \A u \in Teardowns : Holds(u, i)' <=> Holds(u, i)
    BY <1>1, <1>3
  <2>2. \A u \in Teardowns : i \in work'[u] <=> i \in work[u]
    BY <1>a, <1>b, <1>3
  <2>3. (i \in entry' <=> i \in entry) /\ (i \in closing' <=> i \in closing)
    BY <1>b, <1>3
  <2> QED BY <1>a, <1>b, <2>1, <2>2, <2>3 DEF Owned
<1> QED BY <1>2, <1>3

\* Whoever has a session keeps it until it is disposed.
LEMMA BridgeOwners == BridgeInv /\ [ServiceNext]_serviceVars => (\A i \in Ids : Owned(i))'
<1> SUFFICES ASSUME BridgeInv, [ServiceNext]_serviceVars, NEW i \in Ids PROVE Owned(i)'
  OBVIOUS
<1>a. ServiceTypeOK /\ Owned(i) /\ i # NoId
  BY ServiceConstants DEF BridgeInv
<1>b. /\ work \in [Teardowns -> SUBSET Ids] /\ cur \in [Teardowns -> Ids \cup {NoId}]
      /\ DOMAIN sess = Ids /\ sess[i] \in {"none", "created", "registered", "disposed"}
  BY <1>a DEF ServiceTypeOK
<1> USE DEF lifeVars, tearVars
<1>1. ASSUME NEW j \in Ids, EngineCreates(j) \/ RegisterEntry(j) \/ TimePasses(j) PROVE Owned(i)'
  <2>1. /\ UNCHANGED <<work, cur, closing>>
        /\ \/ sess[j] = "none" /\ sess' = [sess EXCEPT ![j] = "created"] /\ entry' = entry
           \/ /\ sess[j] = "created" /\ sess' = [sess EXCEPT ![j] = "registered"]
              /\ entry' = entry \cup {j}
           \/ sess' = sess /\ entry' = entry
    BY <1>1 DEF EngineCreates, RegisterEntry, TimePasses
  <2>2. \A t \in Teardowns : Holds(t, i)' <=> Holds(t, i)
    BY <2>1 DEF Holds
  <2>3. CASE j = i
    BY <1>a, <1>b, <2>1, <2>2, <2>3 DEF Owned
  <2>4. CASE j # i
    BY <1>a, <1>b, <2>1, <2>2, <2>4 DEF Owned
  <2> QED BY <2>3, <2>4
<1>2. CASE \E o \in Ops : OpStep(o)
  <2>1. UNCHANGED <<work, cur, entry, sess, closing>>
    BY <1>2 DEF OpStep, Acquire, Pin, AcquireFails, Release
  <2> QED BY <1>a, <2>1, OwnedFrame
<1>3. ASSUME NEW c \in Closers, NEW j \in Ids, CloseSession(c, j) PROVE Owned(i)'
  BY <1>3, ClaimOwns DEF CloseSession, Teardowns
<1>4. CASE CleanupIdle
  <2>1. Janitor \in Teardowns /\ entry \cap idle \in SUBSET entry
    BY DEF Teardowns
  <2> QED BY <1>4, <2>1, ClaimOwns DEF CleanupIdle
<1>5. CASE JanitorReturns
  BY <1>5, <1>a, OwnedFrame DEF JanitorReturns
<1>6. ASSUME NEW t \in Teardowns, TakeNext(t) PROVE Owned(i)'
  <2>1. /\ cur[t] = NoId /\ UNCHANGED <<sess, entry, closing>>
    BY <1>6 DEF TakeNext
  <2>2. PICK j \in work[t] : /\ cur' = [cur EXCEPT ![t] = j]
                             /\ work' = [work EXCEPT ![t] = @ \ {j}]
    BY <1>6 DEF TakeNext
  <2>3. \A u \in Teardowns : Holds(u, i)' <=> Holds(u, i)
    BY <1>a, <1>b, <2>1, <2>2 DEF Holds
  <2>4. \A u \in Teardowns : cur'[u] = i => i \notin work'[u]
    BY <1>a, <1>b, <2>1, <2>2 DEF Owned
  <2> QED BY <1>a, <2>1, <2>3, <2>4 DEF Owned
<1>7. ASSUME NEW t \in Teardowns, CloseAll(t) PROVE Owned(i)'
  BY <1>7, <1>a, OwnedFrame DEF CloseAll
<1>8. ASSUME NEW t \in Teardowns, DisposeSession(t) PROVE Owned(i)'
  <2>1. /\ cur[t] # NoId /\ UNCHANGED <<work, entry, closing>>
        /\ sess' = [sess EXCEPT ![cur[t]] = "disposed"] /\ cur' = [cur EXCEPT ![t] = NoId]
    BY <1>8 DEF DisposeSession
  <2>2. CASE cur[t] = i
    <3>1. Holds(t, i) /\ i \notin work[t]
      BY <1>a, <2>2 DEF Owned, Holds
    <3>2. \A u \in Teardowns \ {t} : ~Holds(u, i)
      BY <1>a, <3>1 DEF Owned
    <3>3. \A u \in Teardowns : ~Holds(u, i)'
      BY <1>a, <1>b, <2>1, <3>1, <3>2 DEF Holds
    <3>4. i \notin entry /\ sess'[i] = "disposed"
      BY <1>a, <1>b, <2>1, <2>2, <3>1 DEF Owned
    <3> QED BY <2>1, <3>3, <3>4 DEF Owned, Holds
  <2>3. CASE cur[t] # i
    <3>1. \A u \in Teardowns : Holds(u, i)' <=> Holds(u, i)
      BY <1>a, <1>b, <2>1, <2>3 DEF Holds
    <3>2. \A u \in Teardowns : cur'[u] = i => cur[u] = i
      BY <1>a, <1>b, <2>1
    <3>3. sess'[i] = sess[i]
      BY <1>b, <2>1, <2>3
    <3> QED BY <1>a, <2>1, <3>1, <3>2, <3>3 DEF Owned
  <2> QED BY <2>2, <2>3
<1>9. CASE \E x \in Subscribers : SubscriberStep(x)
  <2>1. UNCHANGED <<work, cur, entry, sess, closing>>
    BY <1>9 DEF SubscriberStep, LookUp, Subscribe, StreamEnds, ClientDisconnects
  <2> QED BY <1>a, <2>1, OwnedFrame
<1>10. CASE CloseDone \/ LockAll \/ Finish
  <2>1. UNCHANGED <<work, cur, entry, sess, closing>>
    BY <1>10 DEF CloseDone, LockAll, Finish
  <2> QED BY <1>a, <2>1, OwnedFrame
<1>11. ASSUME NEW j \in Ids, DisposeEntry(j) PROVE Owned(i)'
  <2>1. /\ j \in entry /\ UNCHANGED <<work, cur, closing>>
        /\ sess' = [sess EXCEPT ![j] = "disposed"] /\ entry' = entry \ {j}
    BY <1>11 DEF DisposeEntry
  <2>2. \A t \in Teardowns : Holds(t, i)' <=> Holds(t, i)
    BY <2>1 DEF Holds
  <2>3. CASE j = i
    BY <1>a, <1>b, <2>1, <2>2, <2>3 DEF Owned
  <2>4. CASE j # i
    BY <1>a, <1>b, <2>1, <2>2, <2>4 DEF Owned
  <2> QED BY <2>3, <2>4
<1>12. CASE UNCHANGED serviceVars
  BY <1>12, <1>a, OwnedFrame DEF serviceVars
<1> QED
  BY <1>1, <1>2, <1>3, <1>4, <1>5, <1>6, <1>7, <1>8, <1>9, <1>10, <1>11, <1>12
  DEF ServiceNext, TeardownStep, ShutdownStep

\* An empty registry: nobody holds anything.
LEMMA BridgeInit == ServiceInit => BridgeInv
<1> SUFFICES ASSUME ServiceInit PROVE BridgeInv
  OBVIOUS
<1>1. ServiceTypeOK
  <2>1. 0 \in 0..Len(Streams)
    BY DEF Streams
  <2> QED BY <2>1 DEF ServiceInit, ServiceTypeOK
<1>2. \A i \in Ids : Owned(i)
  BY ServiceConstants DEF ServiceInit, Owned, Holds
<1>3. \A i \in Ids : Pinners(i) = {}
  BY DEF ServiceInit, Pinners
<1>4. \A i \in Ids : Counted(i)
  BY <1>3, FS_EmptySet DEF ServiceInit, Counted
<1> QED BY <1>1, <1>2, <1>4 DEF BridgeInv

\* The registry, the teardowns and the operations agree on who has which session, for any
\* number of sessions, requests and clients and wherever a shutdown finds them.
THEOREM RegistryHolds == ServiceSpec => []RegistryInv
<1>1. BridgeInv /\ [ServiceNext]_serviceVars => BridgeInv'
  BY BridgeTypes, BridgeCounts, BridgeOwners DEF BridgeInv
<1> QED BY <1>1, BridgeInit, BridgeInvSays, PTL DEF ServiceSpec

\* An operation never starts on a session that a teardown has claimed or disposed.
THEOREM NoOperationStartsLate == ServiceSpec => NoLateStart
<1>1. BridgeInv /\ [ServiceNext]_serviceVars => BridgeInv'
  BY BridgeTypes, BridgeCounts, BridgeOwners DEF BridgeInv
<1>2. ASSUME BridgeInv, [ServiceNext]_serviceVars, NEW o \in Ops, opPc[o] = "idle", opPc'[o] = "pinned"
      PROVE  sess[op'[o]] = "registered" /\ Claimers(op'[o]) = {}
  <2>a. DOMAIN opPc = Ops /\ DOMAIN op = Ops
    BY <1>2 DEF BridgeInv, ServiceTypeOK
  <2>1. opPc' # opPc
    BY <1>2
  <2>2. \E p \in Ops : OpStep(p)
    BY <1>2, <2>1
    DEF ServiceNext, EngineCreates, RegisterEntry, TimePasses, CloseSession, Claim, CleanupIdle,
        JanitorReturns, TeardownStep, TakeNext, CloseAll, DisposeSession, SubscriberStep, LookUp,
        Subscribe, StreamEnds, ClientDisconnects, ShutdownStep, CloseDone, LockAll, DisposeEntry,
        Finish, serviceVars, opVars
  <2>3. PICK i \in Ids : Acquire(o, i)
    BY <1>2, <2>2, <2>a DEF OpStep, Acquire, Pin, AcquireFails, Release
  <2>4. op'[o] = i /\ i \in entry
    BY <2>3, <2>a DEF Acquire, Pin
  <2>5. Owned(i)
    BY <1>2 DEF BridgeInv
  <2> QED BY <2>4, <2>5 DEF Owned, Claimers, Holds
<1>3. BridgeInv /\ [ServiceNext]_serviceVars =>
        [\A o \in Ops : (opPc[o] = "idle" /\ opPc'[o] = "pinned") =>
           sess[op'[o]] = "registered" /\ Claimers(op'[o]) = {}]_serviceVars
  BY <1>2
<1> QED BY <1>1, <1>3, BridgeInit, PTL DEF ServiceSpec, NoLateStart

-----------------------------------------------------------------------------
(* DevTools connections.                                                   *)

Frames == [n : Nat, what : Methods \cup Others]

\* The types of the variables.
CdpTypes ==
  /\ conn \in [Clients -> {"away", "open", "left", "closed"}]
  /\ wire \in [Clients -> Seq(Frames)]
  /\ queue \in [Clients -> [frames : Seq(Frames), open : {"yes", "no"}]]
  /\ reader \in [Clients -> {"none", "read", "push", "ended"}]
  /\ hand \in [Clients -> Frames]
  /\ handler \in [Clients -> {"none", "take", "state", "handle", "write", "ended"}]
  /\ handling \in [Clients -> Frames]
  /\ replies \in [Clients -> Seq(Nat)]
  /\ asked \in [Clients -> [all : Seq(Nat), sent : Nat, closed : {"yes", "no"}]]

\* The requests of a connection in the order in which they were sent: "done" are answered,
\* one may be at work (h), "frames" are queued, one may be in the reader's hand (x), and the
\* numbers of the others are "rest".
Lined(all, done, busy, h, frames, push, x, rest) ==
  LET passed == Len(done) + busy + Len(frames) + push IN
  /\ passed <= Len(all)
  /\ \A i \in 1..Len(done) : done[i] = all[i]
  /\ busy = 1 => h = all[Len(done) + 1]
  /\ \A i \in 1..Len(frames) : frames[i].n = all[Len(done) + busy + i]
  /\ push = 1 => x = all[passed]
  /\ rest = {all[i] : i \in (passed + 1)..Len(all)}

\* Numbers that grow along a sequence.
Increasing(s) == \A i, j \in 1..Len(s) : i < j => s[i] < s[j]

\* The requests among the frames w that have yet to be read: nothing after a close is read.
IsAhead(w, j) == w[j].what \in Methods /\ \A l \in 1..(j - 1) : w[l].what # "close"
Unread(w) == {w[j].n : j \in {k \in 1..Len(w) : IsAhead(w, k)}}

\* Frames whose numbers grow.
Numbered(w) == \A i, j \in 1..Len(w) : i < j => w[i].n < w[j].n

\* The client has said that it closes.
HasClose(w) == \E j \in 1..Len(w) : w[j].what = "close"

\* The handler takes the first request of the queue.
LEMMA TakeLined ==
  \A all, done, h, frames, push, x, rest :
       /\ all \in Seq(Nat)
       /\ done \in Seq(Nat)
       /\ frames \in Seq(Frames)
       /\ push \in {0, 1}
       /\ frames # <<>>
       /\ Lined(all, done, 0, h, frames, push, x, rest)
     => Lined(all, done, 1, Head(frames).n, Tail(frames), push, x, rest)
<1> SUFFICES ASSUME NEW all, NEW done, NEW h, NEW frames, NEW push, NEW x, NEW rest,
                      all \in Seq(Nat), done \in Seq(Nat), frames \in Seq(Frames),
                      push \in {0, 1},
                      frames # <<>>,
                      Lined(all, done, 0, h, frames, push, x, rest)
                 PROVE  Lined(all, done, 1, Head(frames).n, Tail(frames), push, x, rest)
  OBVIOUS
<1>1. /\ Len(Tail(frames)) = Len(frames) - 1 /\ Len(frames) \in Nat /\ Len(frames) >= 1
      /\ \A i \in 1..Len(Tail(frames)) : Tail(frames)[i] = frames[i + 1]
      /\ Head(frames) = frames[1] /\ Len(done) \in Nat /\ Len(all) \in Nat
  OBVIOUS
<1>2. Len(done) + 1 + Len(Tail(frames)) + push = Len(done) + 0 + Len(frames) + push
  BY <1>1
<1>3. \A i \in 1..Len(Tail(frames)) : Tail(frames)[i].n = all[Len(done) + 1 + i]
  <2> SUFFICES ASSUME NEW i \in 1..Len(Tail(frames)) PROVE Tail(frames)[i].n = all[Len(done) + 1 + i]
    OBVIOUS
  <2>1. i + 1 \in 1..Len(frames) /\ Len(done) + 0 + (i + 1) = Len(done) + 1 + i
    BY <1>1
  <2> QED BY <1>1, <2>1 DEF Lined
<1>4. Head(frames).n = all[Len(done) + 1]
  <2>1. 1 \in 1..Len(frames) /\ Len(done) + 0 + 1 = Len(done) + 1
    BY <1>1
  <2> QED BY <1>1, <2>1 DEF Lined
<1> QED BY <1>2, <1>3, <1>4 DEF Lined

\* The request at work is answered.
LEMMA ReplyLined ==
  \A all, done, h, frames, push, x, rest, g :
       /\ all \in Seq(Nat)
       /\ done \in Seq(Nat)
       /\ h \in Nat
       /\ frames \in Seq(Frames)
       /\ push \in {0, 1}
       /\ Lined(all, done, 1, h, frames, push, x, rest)
     => Lined(all, Append(done, h), 0, g, frames, push, x, rest)
<1> SUFFICES ASSUME NEW all, NEW done, NEW h, NEW frames, NEW push, NEW x, NEW rest, NEW g,
                      all \in Seq(Nat), done \in Seq(Nat), h \in Nat, frames \in Seq(Frames),
                      push \in {0, 1},
                      Lined(all, done, 1, h, frames, push, x, rest)
                 PROVE  Lined(all, Append(done, h), 0, g, frames, push, x, rest)
  OBVIOUS
<1>1. /\ Len(Append(done, h)) = Len(done) + 1 /\ Len(done) \in Nat /\ Len(frames) \in Nat
      /\ \A i \in 1..Len(done) : Append(done, h)[i] = done[i]
      /\ Append(done, h)[Len(done) + 1] = h
  OBVIOUS
<1>2. Len(Append(done, h)) + 0 + Len(frames) + push = Len(done) + 1 + Len(frames) + push
  BY <1>1
<1>3. \A i \in 1..Len(Append(done, h)) : Append(done, h)[i] = all[i]
  <2>1. h = all[Len(done) + 1] /\ \A i \in 1..Len(done) : done[i] = all[i]
    BY DEF Lined
  <2>2. \A i \in 1..Len(Append(done, h)) : i \in 1..Len(done) \/ i = Len(done) + 1
    BY <1>1
  <2> QED BY <1>1, <2>1, <2>2
<1>4. \A i \in 1..Len(frames) : frames[i].n = all[Len(Append(done, h)) + 0 + i]
  <2>1. \A i \in 1..Len(frames) : Len(Append(done, h)) + 0 + i = Len(done) + 1 + i
    BY <1>1
  <2> QED BY <2>1 DEF Lined
<1> QED BY <1>2, <1>3, <1>4 DEF Lined

\* The reader puts what it has in hand at the end of the queue.
LEMMA PushLined ==
  \A all, done, h, frames, busy, f, rest, g :
       /\ all \in Seq(Nat)
       /\ done \in Seq(Nat)
       /\ frames \in Seq(Frames)
       /\ busy \in {0, 1}
       /\ f \in Frames
       /\ Lined(all, done, busy, h, frames, 1, f.n, rest)
     => Lined(all, done, busy, h, Append(frames, f), 0, g, rest)
<1> SUFFICES ASSUME NEW all, NEW done, NEW h, NEW frames, NEW busy, NEW f, NEW rest, NEW g,
                      all \in Seq(Nat), done \in Seq(Nat), frames \in Seq(Frames),
                      busy \in {0, 1}, f \in Frames,
                      Lined(all, done, busy, h, frames, 1, f.n, rest)
                 PROVE  Lined(all, done, busy, h, Append(frames, f), 0, g, rest)
  OBVIOUS
<1>1. /\ Len(Append(frames, f)) = Len(frames) + 1 /\ Len(done) \in Nat /\ Len(frames) \in Nat
      /\ \A i \in 1..Len(frames) : Append(frames, f)[i] = frames[i]
      /\ Append(frames, f)[Len(frames) + 1] = f
  OBVIOUS
<1>2. Len(done) + busy + Len(Append(frames, f)) + 0 = Len(done) + busy + Len(frames) + 1
  BY <1>1
<1>3. \A i \in 1..Len(Append(frames, f)) : Append(frames, f)[i].n = all[Len(done) + busy + i]
  <2>1. f.n = all[Len(done) + busy + Len(frames) + 1]
    BY DEF Lined
  <2>2. Len(done) + busy + (Len(frames) + 1) = Len(done) + busy + Len(frames) + 1
    BY <1>1
  <2>3. \A i \in 1..Len(frames) : frames[i].n = all[Len(done) + busy + i]
    BY DEF Lined
  <2>4. \A i \in 1..Len(Append(frames, f)) : i \in 1..Len(frames) \/ i = Len(frames) + 1
    BY <1>1
  <2> QED BY <1>1, <2>1, <2>2, <2>3, <2>4
<1>4. rest = {all[i] : i \in (Len(done) + busy + Len(Append(frames, f)) + 0 + 1)..Len(all)}
  <2>1. rest = {all[i] : i \in (Len(done) + busy + Len(frames) + 1 + 1)..Len(all)}
    BY DEF Lined
  <2> QED BY <1>2, <2>1
<1>5. /\ Len(done) + busy + Len(Append(frames, f)) + 0 <= Len(all)
      /\ \A i \in 1..Len(done) : done[i] = all[i]
      /\ busy = 1 => h = all[Len(done) + 1]
  BY <1>2 DEF Lined
<1> QED BY <1>3, <1>4, <1>5 DEF Lined

\* m is less than all that is left.
Below(m, left) == \A l \in left : m < l

\* The reader takes the least number of what is unread in hand.
LEMMA ReadLined ==
  \A all, done, h, frames, busy, m, y, left :
       /\ all \in Seq(Nat)
       /\ done \in Seq(Nat)
       /\ frames \in Seq(Frames)
       /\ busy \in {0, 1}
       /\ m \in Nat
       /\ Increasing(all)
       /\ Lined(all, done, busy, h, frames, 0, y, left \cup {m})
       /\ Below(m, left)
     => Lined(all, done, busy, h, frames, 1, m, left)
<1> SUFFICES ASSUME NEW all, NEW done, NEW h, NEW frames, NEW busy, NEW m, NEW y, NEW left,
                      all \in Seq(Nat), done \in Seq(Nat), frames \in Seq(Frames),
                      busy \in {0, 1}, m \in Nat,
                      Increasing(all), Lined(all, done, busy, h, frames, 0, y, left \cup {m}),
                      Below(m, left)
                 PROVE  Lined(all, done, busy, h, frames, 1, m, left)
  OBVIOUS
<1> DEFINE p == Len(done) + busy + Len(frames)
           rest == left \cup {m}
<1>1. p \in Nat /\ p + 0 = p /\ Len(all) \in Nat
  OBVIOUS
<1>2. rest = {all[i] : i \in (p + 1)..Len(all)}
  BY <1>1 DEF Lined
<1> HIDE DEF p
<1>3. PICK k \in (p + 1)..Len(all) : m = all[k]
  BY <1>2
<1>4. p + 1 \in 1..Len(all)
  BY <1>1, <1>3
<1>5. all[p + 1] \in rest /\ \A i \in 1..Len(all) : all[i] \in Nat
  <2>1. p + 1 \in (p + 1)..Len(all)
    BY <1>1, <1>4
  <2>2. \A i \in 1..Len(all) : all[i] \in Nat
    OBVIOUS
  <2> QED BY <1>2, <2>1, <2>2
<1>6. all[p + 1] >= m
  <2>1. all[p + 1] = m \/ m < all[p + 1]
    BY <1>5 DEF Below
  <2>2. all[p + 1] \in Nat
    BY <1>4, <1>5
  <2> QED BY <2>1, <2>2
<1>7. m = all[p + 1]
  <2>1. k = p + 1 \/ all[p + 1] < all[k]
    BY <1>1, <1>3, <1>4 DEF Increasing
  <2>2. all[p + 1] \in Nat
    BY <1>4, <1>5
  <2> QED BY <1>3, <1>6, <2>1, <2>2
<1>8. left = {all[i] : i \in (p + 2)..Len(all)}
  <2>1. \A i \in (p + 2)..Len(all) : all[i] \in rest /\ all[i] # m
    <3> SUFFICES ASSUME NEW i \in (p + 2)..Len(all) PROVE all[i] \in rest /\ all[i] # m
      OBVIOUS
    <3>1. i \in (p + 1)..Len(all) /\ i \in 1..Len(all) /\ p + 1 < i
      BY <1>1
    <3>2. all[p + 1] < all[i]
      BY <1>4, <3>1 DEF Increasing
    <3> QED BY <1>2, <1>5, <1>7, <3>1, <3>2
  <2>2. ASSUME NEW l \in left PROVE \E i \in (p + 2)..Len(all) : l = all[i]
    <3>1. PICK i \in (p + 1)..Len(all) : l = all[i]
      BY <1>2
    <3>2. l # m
      BY <1>5, <3>1, <1>1 DEF Below
    <3>3. i # p + 1
      BY <1>7, <3>1, <3>2
    <3>4. i \in (p + 2)..Len(all)
      BY <1>1, <3>3
    <3> QED BY <3>1, <3>4
  <2> QED BY <2>1, <2>2
<1>9. /\ \A i \in 1..Len(done) : done[i] = all[i]
      /\ busy = 1 => h = all[Len(done) + 1]
      /\ \A i \in 1..Len(frames) : frames[i].n = all[Len(done) + busy + i]
  BY DEF Lined
<1>10. Len(done) + busy + Len(frames) + 1 = p + 1
  BY DEF p
<1>11. p + 1 <= Len(all) /\ p + 1 + 1 = p + 2
  BY <1>1, <1>4
<1> HIDE DEF rest
<1> QED BY <1>7, <1>8, <1>9, <1>10, <1>11 DEF Lined

\* One more request is sent.
LEMMA SendLined ==
  \A all, done, h, frames, busy, push, m, rest, x :
       /\ all \in Seq(Nat)
       /\ done \in Seq(Nat)
       /\ frames \in Seq(Frames)
       /\ busy \in {0, 1}
       /\ push \in {0, 1}
       /\ m \in Nat
       /\ Lined(all, done, busy, h, frames, push, x, rest)
     => Lined(Append(all, m), done, busy, h, frames, push, x, rest \cup {m})
<1> SUFFICES ASSUME NEW all, NEW done, NEW h, NEW frames, NEW busy, NEW push, NEW m, NEW rest, NEW x,
                      all \in Seq(Nat), done \in Seq(Nat), frames \in Seq(Frames),
                      busy \in {0, 1}, push \in {0, 1}, m \in Nat,
                      Lined(all, done, busy, h, frames, push, x, rest)
                 PROVE  Lined(Append(all, m), done, busy, h, frames, push, x, rest \cup {m})
  OBVIOUS
<1> DEFINE p == Len(done) + busy + Len(frames) + push
           more == Append(all, m)
<1>1. p \in Nat /\ p <= Len(all) /\ Len(done) \in Nat /\ Len(frames) \in Nat
  BY DEF Lined
<1>2. /\ Len(more) = Len(all) + 1 /\ Len(all) \in Nat
      /\ \A i \in 1..Len(all) : more[i] = all[i]
      /\ more[Len(all) + 1] = m
  OBVIOUS
<1>3. \A i \in 1..Len(done) : done[i] = more[i]
  BY <1>1, <1>2 DEF Lined
<1>4. busy = 1 => h = more[Len(done) + 1]
  BY <1>1, <1>2 DEF Lined
<1>5. \A i \in 1..Len(frames) : frames[i].n = more[Len(done) + busy + i]
  <2>1. \A i \in 1..Len(frames) : Len(done) + busy + i \in 1..Len(all)
    BY <1>1
  <2> QED BY <1>2, <2>1 DEF Lined
<1>6. push = 1 => x = more[p]
  <2>1. push = 1 => p \in 1..Len(all) /\ x = all[p]
    BY <1>1 DEF Lined
  <2> QED BY <1>2, <2>1
<1>7. rest \cup {m} = {more[i] : i \in (p + 1)..Len(more)}
  <2>1. rest = {all[i] : i \in (p + 1)..Len(all)}
    BY DEF Lined
  <2> HIDE DEF p, more
  <2>2. \A i : i \in (p + 1)..Len(more) <=> i \in (p + 1)..Len(all) \/ i = Len(all) + 1
    BY <1>1, <1>2
  <2>3. \A i \in (p + 1)..Len(all) : more[i] = all[i]
    BY <1>1, <1>2
  <2> QED BY <1>2, <2>1, <2>2, <2>3
<1>8. p <= Len(more)
  BY <1>1, <1>2
<1> QED BY <1>3, <1>4, <1>5, <1>6, <1>7, <1>8 DEF Lined

\* What is answered is the beginning of what was asked.
LEMMA LinedPrefix ==
  \A all, done, h, frames, busy, push, x, rest :
       /\ all \in Seq(Nat)
       /\ done \in Seq(Nat)
       /\ frames \in Seq(Frames)
       /\ busy \in {0, 1}
       /\ push \in {0, 1}
       /\ Lined(all, done, busy, h, frames, push, x, rest)
     => Len(done) <= Len(all) /\ done = SubSeq(all, 1, Len(done))
<1> SUFFICES ASSUME NEW all, NEW done, NEW h, NEW frames, NEW busy, NEW push, NEW x, NEW rest,
                      all \in Seq(Nat), done \in Seq(Nat), frames \in Seq(Frames),
                      busy \in {0, 1}, push \in {0, 1},
                      Lined(all, done, busy, h, frames, push, x, rest)
                 PROVE  Len(done) <= Len(all) /\ done = SubSeq(all, 1, Len(done))
  OBVIOUS
<1>1. Len(done) \in Nat /\ Len(frames) \in Nat /\ Len(all) \in Nat
  OBVIOUS
<1>2. Len(done) <= Len(all) /\ \A i \in 1..Len(done) : done[i] = all[i]
  BY <1>1 DEF Lined
<1>3. /\ SubSeq(all, 1, Len(done)) \in Seq(Nat)
      /\ Len(SubSeq(all, 1, Len(done))) = Len(done)
      /\ \A i \in 1..Len(done) : SubSeq(all, 1, Len(done))[i] = all[i]
  BY <1>1, <1>2
<1> QED BY <1>2, <1>3, SeqEqual

\* The request at work has not been answered.
LEMMA LinedBusy ==
  \A all, done, h, frames, push, x, rest :
       /\ all \in Seq(Nat)
       /\ done \in Seq(Nat)
       /\ frames \in Seq(Frames)
       /\ push \in {0, 1}
       /\ Increasing(all)
       /\ \A i \in 1..Len(all) : 1 <= all[i]
       /\ Lined(all, done, 1, h, frames, push, x, rest)
     => h \notin {0} \cup {done[i] : i \in 1..Len(done)}
<1> SUFFICES ASSUME NEW all, NEW done, NEW h, NEW frames, NEW push, NEW x, NEW rest,
                      all \in Seq(Nat), done \in Seq(Nat), frames \in Seq(Frames),
                      push \in {0, 1},
                      Increasing(all), \A i \in 1..Len(all) : 1 <= all[i],
                      Lined(all, done, 1, h, frames, push, x, rest)
                 PROVE  h \notin {0} \cup {done[i] : i \in 1..Len(done)}
  OBVIOUS
<1>1. Len(done) \in Nat /\ Len(frames) \in Nat /\ Len(all) \in Nat
      /\ \A i \in 1..Len(all) : all[i] \in Nat
  OBVIOUS
<1>2. h = all[Len(done) + 1] /\ Len(done) + 1 <= Len(all) /\ \A i \in 1..Len(done) : done[i] = all[i]
  BY <1>1 DEF Lined
<1>3. Len(done) + 1 \in 1..Len(all)
  BY <1>1, <1>2
<1>4. h # 0
  BY <1>1, <1>2, <1>3
<1>5. ASSUME NEW i \in 1..Len(done) PROVE h # done[i]
  <2>1. i \in 1..Len(all) /\ i < Len(done) + 1
    BY <1>1, <1>2
  <2>2. all[i] < all[Len(done) + 1]
    BY <1>3, <2>1 DEF Increasing
  <2> QED BY <1>1, <1>2, <1>3, <2>1, <2>2
<1> QED BY <1>4, <1>5

\* When nothing is at work, queued, in hand or unread, everything is answered.
LEMMA LinedDone ==
  \A all, done, h, x :
       /\ all \in Seq(Nat)
       /\ done \in Seq(Nat)
       /\ Lined(all, done, 0, h, <<>>, 0, x, {})
     => done = all
<1> SUFFICES ASSUME NEW all, NEW done, NEW h, NEW x,
                      all \in Seq(Nat), done \in Seq(Nat),
                      Lined(all, done, 0, h, <<>>, 0, x, {})
                 PROVE  done = all
  OBVIOUS
<1>1. Len(done) \in Nat /\ Len(all) \in Nat /\ Len(<<>>) = 0
  OBVIOUS
<1>a. Len(done) + 0 + Len(<<>>) + 0 = Len(done)
  BY <1>1
<1>2. /\ Len(done) <= Len(all)
      /\ {} = {all[i] : i \in (Len(done) + 1)..Len(all)}
      /\ \A i \in 1..Len(done) : done[i] = all[i]
  <2>1. /\ Len(done) + 0 + Len(<<>>) + 0 <= Len(all)
        /\ {} = {all[i] : i \in (Len(done) + 0 + Len(<<>>) + 0 + 1)..Len(all)}
        /\ \A i \in 1..Len(done) : done[i] = all[i]
    BY DEF Lined
  <2> QED BY <1>a, <2>1
<1>3. Len(done) = Len(all)
  <2> SUFFICES ASSUME Len(done) < Len(all) PROVE FALSE
    BY <1>1, <1>2
  <2>1. Len(done) + 1 \in (Len(done) + 1)..Len(all)
    BY <1>1
  <2> QED BY <1>2, <2>1
<1> QED BY <1>2, <1>3, SeqEqual

\* Unread, element by element.
LEMMA UnreadIs ==
  ASSUME NEW w, NEW m
  PROVE  m \in Unread(w) <=> \E j \in 1..Len(w) : IsAhead(w, j) /\ w[j].n = m
BY DEF Unread

\* Reading a frame takes its number, the least, out of what is unread.
LEMMA UnreadTail ==
  ASSUME NEW w \in Seq(Frames), w # <<>>, Numbered(w)
  PROVE  /\ Head(w).what = "junk" => Unread(Tail(w)) = Unread(w)
         /\ Head(w).what = "close" => Unread(w) = {}
         /\ Head(w).what \in Methods =>
              /\ Unread(w) = Unread(Tail(w)) \cup {Head(w).n}
              /\ \A l \in Unread(Tail(w)) : Head(w).n < l
         /\ Numbered(Tail(w))
         /\ HasClose(w) => Head(w).what = "close" \/ HasClose(Tail(w))
         /\ HasClose(Tail(w)) => HasClose(w)
<1> DEFINE t == Tail(w)
<1>1. /\ Len(t) = Len(w) - 1 /\ Len(w) \in Nat /\ Len(w) >= 1 /\ Head(w) = w[1]
      /\ \A j \in 1..Len(t) : t[j] = w[j + 1]
  OBVIOUS
<1> HIDE DEF t
<1>2. \A j \in 1..Len(t) : j + 1 \in 2..Len(w)
  BY <1>1
<1>3. \A j \in 2..Len(w) : j - 1 \in 1..Len(t) /\ t[j - 1] = w[j]
  <2> SUFFICES ASSUME NEW j \in 2..Len(w) PROVE j - 1 \in 1..Len(t) /\ t[j - 1] = w[j]
    OBVIOUS
  <2>1. j - 1 \in 1..Len(t) /\ (j - 1) + 1 = j
    BY <1>1
  <2> QED BY <1>1, <2>1
<1>4. Numbered(t)
  BY <1>1, <1>2 DEF Numbered
<1>5. HasClose(w) => w[1].what = "close" \/ HasClose(t)
  BY <1>1, <1>3 DEF HasClose
<1>6. HasClose(t) => HasClose(w)
  BY <1>1, <1>2 DEF HasClose
<1>7. ASSUME w[1].what # "close"
      PROVE  \A j \in 2..Len(w) : IsAhead(w, j) <=> IsAhead(t, j - 1)
  <2> SUFFICES ASSUME NEW j \in 2..Len(w) PROVE IsAhead(w, j) <=> IsAhead(t, j - 1)
    OBVIOUS
  <2>1. t[j - 1] = w[j] /\ j \in Nat
    BY <1>3
  <2>2. ASSUME \A l \in 1..(j - 1) : w[l].what # "close", NEW k \in 1..(j - 1 - 1)
        PROVE  t[k].what # "close"
    <3>1. k + 1 \in 1..(j - 1) /\ k \in 1..Len(t)
      BY <1>1
    <3> QED BY <1>1, <2>2, <3>1
  <2>3. ASSUME \A k \in 1..(j - 1 - 1) : t[k].what # "close", NEW l \in 1..(j - 1)
        PROVE  w[l].what # "close"
    <3>1. CASE l = 1
      BY <1>7, <3>1
    <3>2. CASE l # 1
      <4>1. l \in 2..Len(w) /\ l - 1 \in 1..(j - 1 - 1)
        BY <1>1, <3>2
      <4> QED BY <1>3, <2>3, <4>1
    <3> QED BY <3>1, <3>2
  <2> QED BY <2>1, <2>2, <2>3 DEF IsAhead
<1>8. ASSUME w[1].what # "close", NEW m
      PROVE  m \in Unread(t) <=> \E j \in 2..Len(w) : IsAhead(w, j) /\ w[j].n = m
  <2>1. ASSUME NEW i \in 1..Len(t), IsAhead(t, i), t[i].n = m
        PROVE  \E j \in 2..Len(w) : IsAhead(w, j) /\ w[j].n = m
    <3>1. i + 1 \in 2..Len(w) /\ (i + 1) - 1 = i
      BY <1>1, <1>2
    <3>2. IsAhead(w, i + 1)
      BY <1>7, <1>8, <2>1, <3>1
    <3> QED BY <1>1, <2>1, <3>1, <3>2
  <2>2. ASSUME NEW j \in 2..Len(w), IsAhead(w, j), w[j].n = m
        PROVE  \E i \in 1..Len(t) : IsAhead(t, i) /\ t[i].n = m
    BY <1>3, <1>7, <1>8, <2>2
  <2> QED BY <2>1, <2>2, UnreadIs
<1>9. CASE w[1].what = "close"
  <2>1. \A j \in 1..Len(w) : ~IsAhead(w, j)
    <3> SUFFICES ASSUME NEW j \in 1..Len(w), IsAhead(w, j) PROVE FALSE
      OBVIOUS
    <3>1. w[1].what \notin Methods
      BY <1>9 DEF Methods
    <3>2. j # 1 /\ 1 \in 1..(j - 1)
      BY <1>1, <3>1 DEF IsAhead
    <3> QED BY <1>9, <3>2 DEF IsAhead
  <2>2. Unread(w) = {}
    BY <2>1, UnreadIs
  <2>3. w[1].what \notin Methods /\ w[1].what # "junk"
    BY <1>9 DEF Methods
  <2> QED BY <1>1, <1>4, <1>5, <1>6, <2>2, <2>3 DEF t
<1>10. CASE w[1].what = "junk"
  <2>1. w[1].what # "close" /\ w[1].what \notin Methods
    BY <1>10 DEF Methods
  <2>2. ~IsAhead(w, 1)
    BY <2>1 DEF IsAhead
  <2>3. \A j \in 1..Len(w) : j = 1 \/ j \in 2..Len(w)
    BY <1>1
  <2>4. \A m : m \in Unread(w) <=> \E j \in 2..Len(w) : IsAhead(w, j) /\ w[j].n = m
    BY <1>1, <2>2, <2>3, UnreadIs
  <2>5. \A m : m \in Unread(w) <=> m \in Unread(t)
    BY <1>8, <2>1, <2>4
  <2>6. Unread(w) = Unread(t)
    BY <2>5 DEF Unread
  <2> QED BY <1>1, <1>4, <1>5, <1>6, <2>1, <2>6 DEF t
<1>11. CASE w[1].what \in Methods
  <2>1. w[1].what # "close" /\ w[1].what # "junk"
    BY <1>11 DEF Methods
  <2>2. IsAhead(w, 1)
    BY <1>11 DEF IsAhead
  <2>3. \A j \in 1..Len(w) : j = 1 \/ j \in 2..Len(w)
    BY <1>1
  <2>4. 1 \in 1..Len(w) /\ 2..Len(w) \subseteq 1..Len(w)
    BY <1>1
  <2>5. \A m : m \in Unread(w) <=> m = w[1].n \/ \E j \in 2..Len(w) : IsAhead(w, j) /\ w[j].n = m
    BY <2>2, <2>3, <2>4, UnreadIs
  <2>6. \A m : m \in Unread(w) <=> m = w[1].n \/ m \in Unread(t)
    BY <1>8, <2>1, <2>5
  <2>7. Unread(w) = Unread(t) \cup {w[1].n}
    BY <2>6 DEF Unread
  <2>8. \A l \in Unread(t) : w[1].n < l
    <3> SUFFICES ASSUME NEW l \in Unread(t) PROVE w[1].n < l
      OBVIOUS
    <3>1. PICK j \in 2..Len(w) : w[j].n = l
      BY <1>8, <2>1
    <3>2. 1 < j /\ j \in 1..Len(w)
      BY <1>1
    <3> QED BY <2>4, <3>1, <3>2 DEF Numbered
  <2> QED BY <1>1, <1>4, <1>5, <1>6, <2>1, <2>7, <2>8 DEF t
<1>12. w[1].what \in Methods \cup Others
  <2>1. w[1] \in Frames
    BY <1>1
  <2> QED BY <2>1 DEF Frames
<1> QED BY <1>9, <1>10, <1>11, <1>12 DEF Others

\* A frame that is sent is unread if it is a request and no close was sent before it.
LEMMA UnreadAppend ==
  ASSUME NEW w \in Seq(Frames), NEW f \in Frames
  PROVE  /\ f.what \in Methods /\ ~HasClose(w) => Unread(Append(w, f)) = Unread(w) \cup {f.n}
         /\ f.what \notin Methods \/ HasClose(w) => Unread(Append(w, f)) = Unread(w)
         /\ HasClose(Append(w, f)) <=> (HasClose(w) \/ f.what = "close")
<1> DEFINE v == Append(w, f)
<1>1. /\ Len(v) = Len(w) + 1 /\ Len(w) \in Nat
      /\ \A j \in 1..Len(w) : v[j] = w[j]
      /\ v[Len(w) + 1] = f
  OBVIOUS
<1> HIDE DEF v
<1>2. \A j : j \in 1..Len(v) <=> j \in 1..Len(w) \/ j = Len(w) + 1
  BY <1>1
<1>3. \A j \in 1..Len(w) : IsAhead(v, j) <=> IsAhead(w, j)
  <2> SUFFICES ASSUME NEW j \in 1..Len(w) PROVE IsAhead(v, j) <=> IsAhead(w, j)
    OBVIOUS
  <2>1. \A l \in 1..(j - 1) : l \in 1..Len(w)
    BY <1>1
  <2>2. \A l \in 1..(j - 1) : v[l] = w[l]
    BY <1>1, <2>1
  <2> QED BY <1>1, <2>2 DEF IsAhead
<1>4. IsAhead(v, Len(w) + 1) <=> f.what \in Methods /\ ~HasClose(w)
  <2>1. (Len(w) + 1) - 1 = Len(w)
    BY <1>1
  <2> QED BY <1>1, <2>1 DEF IsAhead, HasClose
<1>5. \A m : m \in Unread(v)
              <=> (m \in Unread(w) \/ (f.what \in Methods /\ ~HasClose(w) /\ m = f.n))
  <2> SUFFICES ASSUME NEW m
               PROVE  m \in Unread(v)
                        <=> (m \in Unread(w) \/ (f.what \in Methods /\ ~HasClose(w) /\ m = f.n))
    OBVIOUS
  <2>1. m \in Unread(v) <=> \E j \in 1..Len(v) : IsAhead(v, j) /\ v[j].n = m
    BY UnreadIs
  <2>2. m \in Unread(w) <=> \E j \in 1..Len(w) : IsAhead(w, j) /\ w[j].n = m
    BY UnreadIs
  <2> QED BY <1>1, <1>2, <1>3, <1>4, <2>1, <2>2
<1>6. HasClose(v) <=> (HasClose(w) \/ f.what = "close")
  BY <1>1, <1>2 DEF HasClose
<1>7. ASSUME f.what \in Methods, ~HasClose(w) PROVE Unread(v) = Unread(w) \cup {f.n}
  <2>1. \A m : m \in Unread(v) <=> m \in Unread(w) \cup {f.n}
    BY <1>5, <1>7
  <2> QED BY <2>1 DEF Unread
<1>8. ASSUME f.what \notin Methods \/ HasClose(w) PROVE Unread(v) = Unread(w)
  <2>1. \A m : m \in Unread(v) <=> m \in Unread(w)
    BY <1>5, <1>8
  <2> QED BY <2>1 DEF Unread
<1> QED BY <1>6, <1>7, <1>8 DEF v

\* The three things that hold a request of connection c, and what is yet to be read.
Busy(c) == IF handler[c] \in {"state", "handle", "write"} THEN 1 ELSE 0
Pushing(c) == IF reader[c] = "push" THEN 1 ELSE 0
Rest(c) == IF reader[c] = "ended" THEN {} ELSE Unread(wire[c])

\* As long as the handler is there, nothing that the client asked for is lost or overtaken.
LineInv(c) ==
  handler[c] # "ended" =>
    Lined(asked[c].all, replies[c], Busy(c), handling[c].n, queue[c].frames, Pushing(c), hand[c].n,
          Rest(c))

\* The numbers of the requests grow, and the reader ends only where the client has.
SentInv(c) ==
  /\ Increasing(asked[c].all)
  /\ \A i \in 1..Len(asked[c].all) : 1 <= asked[c].all[i] /\ asked[c].all[i] <= asked[c].sent
  /\ Numbered(wire[c])
  /\ \A j \in 1..Len(wire[c]) : wire[c][j].n <= asked[c].sent
  /\ HasClose(wire[c]) => asked[c].closed = "yes"
  /\ asked[c].closed = "yes" => reader[c] = "ended" \/ HasClose(wire[c])
  /\ reader[c] = "ended" => asked[c].closed = "yes" \/ conn[c] # "open"

\* Where the two goroutines of a connection stand.
PhaseInv(c) ==
  /\ conn[c] = "away" => handler[c] = "none" /\ reader[c] = "none"
  /\ handler[c] = "ended" <=> conn[c] = "closed"
  /\ queue[c].open = "no" => reader[c] = "ended"

\* One connection.
LinkInv(c) ==
  /\ LineInv(c) /\ SentInv(c) /\ PhaseInv(c)
  /\ handler[c] = "ended" => AnsweredInOrder(c)

\* No breakpoint has a number that is yet to be given, and no two have the same.
BreakpointInv ==
  /\ dbgState.last \in Int /\ dbgState.last >= -1
  /\ given \subseteq [id : Int, by : Clients]
  /\ dbgState = [ids |-> {b.id : b \in given}, last |-> dbgState.last]
  /\ \A b \in given : 0 <= b.id /\ b.id <= dbgState.last
  /\ \A b1, b2 \in given : b1.id = b2.id => b1 = b2

\* The inductive invariant of the DevTools server.
CdpInv == CdpTypes /\ BreakpointInv /\ \A c \in Clients : LinkInv(c)

\* A step of one connection leaves the others as they are.
LEMMA OtherLinks ==
  ASSUME NEW d, LinkInv(d),
         conn'[d] = conn[d], wire'[d] = wire[d], queue'[d] = queue[d], reader'[d] = reader[d],
         hand'[d] = hand[d], handler'[d] = handler[d], handling'[d] = handling[d],
         replies'[d] = replies[d], asked'[d] = asked[d]
  PROVE  LinkInv(d)'
<1>1. Busy(d)' = Busy(d) /\ Pushing(d)' = Pushing(d) /\ Rest(d)' = Rest(d)
  BY DEF Busy, Pushing, Rest
<1>2. LineInv(d)'
  BY <1>1 DEF LinkInv, LineInv
<1>3. SentInv(d)'
  BY DEF LinkInv, SentInv
<1>4. PhaseInv(d)' /\ (handler[d] = "ended" => AnsweredInOrder(d))'
  BY DEF LinkInv, PhaseInv, AnsweredInOrder
<1> QED BY <1>2, <1>3, <1>4 DEF LinkInv

\* Only one connection takes a step.
LEMMA OneLink ==
  ASSUME CdpTypes, NEW c \in Clients,
         \/ Connect(c) \/ Leave(c)
         \/ \E what \in Methods \cup Others : Send(c, what)
         \/ ReadFrame(c) \/ ReadError(c) \/ Push(c)
         \/ Take(c) \/ DebuggerState(c) \/ SetBreakpoint(c) \/ Handle(c)
         \/ \E id \in 0..dbgState.last : RemoveBreakpoint(c, id)
         \/ WriteReply(c) \/ WriteError(c) \/ QueueDrained(c),
         NEW d \in Clients \ {c}
  PROVE  /\ conn'[d] = conn[d] /\ wire'[d] = wire[d] /\ queue'[d] = queue[d]
         /\ reader'[d] = reader[d] /\ hand'[d] = hand[d] /\ handler'[d] = handler[d]
         /\ handling'[d] = handling[d] /\ replies'[d] = replies[d] /\ asked'[d] = asked[d]
<1>a. /\ DOMAIN conn = Clients /\ DOMAIN wire = Clients /\ DOMAIN queue = Clients
      /\ DOMAIN reader = Clients /\ DOMAIN hand = Clients /\ DOMAIN handler = Clients
      /\ DOMAIN handling = Clients /\ DOMAIN replies = Clients /\ DOMAIN asked = Clients
  BY DEF CdpTypes
<1> USE DEF linkVars, readVars, sharedVars
<1>1. CASE Connect(c) \/ Leave(c)
  BY <1>1, <1>a DEF Connect, Leave
<1>2. ASSUME NEW what, Send(c, what)
      PROVE  /\ wire'[d] = wire[d] /\ asked'[d] = asked[d]
             /\ UNCHANGED <<conn, queue, reader, hand, handler, handling, replies>>
  BY <1>2, <1>a DEF Send
<1>3. CASE ReadFrame(c)
  BY <1>3, <1>a DEF ReadFrame, EndReading
<1>4. CASE ReadError(c) \/ Push(c)
  BY <1>4, <1>a DEF ReadError, EndReading, Push
<1>5. CASE Take(c) \/ DebuggerState(c) \/ SetBreakpoint(c) \/ Handle(c)
  BY <1>5, <1>a DEF Take, DebuggerState, SetBreakpoint, Handle, Proceed
<1>6. ASSUME NEW id, RemoveBreakpoint(c, id)
      PROVE  /\ handler'[d] = handler[d]
             /\ UNCHANGED <<conn, wire, queue, reader, hand, handling, replies, asked>>
  BY <1>6, <1>a DEF RemoveBreakpoint, Proceed
<1>7. CASE WriteReply(c) \/ WriteError(c) \/ QueueDrained(c)
  BY <1>7, <1>a DEF WriteReply, WriteError, QueueDrained, HandlerReturns, Proceed
<1> QED BY <1>1, <1>2, <1>3, <1>4, <1>5, <1>6, <1>7

\* Every variable keeps its type.
LEMMA CdpTypesStep == CdpTypes /\ [CdpNext]_cdpVars => CdpTypes'
<1> SUFFICES ASSUME CdpTypes, [CdpNext]_cdpVars PROVE CdpTypes'
  OBVIOUS
<1> USE DEF linkVars, readVars, sharedVars
<1>0. CASE UNCHANGED cdpVars
  BY <1>0 DEF CdpTypes, cdpVars
<1>1. ASSUME NEW c \in Clients, Connect(c) \/ Leave(c) PROVE CdpTypes'
  BY <1>1 DEF CdpTypes, Connect, Leave
<1>2. ASSUME NEW c \in Clients, NEW what \in Methods \cup Others, Send(c, what) PROVE CdpTypes'
  <2>1. /\ wire \in [Clients -> Seq(Frames)]
        /\ asked[c] \in [all : Seq(Nat), sent : Nat, closed : {"yes", "no"}]
        /\ asked \in [Clients -> [all : Seq(Nat), sent : Nat, closed : {"yes", "no"}]]
    BY DEF CdpTypes
  <2>2. asked[c].sent + 1 \in Nat /\ asked[c].all \in Seq(Nat) /\ asked[c].closed \in {"yes", "no"}
    BY <2>1
  <2>3. [n |-> asked[c].sent + 1, what |-> what] \in Frames
    BY <2>2 DEF Frames
  <2>4. Append(wire[c], [n |-> asked[c].sent + 1, what |-> what]) \in Seq(Frames)
    BY <2>1, <2>3
  <2>5. wire' \in [Clients -> Seq(Frames)]
    BY <1>2, <2>1, <2>4 DEF Send
  <2>6. Append(asked[c].all, asked[c].sent + 1) \in Seq(Nat)
    BY <2>2
  <2>7. PICK all \in Seq(Nat), closed \in {"yes", "no"} :
          asked' = [asked EXCEPT ![c] = [asked[c] EXCEPT !.sent = asked[c].sent + 1, !.all = all,
                                                        !.closed = closed]]
    <3> DEFINE all == IF what \in Methods /\ asked[c].closed = "no"
                      THEN Append(asked[c].all, asked[c].sent + 1) ELSE asked[c].all
               closed == IF what = "close" THEN "yes" ELSE asked[c].closed
    <3>1. all \in Seq(Nat) /\ closed \in {"yes", "no"}
      BY <2>2, <2>6
    <3>2. asked' = [asked EXCEPT ![c] = [asked[c] EXCEPT !.sent = asked[c].sent + 1, !.all = all,
                                                        !.closed = closed]]
      BY <1>2 DEF Send
    <3> HIDE DEF all, closed
    <3> QED BY <3>1, <3>2
  <2>8. [asked[c] EXCEPT !.sent = asked[c].sent + 1, !.all = all, !.closed = closed]
          \in [all : Seq(Nat), sent : Nat, closed : {"yes", "no"}]
    BY <2>1, <2>2
  <2>9. asked' \in [Clients -> [all : Seq(Nat), sent : Nat, closed : {"yes", "no"}]]
    BY <2>1, <2>7, <2>8
  <2>10. UNCHANGED <<conn, queue, reader, hand, handler, handling, replies>>
    BY <1>2 DEF Send
  <2> QED BY <2>5, <2>9, <2>10 DEF CdpTypes
<1>3. ASSUME NEW c \in Clients, EndReading(c)
      PROVE  /\ queue' \in [Clients -> [frames : Seq(Frames), open : {"yes", "no"}]]
             /\ reader' \in [Clients -> {"none", "read", "push", "ended"}]
             /\ hand' = hand
  <2>1. /\ queue \in [Clients -> [frames : Seq(Frames), open : {"yes", "no"}]]
        /\ reader \in [Clients -> {"none", "read", "push", "ended"}]
    BY DEF CdpTypes
  <2>2. [queue[c] EXCEPT !.open = "no"] \in [frames : Seq(Frames), open : {"yes", "no"}]
    BY <2>1
  <2> QED BY <1>3, <2>1, <2>2 DEF EndReading
<1>4. ASSUME NEW c \in Clients, ReadFrame(c) PROVE CdpTypes'
  <2>1. /\ wire \in [Clients -> Seq(Frames)] /\ wire[c] # <<>> /\ hand \in [Clients -> Frames]
        /\ reader \in [Clients -> {"none", "read", "push", "ended"}]
    BY <1>4 DEF CdpTypes, ReadFrame
  <2>2. Tail(wire[c]) \in Seq(Frames) /\ Head(wire[c]) \in Frames
    BY <2>1
  <2>3. wire' = [wire EXCEPT ![c] = Tail(wire[c])]
        /\ UNCHANGED <<conn, handler, handling, replies, asked>>
    BY <1>4 DEF ReadFrame
  <2>4. wire' \in [Clients -> Seq(Frames)]
    BY <2>1, <2>2, <2>3
  <2>5. \/ UNCHANGED <<reader, hand, queue>>
        \/ EndReading(c)
        \/ /\ hand' = [hand EXCEPT ![c] = Head(wire[c])]
           /\ reader' = [reader EXCEPT ![c] = "push"]
           /\ UNCHANGED queue
    BY <1>4 DEF ReadFrame
  <2>6. CASE UNCHANGED <<reader, hand, queue>>
    BY <2>3, <2>4, <2>6 DEF CdpTypes
  <2>7. CASE EndReading(c)
    BY <1>3, <2>3, <2>4, <2>7 DEF CdpTypes
  <2>8. CASE /\ hand' = [hand EXCEPT ![c] = Head(wire[c])]
             /\ reader' = [reader EXCEPT ![c] = "push"]
             /\ UNCHANGED queue
    <3>1. hand' \in [Clients -> Frames] /\ reader' \in [Clients -> {"none", "read", "push", "ended"}]
      BY <2>1, <2>2, <2>8
    <3> QED BY <2>3, <2>4, <2>8, <3>1 DEF CdpTypes
  <2> QED BY <2>5, <2>6, <2>7, <2>8
<1>5. ASSUME NEW c \in Clients, ReadError(c) PROVE CdpTypes'
  <2>1. UNCHANGED <<conn, wire, handler, handling, replies, asked>> /\ EndReading(c)
    BY <1>5 DEF ReadError
  <2> QED BY <1>3, <2>1 DEF CdpTypes
<1>6. ASSUME NEW c \in Clients, Push(c) PROVE CdpTypes'
  <2>1. /\ queue \in [Clients -> [frames : Seq(Frames), open : {"yes", "no"}]] /\ hand[c] \in Frames
        /\ reader \in [Clients -> {"none", "read", "push", "ended"}]
    BY DEF CdpTypes
  <2>2. Append(queue[c].frames, hand[c]) \in Seq(Frames)
    BY <2>1
  <2>3. [queue[c] EXCEPT !.frames = Append(queue[c].frames, hand[c])]
          \in [frames : Seq(Frames), open : {"yes", "no"}]
    BY <2>1, <2>2
  <2>4. /\ queue' = [queue EXCEPT ![c] = [queue[c] EXCEPT !.frames = Append(queue[c].frames, hand[c])]]
        /\ reader' = [reader EXCEPT ![c] = "read"]
        /\ UNCHANGED <<conn, wire, hand, handler, handling, replies, asked>>
    BY <1>6 DEF Push
  <2>5. /\ queue' \in [Clients -> [frames : Seq(Frames), open : {"yes", "no"}]]
        /\ reader' \in [Clients -> {"none", "read", "push", "ended"}]
    BY <2>1, <2>3, <2>4
  <2> QED BY <2>4, <2>5 DEF CdpTypes
<1>7. ASSUME NEW c \in Clients, Take(c) PROVE CdpTypes'
  <2>1. /\ queue \in [Clients -> [frames : Seq(Frames), open : {"yes", "no"}]]
        /\ handling \in [Clients -> Frames]
        /\ handler \in [Clients -> {"none", "take", "state", "handle", "write", "ended"}]
        /\ queue[c].frames # <<>>
    BY <1>7 DEF CdpTypes, Take
  <2>2. Tail(queue[c].frames) \in Seq(Frames) /\ Head(queue[c].frames) \in Frames
    BY <2>1
  <2>3. [queue[c] EXCEPT !.frames = Tail(queue[c].frames)]
          \in [frames : Seq(Frames), open : {"yes", "no"}]
    BY <2>1, <2>2
  <2>4. /\ queue' = [queue EXCEPT ![c] = [queue[c] EXCEPT !.frames = Tail(queue[c].frames)]]
        /\ handling' = [handling EXCEPT ![c] = Head(queue[c].frames)]
        /\ \/ handler' = [handler EXCEPT ![c] = "state"]
           \/ handler' = [handler EXCEPT ![c] = "handle"]
        /\ UNCHANGED <<conn, wire, reader, hand, replies, asked>>
    BY <1>7 DEF Take, Proceed
  <2>5. /\ queue' \in [Clients -> [frames : Seq(Frames), open : {"yes", "no"}]]
        /\ handling' \in [Clients -> Frames]
        /\ handler' \in [Clients -> {"none", "take", "state", "handle", "write", "ended"}]
    BY <2>1, <2>2, <2>3, <2>4
  <2> QED BY <2>4, <2>5 DEF CdpTypes
<1>8. ASSUME NEW c \in Clients, DebuggerState(c) \/ SetBreakpoint(c) \/ Handle(c) PROVE CdpTypes'
  BY <1>8 DEF CdpTypes, DebuggerState, SetBreakpoint, Handle, Proceed
<1>9. ASSUME NEW c \in Clients, NEW id, RemoveBreakpoint(c, id) PROVE CdpTypes'
  BY <1>9 DEF CdpTypes, RemoveBreakpoint, Proceed
<1>10. ASSUME NEW c \in Clients, WriteReply(c) PROVE CdpTypes'
  <2>1. /\ replies \in [Clients -> Seq(Nat)] /\ handling[c] \in Frames
        /\ handler \in [Clients -> {"none", "take", "state", "handle", "write", "ended"}]
    BY DEF CdpTypes
  <2>2. Append(replies[c], handling[c].n) \in Seq(Nat)
    BY <2>1 DEF Frames
  <2>3. /\ replies' = [replies EXCEPT ![c] = Append(replies[c], handling[c].n)]
        /\ handler' = [handler EXCEPT ![c] = "take"]
        /\ UNCHANGED <<conn, wire, reader, hand, queue, handling, asked>>
    BY <1>10 DEF WriteReply, Proceed
  <2>4. /\ replies' \in [Clients -> Seq(Nat)]
        /\ handler' \in [Clients -> {"none", "take", "state", "handle", "write", "ended"}]
    BY <2>1, <2>2, <2>3
  <2> QED BY <2>3, <2>4 DEF CdpTypes
<1>11. ASSUME NEW c \in Clients, HandlerReturns(c) PROVE CdpTypes'
  BY <1>11 DEF CdpTypes, HandlerReturns, Proceed
<1> QED
  BY <1>0, <1>1, <1>2, <1>4, <1>5, <1>6, <1>7, <1>8, <1>9, <1>10, <1>11
  DEF CdpNext, WriteError, QueueDrained

\* Numbers of breakpoints are given in growing order, from a state that is made only once.
LEMMA BreakpointStep == BreakpointInv /\ [CdpNext]_cdpVars => BreakpointInv'
<1> SUFFICES ASSUME BreakpointInv, [CdpNext]_cdpVars PROVE BreakpointInv'
  OBVIOUS
<1>1. CASE UNCHANGED sharedVars
  BY <1>1 DEF sharedVars, BreakpointInv
<1>2. ASSUME NEW c \in Clients, DebuggerState(c) PROVE BreakpointInv'
  <2>1. given' = given /\ dbgState' = IF dbgState.last = -1 THEN NoBreakpoints ELSE dbgState
    BY <1>2 DEF DebuggerState
  <2>2. CASE dbgState.last # -1
    BY <2>1, <2>2 DEF BreakpointInv
  <2>3. CASE dbgState.last = -1
    <3>1. given = {}
      <4>1. ASSUME NEW b \in given PROVE FALSE
        <5>1. b.id \in Int /\ 0 <= b.id /\ b.id <= -1
          BY <2>3 DEF BreakpointInv
        <5> QED BY <5>1
      <4> QED BY <4>1
    <3>2. dbgState' = [ids |-> {}, last |-> 0]
      BY <2>1, <2>3 DEF NoBreakpoints
    <3> QED BY <2>1, <3>1, <3>2 DEF BreakpointInv
  <2> QED BY <2>2, <2>3
<1>3. ASSUME NEW c \in Clients, SetBreakpoint(c) PROVE BreakpointInv'
  <2> DEFINE id == dbgState.last + 1
             new == [id |-> id, by |-> c]
  <2>1. dbgState' = [ids |-> dbgState.ids \cup {id}, last |-> id] /\ given' = given \cup {new}
    BY <1>3 DEF SetBreakpoint
  <2>2. id \in Int /\ id >= 0 /\ \A b \in given : b.id \in Int /\ 0 <= b.id /\ b.id < id
    BY DEF BreakpointInv
  <2>3. dbgState.ids = {b.id : b \in given}
    BY DEF BreakpointInv
  <2>4. new.id = id /\ new \in [id : Int, by : Clients]
    BY <2>2
  <2> HIDE DEF new, id
  <2>5. dbgState'.last = id /\ dbgState'.ids = dbgState.ids \cup {id}
    BY <2>1
  <2>6. dbgState.ids \cup {id} = {b.id : b \in given'}
    BY <2>1, <2>3, <2>4
  <2>7. \A b \in given' : 0 <= b.id /\ b.id <= id
    BY <2>1, <2>2, <2>4
  <2>8. \A b1, b2 \in given' : b1.id = b2.id => b1 = b2
    BY <2>1, <2>2, <2>4 DEF BreakpointInv
  <2>9. given' \subseteq [id : Int, by : Clients]
    BY <2>1, <2>4 DEF BreakpointInv
  <2>10. id >= -1
    BY <2>2
  <2>11. dbgState' = [ids |-> {b.id : b \in given'}, last |-> dbgState'.last]
    BY <2>1, <2>5, <2>6
  <2> QED BY <2>2, <2>5, <2>7, <2>8, <2>9, <2>10, <2>11 DEF BreakpointInv
<1>4. ASSUME NEW c \in Clients, NEW id, RemoveBreakpoint(c, id) PROVE BreakpointInv'
  <2>1. /\ dbgState' = [dbgState EXCEPT !.ids = @ \ {id}]
        /\ given' = {b \in given : b.id # id}
    BY <1>4 DEF RemoveBreakpoint
  <2>2. dbgState = [ids |-> {b.id : b \in given}, last |-> dbgState.last]
    BY DEF BreakpointInv
  <2>3. dbgState' = [ids |-> {b.id : b \in given} \ {id}, last |-> dbgState.last]
    <3> DEFINE S == {b.id : b \in given}
               n == dbgState.last
    <3>1. dbgState = [ids |-> S, last |-> n] /\ dbgState' = [dbgState EXCEPT !.ids = dbgState.ids \ {id}]
      BY <2>1, <2>2
    <3> HIDE DEF S, n
    <3>2. dbgState' = [ids |-> S \ {id}, last |-> n]
      BY <3>1
    <3> QED BY <3>2 DEF S, n
  <2>4. {b.id : b \in given} \ {id} = {b.id : b \in given'}
    BY <2>1
  <2>5. dbgState'.last = dbgState.last
    BY <2>3
  <2>6. dbgState' = [ids |-> {b.id : b \in given'}, last |-> dbgState'.last]
    BY <2>3, <2>4, <2>5
  <2> QED BY <2>1, <2>5, <2>6 DEF BreakpointInv
<1>5. ASSUME NEW c \in Clients,
             \/ Connect(c) \/ Leave(c)
             \/ \E what \in Methods \cup Others : Send(c, what)
             \/ ReadFrame(c) \/ ReadError(c) \/ Push(c) \/ Take(c) \/ Handle(c)
             \/ WriteReply(c) \/ WriteError(c) \/ QueueDrained(c)
      PROVE  UNCHANGED sharedVars
  BY <1>5
  DEF Connect, Leave, Send, ReadFrame, ReadError, Push, Take, Handle, WriteReply, WriteError,
      QueueDrained, HandlerReturns, sharedVars
<1>6. CASE UNCHANGED cdpVars
  BY <1>1, <1>6 DEF cdpVars
<1> QED BY <1>1, <1>2, <1>3, <1>4, <1>5, <1>6 DEF CdpNext

\* Requests of one connection: each step keeps them in line.
LEMMA LinkStep ==
  ASSUME CdpInv, CdpTypes', NEW c \in Clients,
         \/ Connect(c) \/ Leave(c)
         \/ \E what \in Methods \cup Others : Send(c, what)
         \/ ReadFrame(c) \/ ReadError(c) \/ Push(c)
         \/ Take(c) \/ DebuggerState(c) \/ SetBreakpoint(c) \/ Handle(c)
         \/ \E id \in 0..dbgState.last : RemoveBreakpoint(c, id)
         \/ WriteReply(c) \/ WriteError(c) \/ QueueDrained(c)
  PROVE  LinkInv(c)'
<1> DEFINE all == asked[c].all
           done == replies[c]
           frames == queue[c].frames
<1>a. /\ conn[c] \in {"away", "open", "left", "closed"}
      /\ wire[c] \in Seq(Frames)
      /\ queue[c] \in [frames : Seq(Frames), open : {"yes", "no"}]
      /\ reader[c] \in {"none", "read", "push", "ended"}
      /\ hand[c] \in Frames
      /\ handler[c] \in {"none", "take", "state", "handle", "write", "ended"}
      /\ handling[c] \in Frames
      /\ replies[c] \in Seq(Nat)
      /\ asked[c] \in [all : Seq(Nat), sent : Nat, closed : {"yes", "no"}]
  BY DEF CdpInv, CdpTypes
<1>b. /\ DOMAIN conn = Clients /\ DOMAIN wire = Clients /\ DOMAIN queue = Clients
      /\ DOMAIN reader = Clients /\ DOMAIN hand = Clients /\ DOMAIN handler = Clients
      /\ DOMAIN handling = Clients /\ DOMAIN replies = Clients /\ DOMAIN asked = Clients
  BY DEF CdpInv, CdpTypes
<1>c. /\ all \in Seq(Nat) /\ asked[c].sent \in Nat /\ done \in Seq(Nat) /\ frames \in Seq(Frames)
      /\ hand[c].n \in Nat /\ handling[c].n \in Nat
  BY <1>a DEF Frames
<1>d. LineInv(c) /\ SentInv(c) /\ PhaseInv(c) /\ (handler[c] = "ended" => AnsweredInOrder(c))
  BY DEF CdpInv, LinkInv
<1>e. Busy(c) \in {0, 1} /\ Pushing(c) \in {0, 1}
  BY DEF Busy, Pushing
<1> USE DEF linkVars, readVars, sharedVars
<1>1. CASE Connect(c)
  <2>1. /\ conn[c] = "away" /\ conn'[c] = "open" /\ reader'[c] = "read" /\ handler'[c] = "take"
        /\ UNCHANGED <<wire, hand, queue, handling, replies, asked>>
    BY <1>1, <1>b DEF Connect
  <2>2. handler[c] = "none" /\ reader[c] = "none"
    BY <1>d, <2>1 DEF PhaseInv
  <2>3. Busy(c)' = Busy(c) /\ Pushing(c)' = Pushing(c) /\ Rest(c)' = Rest(c)
    BY <2>1, <2>2 DEF Busy, Pushing, Rest
  <2>4. LineInv(c)'
    BY <1>d, <2>1, <2>2, <2>3 DEF LineInv
  <2>5. SentInv(c)' /\ PhaseInv(c)'
    BY <1>d, <2>1, <2>2 DEF SentInv, PhaseInv
  <2> QED BY <2>1, <2>4, <2>5 DEF LinkInv
<1>2. CASE Leave(c)
  <2>1. /\ conn[c] = "open" /\ conn'[c] = "left"
        /\ UNCHANGED <<wire, reader, hand, handler, queue, handling, replies, asked>>
    BY <1>2, <1>b DEF Leave
  <2>2. Busy(c)' = Busy(c) /\ Pushing(c)' = Pushing(c) /\ Rest(c)' = Rest(c)
    BY <2>1 DEF Busy, Pushing, Rest
  <2>3. LineInv(c)' /\ handler[c] # "ended"
    BY <1>d, <2>1, <2>2 DEF LineInv, PhaseInv
  <2>4. SentInv(c)' /\ PhaseInv(c)'
    BY <1>d, <2>1 DEF SentInv, PhaseInv
  <2> QED BY <2>1, <2>3, <2>4 DEF LinkInv
\* The number of a new request is greater than all before; after a close, nothing is added.
<1>3. ASSUME NEW what \in Methods \cup Others, Send(c, what) PROVE LinkInv(c)'
  <2> DEFINE m == asked[c].sent + 1
             f == [n |-> m, what |-> what]
  <2>1. /\ conn[c] = "open" /\ wire'[c] = Append(wire[c], f)
        /\ asked'[c].sent = m
        /\ asked'[c].all = IF what \in Methods /\ asked[c].closed = "no" THEN Append(all, m) ELSE all
        /\ asked'[c].closed = IF what = "close" THEN "yes" ELSE asked[c].closed
        /\ UNCHANGED <<conn, reader, hand, queue, handler, handling, replies>>
    BY <1>3, <1>a, <1>b DEF Send
  <2>2. m \in Nat /\ f \in Frames /\ f.n = m /\ f.what = what
    BY <1>c DEF Frames
  <2>3. handler[c] # "ended"
    BY <1>d, <2>1 DEF PhaseInv
  <2>4. asked[c].closed = "yes" <=> (reader[c] = "ended" \/ HasClose(wire[c]))
    BY <1>d, <2>1 DEF SentInv
  <2>5. Busy(c)' = Busy(c) /\ Pushing(c)' = Pushing(c)
    BY <2>1 DEF Busy, Pushing
  <2>6. Lined(all, done, Busy(c), handling[c].n, frames, Pushing(c), hand[c].n, Rest(c))
    BY <1>d, <2>3 DEF LineInv
  <2> HIDE DEF m, f, all, done, frames
  <2>7. LineInv(c)'
    <3>1. CASE what \in Methods /\ asked[c].closed = "no"
      <4>1. reader[c] # "ended" /\ ~HasClose(wire[c])
        BY <2>4, <3>1
      <4>2. Rest(c)' = Rest(c) \cup {m}
        BY <1>a, <2>1, <2>2, <3>1, <4>1, UnreadAppend DEF Rest
      <4>3. Lined(Append(all, m), done, Busy(c), handling[c].n, frames, Pushing(c), hand[c].n,
                  Rest(c) \cup {m})
        BY <1>c, <1>e, <2>2, <2>6, SendLined
      <4> QED BY <2>1, <2>5, <3>1, <4>2, <4>3 DEF LineInv, done, frames
    <3>2. CASE what \notin Methods \/ asked[c].closed = "yes"
      <4>1. reader[c] = "ended" \/ what \notin Methods \/ HasClose(wire[c])
        BY <2>4, <3>2
      <4>2. Rest(c)' = Rest(c)
        BY <1>a, <2>1, <2>2, <4>1, UnreadAppend DEF Rest
      <4>3. asked'[c].all = all
        BY <2>1, <3>2
      <4> QED BY <2>1, <2>5, <2>6, <4>2, <4>3 DEF LineInv, done, frames
    <3> QED BY <1>a, <3>1, <3>2
  <2>8. SentInv(c)'
    <3>a. /\ Increasing(all) /\ \A i \in 1..Len(all) : 1 <= all[i] /\ all[i] <= asked[c].sent
          /\ Numbered(wire[c]) /\ \A j \in 1..Len(wire[c]) : wire[c][j].n <= asked[c].sent
      BY <1>d DEF SentInv, all
    <3>b. m = asked[c].sent + 1 /\ asked[c].sent \in Nat
      BY <1>c DEF m
    <3>c. /\ \A i \in 1..Len(all) : all[i] \in Nat
          /\ \A j \in 1..Len(wire[c]) : wire[c][j] \in Frames /\ wire[c][j].n \in Nat
      <4>1. \A i \in 1..Len(all) : all[i] \in Nat
        BY <1>c
      <4>2. \A j \in 1..Len(wire[c]) : wire[c][j] \in Frames
        BY <1>a
      <4> QED BY <4>1, <4>2 DEF Frames
    <3>1. /\ Increasing(Append(all, m))
          /\ \A i \in 1..Len(Append(all, m)) : 1 <= Append(all, m)[i] /\ Append(all, m)[i] <= m
      <4>1. /\ Len(Append(all, m)) = Len(all) + 1 /\ Len(all) \in Nat
            /\ \A i \in 1..Len(all) : Append(all, m)[i] = all[i]
            /\ Append(all, m)[Len(all) + 1] = m
        BY <1>c, <2>2
      <4>2. \A i \in 1..Len(Append(all, m)) : i \in 1..Len(all) \/ i = Len(all) + 1
        BY <4>1
      <4>3. \A i \in 1..Len(all) : 1 <= all[i] /\ all[i] < m
        BY <3>a, <3>b, <3>c
      <4>4. m >= 1
        BY <3>b
      <4>5. Increasing(Append(all, m))
        <5> SUFFICES ASSUME NEW i \in 1..Len(Append(all, m)), NEW j \in 1..Len(Append(all, m)), i < j
                     PROVE  Append(all, m)[i] < Append(all, m)[j]
          BY DEF Increasing
        <5>1. i \in 1..Len(all)
          BY <4>1, <4>2
        <5>2. CASE j \in 1..Len(all)
          BY <3>a, <4>1, <5>1, <5>2 DEF Increasing
        <5>3. CASE j = Len(all) + 1
          BY <4>1, <4>3, <5>1, <5>3
        <5> QED BY <4>2, <5>2, <5>3
      <4>6. \A i \in 1..Len(all) : 1 <= all[i] /\ all[i] <= m
        BY <2>2, <3>c, <4>3
      <4>7. m <= m
        BY <2>2
      <4> QED BY <4>1, <4>2, <4>4, <4>5, <4>6, <4>7
    <3>2. Increasing(asked'[c].all) /\
          \A i \in 1..Len(asked'[c].all) : 1 <= asked'[c].all[i] /\ asked'[c].all[i] <= asked'[c].sent
      <4>1. CASE asked'[c].all = Append(all, m)
        BY <2>1, <3>1, <4>1
      <4>2. CASE asked'[c].all = all
        BY <2>1, <3>a, <3>b, <3>c, <4>2
      <4> QED BY <2>1, <4>1, <4>2
    <3>3. Numbered(Append(wire[c], f))
          /\ \A j \in 1..Len(Append(wire[c], f)) : Append(wire[c], f)[j].n <= m
      <4> DEFINE w == wire[c]
      <4>1. /\ Len(Append(w, f)) = Len(w) + 1 /\ Len(w) \in Nat
            /\ \A i \in 1..Len(w) : Append(w, f)[i] = w[i]
            /\ Append(w, f)[Len(w) + 1] = f
        BY <1>a, <2>2
      <4>2. \A i \in 1..Len(Append(w, f)) : i \in 1..Len(w) \/ i = Len(w) + 1
        BY <4>1
      <4>3. \A i \in 1..Len(w) : w[i].n < m
        BY <3>a, <3>b, <3>c
      <4>4. Numbered(w)
        BY <3>a
      <4> HIDE DEF w
      <4>5. Numbered(Append(w, f))
        <5> SUFFICES ASSUME NEW i \in 1..Len(Append(w, f)), NEW j \in 1..Len(Append(w, f)), i < j
                     PROVE  Append(w, f)[i].n < Append(w, f)[j].n
          BY DEF Numbered
        <5>1. i \in 1..Len(w)
          BY <4>1, <4>2
        <5>2. CASE j \in 1..Len(w)
          BY <4>1, <4>4, <5>1, <5>2 DEF Numbered
        <5>3. CASE j = Len(w) + 1
          BY <2>2, <4>1, <4>3, <5>1, <5>3
        <5> QED BY <4>2, <5>2, <5>3
      <4>6. \A i \in 1..Len(w) : w[i].n <= m
        BY <3>a, <3>b, <3>c DEF w
      <4> QED BY <2>2, <4>1, <4>2, <4>5, <4>6 DEF w
    <3>4. HasClose(wire'[c]) <=> (HasClose(wire[c]) \/ what = "close")
      BY <1>a, <2>1, <2>2, UnreadAppend
    <3>5. asked'[c].closed = "yes" <=> (reader[c] = "ended" \/ HasClose(wire'[c]))
      BY <2>1, <2>4, <3>4
    <3> QED BY <2>1, <3>2, <3>3, <3>5, <2>4, <1>d DEF SentInv
  <2>9. PhaseInv(c)'
    BY <1>d, <2>1 DEF PhaseInv
  <2> QED BY <2>1, <2>3, <2>7, <2>8, <2>9 DEF LinkInv
<1>4. CASE ReadFrame(c)
  <2> DEFINE w == wire[c]
             f == Head(w)
  <2>1. /\ reader[c] = "read" /\ w # <<>> /\ wire'[c] = Tail(w)
        /\ UNCHANGED <<conn, handler, handling, replies, asked>>
        /\ \/ /\ f.what = "junk" /\ UNCHANGED <<reader, hand, queue>>
           \/ /\ f.what = "close" /\ reader'[c] = "ended" /\ hand' = hand
              /\ queue'[c] = [queue[c] EXCEPT !.open = "no"]
           \/ /\ f.what \in Methods /\ hand'[c] = f /\ reader'[c] = "push" /\ queue' = queue
    BY <1>4, <1>b DEF ReadFrame, EndReading
  <2>2. w \in Seq(Frames) /\ Numbered(w) /\ \A j \in 1..Len(w) : w[j].n <= asked[c].sent
    BY <1>a, <1>d DEF SentInv
  <2>3. queue'[c].frames = frames /\ queue[c].open # "no" /\ conn[c] # "away"
    BY <1>a, <1>d, <2>1 DEF PhaseInv
  <2>4. Busy(c)' = Busy(c) /\ Pushing(c) = 0 /\ Rest(c) = Unread(w)
    BY <2>1 DEF Busy, Pushing, Rest
  <2>5. handler[c] # "ended" =>
          Lined(all, done, Busy(c), handling[c].n, frames, 0, hand[c].n, Unread(w))
    BY <1>d, <2>4 DEF LineInv
  <2>6. f.n \in Nat /\ Numbered(Tail(w)) /\ \A j \in 1..Len(Tail(w)) : Tail(w)[j].n <= asked[c].sent
    <3>1. f \in Frames
      BY <2>1, <2>2
    <3>2. \A j \in 1..Len(Tail(w)) : j + 1 \in 1..Len(w) /\ Tail(w)[j] = w[j + 1]
      BY <2>1, <2>2
    <3> HIDE DEF w, f
    <3> QED BY <2>1, <2>2, <3>1, <3>2, UnreadTail DEF Frames
  <2>7. Increasing(all) /\ (\A i \in 1..Len(all) : 1 <= all[i] /\ all[i] <= asked[c].sent)
    BY <1>d DEF SentInv
  <2>8. asked[c].closed = "yes" <=> HasClose(w)
    BY <1>d, <2>1 DEF SentInv
  <2> HIDE DEF w, f, all, done, frames
  <2>9. CASE f.what = "junk"
    <3>1. UNCHANGED <<reader, hand, queue>> /\ f.what # "close" /\ f.what \notin Methods
      BY <2>1, <2>9 DEF Methods
    <3>2. Unread(Tail(w)) = Unread(w) /\ (HasClose(w) <=> HasClose(Tail(w)))
      BY <2>1, <2>2, <2>9, <3>1, UnreadTail DEF f
    <3>3. Pushing(c)' = 0 /\ Rest(c)' = Unread(w)
      BY <2>1, <3>1, <3>2 DEF Pushing, Rest
    <3>4. LineInv(c)'
      BY <2>1, <2>4, <2>5, <3>1, <3>3 DEF LineInv, all, done, frames
    <3>5. SentInv(c)'
      BY <2>1, <2>6, <2>7, <2>8, <3>1, <3>2 DEF SentInv, all
    <3> QED BY <1>d, <2>1, <3>1, <3>4, <3>5 DEF LinkInv, PhaseInv, AnsweredInOrder
  <2>10. CASE f.what = "close"
    <3>1. /\ reader'[c] = "ended" /\ hand' = hand /\ f.what # "junk" /\ f.what \notin Methods
      BY <2>1, <2>10 DEF Methods
    <3>2. Unread(w) = {} /\ HasClose(w)
      <4>1. HasClose(w)
        <5>1. 1 \in 1..Len(w) /\ w[1] = f
          BY <2>1, <2>2 DEF f
        <5> QED BY <2>10, <5>1 DEF HasClose
      <4> QED BY <2>1, <2>2, <2>10, <4>1, UnreadTail DEF f
    <3>3. Pushing(c)' = 0 /\ Rest(c)' = Unread(w)
      BY <3>1, <3>2 DEF Pushing, Rest
    <3>4. LineInv(c)'
      BY <2>1, <2>3, <2>4, <2>5, <3>1, <3>3 DEF LineInv, all, done
    <3>5. SentInv(c)'
      BY <2>1, <2>6, <2>7, <2>8, <3>1, <3>2 DEF SentInv, all
    <3> QED BY <1>d, <2>1, <2>3, <3>1, <3>4, <3>5 DEF LinkInv, PhaseInv, AnsweredInOrder
  <2>11. CASE f.what \in Methods
    <3>1. /\ hand'[c] = f /\ reader'[c] = "push" /\ queue' = queue
          /\ f.what # "junk" /\ f.what # "close"
      BY <2>1, <2>11 DEF Methods
    <3>2. /\ Unread(w) = Unread(Tail(w)) \cup {f.n} /\ \A l \in Unread(Tail(w)) : f.n < l
          /\ HasClose(w) <=> HasClose(Tail(w))
      BY <2>1, <2>2, <2>11, <3>1, UnreadTail DEF f
    <3>3. Pushing(c)' = 1 /\ Rest(c)' = Unread(Tail(w))
      BY <2>1, <3>1 DEF Pushing, Rest
    <3>4. ASSUME handler[c] # "ended"
          PROVE  Lined(all, done, Busy(c), handling[c].n, frames, 1, f.n, Unread(Tail(w)))
      <4>1. all \in Seq(Nat) /\ done \in Seq(Nat) /\ frames \in Seq(Frames)
        BY <1>c DEF all, done, frames
      <4>2. Lined(all, done, Busy(c), handling[c].n, frames, 0, hand[c].n,
                  Unread(Tail(w)) \cup {f.n})
        BY <2>5, <3>2, <3>4
      <4>3. Below(f.n, Unread(Tail(w)))
        BY <3>2 DEF Below
      <4> QED BY <1>e, <2>6, <2>7, <4>1, <4>2, <4>3, ReadLined
    <3>5. LineInv(c)'
      BY <2>1, <2>4, <3>1, <3>3, <3>4 DEF LineInv, all, done, frames
    <3>6. SentInv(c)'
      BY <2>1, <2>6, <2>7, <2>8, <3>1, <3>2 DEF SentInv, all
    <3> QED BY <1>d, <2>1, <2>3, <3>1, <3>5, <3>6 DEF LinkInv, PhaseInv, AnsweredInOrder
  <2> QED BY <2>1, <2>9, <2>10, <2>11
\* The reader ends for another reason only where nothing is left to read, or no handler.
<1>5. CASE ReadError(c)
  <2>1. /\ reader[c] = "read" /\ reader'[c] = "ended"
        /\ queue'[c] = [queue[c] EXCEPT !.open = "no"]
        /\ conn[c] = "closed" \/ (conn[c] = "left" /\ wire[c] = <<>>)
        /\ UNCHANGED <<conn, wire, hand, handler, handling, replies, asked>>
    BY <1>5, <1>b DEF ReadError, EndReading
  <2>2. queue'[c].frames = frames /\ conn[c] # "open" /\ conn[c] # "away"
    BY <1>a, <2>1
  <2>3. Busy(c)' = Busy(c) /\ Pushing(c)' = Pushing(c)
    BY <2>1 DEF Busy, Pushing
  <2>4. handler[c] # "ended" => Rest(c)' = Rest(c)
    <3>1. handler[c] # "ended" => wire[c] = <<>>
      BY <1>d, <2>1 DEF PhaseInv
    <3>2. Unread(<<>>) = {}
      BY DEF Unread
    <3> QED BY <2>1, <3>1, <3>2 DEF Rest
  <2>5. LineInv(c)'
    BY <1>d, <2>1, <2>2, <2>3, <2>4 DEF LineInv
  <2>6. SentInv(c)'
    BY <1>d, <2>1, <2>2 DEF SentInv
  <2> QED BY <1>d, <2>1, <2>2, <2>5, <2>6 DEF LinkInv, PhaseInv, AnsweredInOrder
<1>6. CASE Push(c)
  <2>1. /\ reader[c] = "push" /\ reader'[c] = "read"
        /\ queue'[c] = [queue[c] EXCEPT !.frames = Append(frames, hand[c])]
        /\ UNCHANGED <<conn, wire, hand, handler, handling, replies, asked>>
    BY <1>6, <1>b DEF Push
  <2>2. queue'[c].frames = Append(frames, hand[c]) /\ queue'[c].open = queue[c].open
    BY <1>a, <2>1
  <2>3. Busy(c)' = Busy(c) /\ Pushing(c) = 1 /\ Pushing(c)' = 0 /\ Rest(c)' = Rest(c)
    BY <2>1 DEF Busy, Pushing, Rest
  <2>4. LineInv(c)'
    <3>1. ASSUME handler[c] # "ended"
          PROVE  Lined(all, done, Busy(c), handling[c].n, Append(frames, hand[c]), 0, hand[c].n, Rest(c))
      <4>1. Lined(all, done, Busy(c), handling[c].n, frames, 1, hand[c].n, Rest(c))
        BY <1>d, <2>3, <3>1 DEF LineInv
      <4> HIDE DEF all, done, frames
      <4> QED BY <1>a, <1>c, <1>e, <4>1, PushLined
    <3> QED BY <2>1, <2>2, <2>3, <3>1 DEF LineInv
  <2>5. SentInv(c)'
    BY <1>d, <2>1 DEF SentInv
  <2> QED BY <1>d, <2>1, <2>2, <2>4, <2>5 DEF LinkInv, PhaseInv, AnsweredInOrder
<1>7. CASE Take(c)
  <2>1. /\ handler[c] = "take" /\ frames # <<>> /\ handler'[c] \in {"state", "handle"}
        /\ queue'[c] = [queue[c] EXCEPT !.frames = Tail(frames)]
        /\ handling'[c] = Head(frames)
        /\ UNCHANGED <<conn, wire, reader, hand, replies, asked>>
    BY <1>7, <1>b DEF Take, Proceed
  <2>2. queue'[c].frames = Tail(frames) /\ queue'[c].open = queue[c].open
    BY <1>a, <2>1
  <2>3. Busy(c) = 0 /\ Busy(c)' = 1 /\ Pushing(c)' = Pushing(c) /\ Rest(c)' = Rest(c)
    BY <2>1 DEF Busy, Pushing, Rest
  <2>4. LineInv(c)'
    <3>1. Lined(all, done, 1, Head(frames).n, Tail(frames), Pushing(c), hand[c].n, Rest(c))
      <4>1. Lined(all, done, 0, handling[c].n, frames, Pushing(c), hand[c].n, Rest(c))
        BY <1>d, <2>1, <2>3 DEF LineInv
      <4> HIDE DEF all, done, frames
      <4> QED BY <1>c, <1>e, <2>1, <4>1, TakeLined
    <3> QED BY <2>1, <2>2, <2>3, <3>1 DEF LineInv
  <2>5. SentInv(c)'
    BY <1>d, <2>1 DEF SentInv
  <2> QED BY <1>d, <2>1, <2>2, <2>4, <2>5 DEF LinkInv, PhaseInv
<1>8. CASE \/ DebuggerState(c) \/ SetBreakpoint(c) \/ Handle(c)
           \/ \E id \in 0..dbgState.last : RemoveBreakpoint(c, id)
  <2>1. /\ handler[c] \in {"state", "handle"} /\ handler'[c] \in {"handle", "write"}
        /\ UNCHANGED <<conn, wire, queue, reader, hand, handling, replies, asked>>
    BY <1>8, <1>b DEF DebuggerState, SetBreakpoint, Handle, RemoveBreakpoint, Proceed
  <2>2. Busy(c)' = Busy(c) /\ Pushing(c)' = Pushing(c) /\ Rest(c)' = Rest(c)
    BY <2>1 DEF Busy, Pushing, Rest
  <2>3. LineInv(c)' /\ SentInv(c)'
    BY <1>d, <2>1, <2>2 DEF LineInv, SentInv
  <2> QED BY <1>d, <2>1, <2>3 DEF LinkInv, PhaseInv
<1>9. CASE WriteReply(c)
  <2>1. /\ handler[c] = "write" /\ handler'[c] = "take" /\ replies'[c] = Append(done, handling[c].n)
        /\ UNCHANGED <<conn, wire, queue, reader, hand, handling, asked>>
    BY <1>9, <1>b DEF WriteReply, Proceed
  <2>2. Busy(c) = 1 /\ Busy(c)' = 0 /\ Pushing(c)' = Pushing(c) /\ Rest(c)' = Rest(c)
    BY <2>1 DEF Busy, Pushing, Rest
  <2>3. LineInv(c)'
    <3>1. Lined(all, Append(done, handling[c].n), 0, handling[c].n, frames, Pushing(c), hand[c].n,
                Rest(c))
      <4>1. Lined(all, done, 1, handling[c].n, frames, Pushing(c), hand[c].n, Rest(c))
        BY <1>d, <2>1, <2>2 DEF LineInv
      <4> HIDE DEF all, done, frames
      <4> QED BY <1>c, <1>e, <4>1, ReplyLined
    <3> QED BY <2>1, <2>2, <3>1 DEF LineInv
  <2>4. SentInv(c)'
    BY <1>d, <2>1 DEF SentInv
  <2> QED BY <1>d, <2>1, <2>3, <2>4 DEF LinkInv, PhaseInv
\* The handler ends: either it failed to answer a request, or there is none left.
<1>10. CASE WriteError(c) \/ QueueDrained(c)
  <2>1. /\ conn'[c] = "closed" /\ handler'[c] = "ended"
        /\ UNCHANGED <<wire, queue, reader, hand, handling, replies, asked>>
        /\ \/ handler[c] = "write"
           \/ handler[c] = "take" /\ frames = <<>> /\ queue[c].open = "no"
    BY <1>10, <1>b DEF WriteError, QueueDrained, HandlerReturns, Proceed
  <2>2. LineInv(c)' /\ SentInv(c)' /\ PhaseInv(c)'
    BY <1>d, <2>1 DEF LineInv, SentInv, PhaseInv
  <2>3. Lined(all, done, Busy(c), handling[c].n, frames, Pushing(c), hand[c].n, Rest(c))
    BY <1>d, <2>1 DEF LineInv
  <2>4. Increasing(all) /\ \A i \in 1..Len(all) : 1 <= all[i]
    BY <1>d DEF SentInv
  <2>5. Len(done) <= Len(all) /\ done = SubSeq(all, 1, Len(done))
    <3> HIDE DEF all, done, frames
    <3> QED BY <1>c, <1>e, <2>3, LinedPrefix
  <2>6. handling[c].n \in {0} \cup {done[i] : i \in 1..Len(done)} => done = all
    <3>1. CASE handler[c] = "write"
      <4>1. Busy(c) = 1
        BY <3>1 DEF Busy
      <4> HIDE DEF all, done, frames
      <4> QED BY <1>c, <1>e, <2>3, <2>4, <4>1, LinedBusy
    <3>2. CASE handler[c] = "take" /\ frames = <<>> /\ queue[c].open = "no"
      <4>1. reader[c] = "ended"
        BY <1>d, <3>2 DEF PhaseInv
      <4>2. Busy(c) = 0 /\ Pushing(c) = 0 /\ Rest(c) = {}
        BY <3>2, <4>1 DEF Busy, Pushing, Rest
      <4> HIDE DEF all, done, frames
      <4> QED BY <1>c, <2>3, <3>2, <4>2, LinedDone
    <3> QED BY <2>1, <3>1, <3>2
  <2>7. AnsweredInOrder(c)'
    BY <2>1, <2>5, <2>6 DEF AnsweredInOrder
  <2> QED BY <2>2, <2>7 DEF LinkInv
<1> QED BY <1>1, <1>2, <1>3, <1>4, <1>5, <1>6, <1>7, <1>8, <1>9, <1>10

\* The inductive invariant of the DevTools server, put together.
LEMMA CdpStep == CdpInv /\ [CdpNext]_cdpVars => CdpInv'
<1> SUFFICES ASSUME CdpInv, [CdpNext]_cdpVars PROVE CdpInv'
  OBVIOUS
<1>1. CdpTypes'
  BY CdpTypesStep DEF CdpInv
<1>2. BreakpointInv'
  BY BreakpointStep DEF CdpInv
<1>3. ASSUME NEW d \in Clients PROVE LinkInv(d)'
  <2>0. LinkInv(d) /\ CdpTypes
    BY DEF CdpInv
  <2>1. CASE UNCHANGED cdpVars
    BY <2>0, <2>1, OtherLinks DEF cdpVars, linkVars, readVars
  <2>2. CASE CdpNext
    <3>1. PICK c \in Clients :
            \/ Connect(c) \/ Leave(c)
            \/ \E what \in Methods \cup Others : Send(c, what)
            \/ ReadFrame(c) \/ ReadError(c) \/ Push(c)
            \/ Take(c) \/ DebuggerState(c) \/ SetBreakpoint(c) \/ Handle(c)
            \/ \E id \in 0..dbgState.last : RemoveBreakpoint(c, id)
            \/ WriteReply(c) \/ WriteError(c) \/ QueueDrained(c)
      BY <2>2 DEF CdpNext
    <3>2. CASE d = c
      BY <1>1, <3>1, <3>2, LinkStep
    <3>3. CASE d # c
      <4>1. d \in Clients \ {c}
        BY <3>3
      <4>2. /\ conn'[d] = conn[d] /\ wire'[d] = wire[d] /\ queue'[d] = queue[d]
            /\ reader'[d] = reader[d] /\ hand'[d] = hand[d] /\ handler'[d] = handler[d]
            /\ handling'[d] = handling[d] /\ replies'[d] = replies[d] /\ asked'[d] = asked[d]
        BY <2>0, <3>1, <4>1, OneLink
      <4> QED BY <2>0, <4>2, OtherLinks
    <3> QED BY <3>2, <3>3
  <2> QED BY <2>1, <2>2
<1> QED BY <1>1, <1>2, <1>3 DEF CdpInv

\* Before the first connection there is nothing to answer.
LEMMA CdpStarts == CdpInit => CdpInv
<1> SUFFICES ASSUME CdpInit PROVE CdpInv
  OBVIOUS
<1>0. NoFrame \in Frames /\ <<>> \in Seq(Frames) /\ <<>> \in Seq(Nat) /\ NoFrame.n = 0
  BY DEF NoFrame, Frames, Methods
<1>1. CdpTypes
  BY <1>0 DEF CdpInit, CdpTypes
<1>2. BreakpointInv
  <2>1. dbgState = [ids |-> {}, last |-> -1] /\ given = {}
    BY DEF CdpInit, NoBreakpoints
  <2> QED BY <2>1 DEF BreakpointInv
<1>3. ASSUME NEW c \in Clients PROVE LinkInv(c)
  <2>1. /\ conn[c] = "away" /\ wire[c] = <<>> /\ queue[c].frames = <<>> /\ queue[c].open = "yes"
        /\ reader[c] = "none" /\ handler[c] = "none" /\ replies[c] = <<>>
        /\ asked[c].all = <<>> /\ asked[c].closed = "no" /\ asked[c].sent = 0
    BY DEF CdpInit
  <2>2. Busy(c) = 0 /\ Pushing(c) = 0 /\ Rest(c) = {}
    BY <2>1 DEF Busy, Pushing, Rest, Unread
  <2>3. ASSUME NEW h, NEW x PROVE Lined(<<>>, <<>>, 0, h, <<>>, 0, x, {})
    <3>1. Len(<<>>) = 0 /\ (0 + 0 + 0 + 0 + 1)..0 = {}
      OBVIOUS
    <3> QED BY <3>1 DEF Lined
  <2>4. LineInv(c)
    BY <2>1, <2>2, <2>3 DEF LineInv
  <2>5. SentInv(c)
    BY <2>1 DEF SentInv, Increasing, Numbered, HasClose
  <2> QED BY <2>1, <2>4, <2>5 DEF LinkInv, PhaseInv
<1> QED BY <1>1, <1>2, <1>3 DEF CdpInv

\* Requests are answered in order, each once, and all of them if the answers can be written;
\* a breakpoint stays until it is removed, and no number is given twice: for any number of
\* clients, frames and places in the queue.
THEOREM DevToolsAreToldRight == CdpSpec => []DevToolsToldRight
<1>1. CdpInv => DevToolsToldRight
  <2> SUFFICES ASSUME CdpInv PROVE DevToolsToldRight
    OBVIOUS
  <2>1. BreakpointsKept
    <3>1. dbgState = [ids |-> {b.id : b \in given}, last |-> dbgState.last]
      BY DEF CdpInv, BreakpointInv
    <3>2. dbgState.ids = {b.id : b \in given}
      BY <3>1
    <3> QED BY <3>2 DEF CdpInv, BreakpointInv, BreakpointsKept
  <2>2. ASSUME NEW c \in Clients PROVE AnsweredInOrder(c)
    <3>1. LineInv(c) /\ (handler[c] = "ended" => AnsweredInOrder(c))
      BY DEF CdpInv, LinkInv
    <3>2. ASSUME handler[c] # "ended" PROVE AnsweredInOrder(c)
      <4>1. asked[c].all \in Seq(Nat) /\ replies[c] \in Seq(Nat) /\ queue[c].frames \in Seq(Frames)
        <5>1. /\ asked[c] \in [all : Seq(Nat), sent : Nat, closed : {"yes", "no"}]
              /\ queue[c] \in [frames : Seq(Frames), open : {"yes", "no"}]
              /\ replies[c] \in Seq(Nat)
          BY DEF CdpInv, CdpTypes
        <5> QED BY <5>1
      <4>2. Busy(c) \in {0, 1} /\ Pushing(c) \in {0, 1}
        BY DEF Busy, Pushing
      <4>3. Lined(asked[c].all, replies[c], Busy(c), handling[c].n, queue[c].frames, Pushing(c),
                  hand[c].n, Rest(c))
        BY <3>1, <3>2 DEF LineInv
      <4>4. /\ Len(replies[c]) <= Len(asked[c].all)
            /\ replies[c] = SubSeq(asked[c].all, 1, Len(replies[c]))
        BY <4>1, <4>2, <4>3, LinedPrefix
      <4> QED BY <3>2, <4>4 DEF AnsweredInOrder
    <3> QED BY <3>1, <3>2
  <2> QED BY <2>1, <2>2 DEF DevToolsToldRight
<1> QED BY <1>1, CdpStarts, CdpStep, PTL DEF CdpSpec

-----------------------------------------------------------------------------
(* What a teardown leaves behind. *)

\* Session i and its broadcasters are left as the teardown that claimed i must leave them:
\* the claim ends with the session disposed, and the duty to close a broadcaster with the
\* broadcaster empty.
DutiesKept(i) ==
  /\ Claimers(i) # {} => Claimers(i)' # {} \/ sess'[i] = "disposed"
  /\ \A s \in Kinds : WillClose(i, s) => WillClose(i, s)' \/ subs'[<<i, s>>] = {}

\* There are two broadcasters, and a teardown closes one after the other.
LEMMA TwoStreams ==
  /\ Len(Streams) = 2
  /\ Streams[1] = "console" /\ Streams[2] = "network"
  /\ Kinds = {Streams[1], Streams[2]}
BY DEF Streams, Kinds

LEMMA UpTo ==
  /\ 1 \in 1..2 /\ 2 \in 1..2
  /\ \A m \in 0..2 : m < 2 => m \in {0, 1}
  /\ \A n : n \notin 1..0
  /\ \A m \in {0, 1} : \A n \in 1..(m + 1) : n \in 1..m \/ n = m + 1
OBVIOUS

\* A step that leaves the teardowns alone, or only begins one that has nothing in hand.
LEMMA DutiesFrame ==
  ASSUME ServiceTypeOK, NEW i \in Ids, UNCHANGED <<cur, muted>>,
         \A t \in Teardowns : i \in work[t] => i \in work'[t]
  PROVE  DutiesKept(i)
<1>1. ASSUME NEW t \in Teardowns, t \in Claimers(i) PROVE t \in Claimers(i)'
  BY <1>1 DEF Claimers
<1>2. ASSUME NEW s \in Kinds, WillClose(i, s) PROVE WillClose(i, s)'
  BY <1>2 DEF WillClose
<1>3. Claimers(i) \subseteq Teardowns
  BY DEF Claimers
<1> QED BY <1>1, <1>2, <1>3 DEF DutiesKept

\* A claimed session is disposed in the end or still claimed, and its streams are ended by
\* then or still to be ended, whatever else goes on, shutdown included.
THEOREM TeardownsKeepTheirDuties == ServiceSpec => [][\A i \in Ids : DutiesKept(i)]_serviceVars
<1> DEFINE Kept == \A i \in Ids : DutiesKept(i)
<1>1. ServiceTypeOK /\ [ServiceNext]_serviceVars => [Kept]_serviceVars
  <2> SUFFICES ASSUME ServiceTypeOK, ServiceNext, NEW i \in Ids PROVE DutiesKept(i)
    OBVIOUS
  <2> USE DEF ServiceTypeOK
  <2>1. ASSUME NEW t \in Teardowns, TakeNext(t) PROVE DutiesKept(i)
    <3>1. PICK j \in work[t] : /\ cur' = [cur EXCEPT ![t] = j]
                               /\ work' = [work EXCEPT ![t] = @ \ {j}]
      BY <2>1 DEF TakeNext
    <3>2. cur[t] = NoId /\ muted' = [muted EXCEPT ![t] = 0] /\ NoId \notin Ids
      BY <2>1, ServiceConstants DEF TakeNext
    <3>3. ASSUME NEW u \in Teardowns, u \in Claimers(i) PROVE u \in Claimers(i)'
      BY <3>1, <3>2, <3>3 DEF Claimers
    <3>4. ASSUME NEW s \in Kinds, NEW u \in Teardowns, i \in work[u] PROVE WillClose(i, s)'
      <4>1. CASE u = t /\ i = j
        <5>1. cur'[t] = i /\ muted'[t] = 0
          BY <3>1, <3>2, <4>1
        <5>2. \A n \in 1..muted'[t] : Streams[n] # s
          BY <5>1, UpTo
        <5> QED BY <5>1, <5>2 DEF WillClose
      <4>2. CASE ~(u = t /\ i = j)
        <5>1. i \in work'[u]
          BY <3>1, <3>4, <4>2
        <5> QED BY <5>1 DEF WillClose
      <4> QED BY <4>1, <4>2
    <3>5. ASSUME NEW s \in Kinds, NEW u \in Teardowns, cur[u] = i,
                 \A n \in 1..muted[u] : Streams[n] # s
          PROVE  WillClose(i, s)'
      <4>1. u # t /\ cur'[u] = i /\ muted'[u] = muted[u]
        BY <3>1, <3>2, <3>5
      <4> QED BY <3>5, <4>1 DEF WillClose
    <3>6. \A s \in Kinds : WillClose(i, s) => WillClose(i, s)'
      BY <3>4, <3>5 DEF WillClose
    <3>7. Claimers(i) \subseteq Teardowns
      BY DEF Claimers
    <3> QED BY <3>3, <3>6, <3>7 DEF DutiesKept
  <2>2. ASSUME NEW t \in Teardowns, CloseAll(t) PROVE DutiesKept(i)
    <3> DEFINE m == muted[t]
    <3>1. /\ cur[t] # NoId /\ m < Len(Streams) /\ UNCHANGED <<work, cur>>
          /\ muted' = [muted EXCEPT ![t] = m + 1]
          /\ subs' = [subs EXCEPT ![<<cur[t], Streams[m + 1]>>] = {}]
      BY <2>2 DEF CloseAll
    <3>2. m \in 0..2 /\ m < 2
      BY <3>1, TwoStreams
    <3> HIDE DEF m
    <3>7. m \in {0, 1}
      BY <3>2, UpTo, Zenon
    <3>3. Claimers(i)' = Claimers(i)
      BY <3>1 DEF Claimers
    <3>4. ASSUME NEW s \in Kinds, NEW u \in Teardowns, i \in work[u] PROVE WillClose(i, s)'
      BY <3>1, <3>4 DEF WillClose
    <3>5. ASSUME NEW s \in Kinds, NEW u \in Teardowns, cur[u] = i,
                 \A n \in 1..muted[u] : Streams[n] # s
          PROVE  WillClose(i, s)' \/ subs'[<<i, s>>] = {}
      <4>1. CASE u # t
        <5>1. cur'[u] = i /\ muted'[u] = muted[u]
          BY <3>1, <4>1, <3>5
        <5> QED BY <3>5, <5>1 DEF WillClose
      <4>2. CASE u = t /\ Streams[m + 1] = s
        <5>1. <<i, s>> \in Broadcasters
          BY DEF Broadcasters
        <5> QED BY <3>1, <3>5, <4>2, <5>1
      <4>3. CASE u = t /\ Streams[m + 1] # s
        <5>1. muted'[t] = m + 1 /\ cur'[t] = i
          BY <3>1, <3>5, <4>3
        <5>2. \A n \in 1..(m + 1) : Streams[n] # s
          <6>1. \A n \in 1..(m + 1) : n \in 1..m \/ n = m + 1
            BY <3>7, UpTo, Zenon
          <6>2. \A n \in 1..m : Streams[n] # s
            BY <3>5, <4>3 DEF m
          <6> QED BY <4>3, <6>1, <6>2
        <5> QED BY <5>1, <5>2 DEF WillClose
      <4> QED BY <4>1, <4>2, <4>3
    <3>6. \A s \in Kinds : WillClose(i, s) => WillClose(i, s)' \/ subs'[<<i, s>>] = {}
      BY <3>4, <3>5 DEF WillClose
    <3> QED BY <3>3, <3>6 DEF DutiesKept
  <2>3. ASSUME NEW t \in Teardowns, DisposeSession(t) PROVE DutiesKept(i)
    <3>1. /\ cur[t] # NoId /\ muted[t] = 2 /\ UNCHANGED <<work, muted>>
          /\ sess' = [sess EXCEPT ![cur[t]] = "disposed"]
          /\ cur' = [cur EXCEPT ![t] = NoId]
      BY <2>3, TwoStreams DEF DisposeSession
    <3>2. \A u \in Teardowns : u # t => cur'[u] = cur[u]
      BY <3>1
    <3>3. CASE cur[t] = i
      <4>1. sess'[i] = "disposed"
        BY <3>1, <3>3
      <4>2. ASSUME NEW s \in Kinds, WillClose(i, s) PROVE WillClose(i, s)'
        <5>1. PICK u \in Teardowns :
                \/ i \in work[u]
                \/ cur[u] = i /\ \A n \in 1..muted[u] : Streams[n] # s
          BY <4>2 DEF WillClose
        <5>2. ~ \A n \in 1..2 : Streams[n] # s
          BY TwoStreams, UpTo, Zenon
        <5>3. CASE i \in work[u]
          BY <3>1, <5>3 DEF WillClose
        <5>4. CASE i \notin work[u]
          <6>1. u # t
            BY <3>1, <5>1, <5>2, <5>4
          <6>2. cur'[u] = i /\ \A n \in 1..muted'[u] : Streams[n] # s
            BY <3>1, <3>2, <5>1, <5>4, <6>1
          <6> QED BY <6>2 DEF WillClose
        <5> QED BY <5>3, <5>4
      <4> QED BY <4>1, <4>2 DEF DutiesKept
    <3>4. CASE cur[t] # i
      <4>1. \A u \in Teardowns : cur[u] = i => cur'[u] = i
        BY <3>2, <3>4
      <4>2. Claimers(i) \subseteq Claimers(i)'
        BY <3>1, <4>1 DEF Claimers
      <4>3. \A s \in Kinds : WillClose(i, s) => WillClose(i, s)'
        BY <3>1, <4>1 DEF WillClose
      <4> QED BY <4>2, <4>3 DEF DutiesKept
    <3> QED BY <3>3, <3>4
  <2>4. ASSUME NEW t \in Teardowns, NEW S, Claim(t, S) PROVE DutiesKept(i)
    <3>1. work[t] = {} /\ work' = [work EXCEPT ![t] = S] /\ UNCHANGED <<cur, muted>>
      BY <2>4 DEF Claim
    <3>2. \A u \in Teardowns : i \in work[u] => i \in work'[u]
      BY <3>1
    <3> QED BY <3>1, <3>2, DutiesFrame
  <2>5. ASSUME UNCHANGED <<work, cur, muted>> PROVE DutiesKept(i)
    BY <2>5, DutiesFrame
  <2> USE DEF lifeVars, opVars, tearVars, subVars
  <2>6. ASSUME NEW j \in Ids, EngineCreates(j) \/ RegisterEntry(j) \/ TimePasses(j)
        PROVE  DutiesKept(i)
    BY <2>5, <2>6 DEF EngineCreates, RegisterEntry, TimePasses
  <2>7. ASSUME NEW o \in Ops, OpStep(o) PROVE DutiesKept(i)
    BY <2>5, <2>7 DEF OpStep, Acquire, Pin, AcquireFails, Release
  <2>8. ASSUME NEW c \in Closers, NEW j \in Ids, CloseSession(c, j) PROVE DutiesKept(i)
    BY <2>4, <2>8 DEF CloseSession, Teardowns
  <2>9. ASSUME CleanupIdle PROVE DutiesKept(i)
    BY <2>4, <2>9 DEF CleanupIdle, Teardowns
  <2>10. ASSUME JanitorReturns PROVE DutiesKept(i)
    BY <2>5, <2>10 DEF JanitorReturns
  <2>11. ASSUME NEW x \in Subscribers, SubscriberStep(x) PROVE DutiesKept(i)
    BY <2>5, <2>11 DEF SubscriberStep, LookUp, Subscribe, StreamEnds, ClientDisconnects
  <2>12. ASSUME ShutdownStep PROVE DutiesKept(i)
    BY <2>5, <2>12 DEF ShutdownStep, CloseDone, LockAll, DisposeEntry, Finish
  <2> QED BY <2>1, <2>2, <2>3, <2>6, <2>7, <2>8, <2>9, <2>10, <2>11, <2>12
          DEF ServiceNext, TeardownStep
<1> HIDE DEF Kept
<1>2. RegistryInv => ServiceTypeOK
  BY DEF RegistryInv
<1>3. ServiceSpec => [][Kept]_serviceVars
  BY <1>1, <1>2, RegistryHolds, PTL DEF ServiceSpec
<1> QED BY <1>3 DEF Kept

=============================================================================
