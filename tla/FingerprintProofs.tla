-------------------------- MODULE FingerprintProofs --------------------------
(***************************************************************************)
(* Proofs about what gives sessions their identity: the two files of an    *)
(* update agree unless it was cut short, and a hot reload takes effect,    *)
(* for every number of generators, versions and faults (FingerprintData);  *)
(* a batch of sessions is kept apart, for any number of creators, any      *)
(* fingerprints and any relation of being far enough apart, symmetric or   *)
(* not (Correlator), and the measured one keeps devices apart, for any     *)
(* generated fingerprints (SessionBatch); a lookup of a canvas value never *)
(* sees the gap of a reload, nor data that a reload before it replaced     *)
(* (CanvasDataset); a session resumed from a trusted profile is like the   *)
(* saved one (ProfileStore); a fingerprint that is served is of one device *)
(* whatever network was published (Fingerprint).                           *)
(***************************************************************************)
EXTENDS Fingerprint, FingerprintData, SessionBatch, CanvasDataset, ProfileStore, TLAPS,
        FiniteSetTheorems

-----------------------------------------------------------------------------
(* FingerprintData.                                                        *)

Contents == {Torn, Absent} \cup Versions
Cached == {0} \cup Versions

\* The updater has its version and is at work; it has written some of the files; the
\* marker's file is the one of its version.
AtWork == {"fetch", "open real", "write real", "parse", "open profiles", "write profiles",
           "clear", "reload", "stats"}
Halfway == {"write real", "parse", "open profiles", "write profiles"}
MarkerWritten == {"parse", "open profiles", "write profiles", "clear", "reload"}
UpdaterPcs == AtWork \cup {"idle", "query"}

\* The types that the arguments need.
DataTypes ==
  /\ latest \in Versions
  /\ file \in [real : Contents, profiles : Contents]
  /\ upd \in [pc : UpdaterPcs, ver : Cached]
  /\ real \in Cached
  /\ load \in [Loaders -> [pc : {"none", "look", "read", "store", "store late"},
                           seen : Cached]]
  /\ reloaded \in Cached
  /\ written \in {"all", "part"} /\ stored \in {"fresh", "late"}

\* Between the two writes the update is marked as cut short, and from the first on
\* the marker's file holds the version that the update works on.
WritingInv ==
  /\ upd.pc \in Halfway => written = "part"
  /\ upd.pc \in MarkerWritten => file.real = upd.ver

\* No version is older than the one that the last reload was for.
NoneOlder ==
  /\ upd.ver <= latest /\ reloaded <= latest
  /\ file.real <= latest
  /\ reloaded # 0 =>
       /\ upd.pc \in AtWork => reloaded <= upd.ver
       /\ file.real # Torn => reloaded <= file.real

\* What the last reload has to be measured by: while one is under way, its version.
Due == IF upd.pc = "reload" THEN upd.ver ELSE reloaded

\* What is cached, or is about to be, is not older than that, unless it was read before.
CacheInv ==
  /\ upd.pc \in AtWork => upd.ver \in Versions
  /\ upd.pc = "reload" => reloaded = 0
  /\ upd.pc = "reload" /\ stored = "fresh" /\ real # 0 => upd.ver <= real
  /\ reloaded # 0 /\ stored = "fresh" => reloaded <= real
  /\ \A l \in Loaders :
       /\ load[l].pc \in {"store", "store late"} => load[l].seen \in Versions
       /\ load[l].pc = "store" => Due <= load[l].seen

\* What the arithmetic needs of the types.
Numbered ==
  /\ latest \in Nat /\ 1 <= latest
  /\ reloaded \in Nat /\ real \in Nat
  /\ upd.ver \in Nat
  /\ file.real \in Int
  /\ Torn \in Int /\ Torn <= latest /\ 0 <= latest

DataInv == DataTypes /\ WritingInv /\ FilesAgree /\ NoneOlder /\ CacheInv

-----------------------------------------------------------------------------
(* Versions are positive numbers, 0 stands for no file or no cache. *)
LEMMA VersionNumbers ==
  /\ \A v \in Versions : v \in Nat /\ v # 0 /\ 1 <= v
  /\ 1 \in Versions
  /\ \A v \in Versions : v \in Cached /\ v \in Contents
  /\ \A v \in Cached : v \in Nat /\ (v # 0 => v \in Versions)
  /\ \A c \in Contents : c \in Int /\ (c # Torn => c \in Cached)
  /\ 0 \in Cached /\ Absent \in Contents /\ Torn \in Contents
  /\ Absent = 0 /\ Torn \in Int /\ Torn < 0
<1> QED
  BY DataConstants DEF Versions, Cached, Contents, Torn, Absent

(* Which program counters of the updater lie between its writes. *)
LEMMA DataPlaces ==
  /\ "idle" \notin AtWork /\ "idle" \notin Halfway /\ "idle" \notin MarkerWritten
  /\ "query" \notin AtWork /\ "query" \notin Halfway /\ "query" \notin MarkerWritten
  /\ "fetch" \in AtWork /\ "fetch" \notin Halfway /\ "fetch" \notin MarkerWritten
  /\ "open real" \in AtWork /\ "open real" \notin Halfway /\ "open real" \notin MarkerWritten
  /\ "write real" \in AtWork /\ "write real" \in Halfway /\ "write real" \notin MarkerWritten
  /\ "parse" \in AtWork /\ "parse" \in Halfway /\ "parse" \in MarkerWritten
  /\ "open profiles" \in AtWork /\ "open profiles" \in Halfway /\ "open profiles" \in MarkerWritten
  /\ "write profiles" \in AtWork /\ "write profiles" \in Halfway /\ "write profiles" \in MarkerWritten
  /\ "clear" \in AtWork /\ "clear" \notin Halfway /\ "clear" \in MarkerWritten
  /\ "reload" \in AtWork /\ "reload" \notin Halfway /\ "reload" \in MarkerWritten
  /\ "stats" \in AtWork /\ "stats" \notin Halfway /\ "stats" \notin MarkerWritten
<1> QED
  BY DEF AtWork, Halfway, MarkerWritten

(* For the provers that do not know it. *)
LEMMA LeqReflexive == \A n \in Nat : n <= n
<1> QED
  OBVIOUS

(* What is compared is a number. *)
LEMMA Numbers == DataTypes => Numbered
<1> SUFFICES ASSUME DataTypes PROVE Numbered
  OBVIOUS
<1>1. latest \in Nat /\ 1 <= latest
  BY VersionNumbers DEF DataTypes
<1>2. reloaded \in Nat /\ real \in Nat /\ upd.ver \in Nat /\ file.real \in Int
  BY VersionNumbers DEF DataTypes
<1> QED
  BY <1>1, <1>2 DEF Numbered, Torn

(* Nothing has been written, read or loaded yet. *)
LEMMA InitEstablishes == DataInit => DataInv
<1> SUFFICES ASSUME DataInit PROVE DataInv
  OBVIOUS
<1>1. DataTypes
  BY VersionNumbers, DataConstants DEF DataInit, Cold, DataTypes, IdleUpdater, NoLoad, UpdaterPcs, AtWork
<1>2. WritingInv /\ FilesAgree /\ NoneOlder
  BY VersionNumbers, DataConstants DEF DataInit, Cold, IdleUpdater, WritingInv, FilesAgree, NoneOlder, Halfway, MarkerWritten, AtWork
<1>3. CacheInv
  BY VersionNumbers DEF DataInit, Cold, IdleUpdater, NoLoad, CacheInv, AtWork, Due
<1> QED
  BY <1>1, <1>2, <1>3 DEF DataInv

\* The steps of the updater that write nothing.
LEMMA QuietUpdaterSteps ==
  ASSUME DataInv, Publish \/ Check \/ Query \/ Fetch \/ ParseProfiles \/ UpdateFails
  PROVE  DataInv'
<1>1. CASE Publish
  <2>1. Numbered /\ NoneOlder /\ WritingInv /\ CacheInv
    BY Numbers DEF DataInv
  <2>2. /\ upd'.pc = upd.pc /\ upd'.ver = upd.ver /\ file'.real = file.real
       /\ latest' = latest + 1 /\ reloaded' = reloaded
    BY <1>1, <2>1 DEF Publish, DataInv, DataTypes, Numbered
  <2>3. DataTypes'
    <3>1. latest + 1 \in Versions
      <4>1. latest \in 1..MaxVersion /\ latest < MaxVersion /\ MaxVersion \in Nat
        BY <1>1, DataConstants DEF Publish, DataInv, DataTypes, Versions
      <4> QED
        BY <4>1 DEF Versions
    <3> QED
      BY <1>1, <3>1 DEF DataInv, Publish, CacheInv, DataTypes, UpdaterPcs, AtWork
  <2>4. WritingInv' /\ FilesAgree'
    BY <1>1, <2>1, <2>2, DataPlaces DEF DataInv, DataTypes, Publish, WritingInv, FilesAgree
  <2>5. NoneOlder'
    BY <2>1, <2>2 DEF Numbered, NoneOlder
  <2>6. CacheInv'
    BY <1>1, <2>1, <2>2, DataPlaces, VersionNumbers DEF Publish, Numbered, NoneOlder, CacheInv, Due
  <2> QED
    BY <2>3, <2>4, <2>5, <2>6 DEF DataInv
<1>2. CASE Check
  <2>1. Numbered /\ NoneOlder /\ WritingInv /\ CacheInv
    BY Numbers DEF DataInv
  <2>2. /\ upd'.pc = "query" /\ upd'.ver = upd.ver /\ file'.real = file.real
       /\ latest' = latest /\ reloaded' = reloaded
       /\ upd'.pc \notin AtWork
    BY <1>2, <2>1, DataPlaces DEF Check, DataInv, DataTypes, Numbered
  <2>3. DataTypes'
    BY <1>2, VersionNumbers, DataConstants DEF DataInv, Check, CacheInv, DataTypes, UpdaterPcs, AtWork
  <2>4. WritingInv' /\ FilesAgree'
    BY <1>2, <2>1, <2>2, DataPlaces DEF DataInv, DataTypes, Check, WritingInv, FilesAgree
  <2>5. NoneOlder'
    BY <2>1, <2>2 DEF Numbered, NoneOlder
  <2>6. CacheInv'
    BY <1>2, <2>1, <2>2, DataPlaces, VersionNumbers DEF Check, Numbered, NoneOlder, CacheInv, Due
  <2> QED
    BY <2>3, <2>4, <2>5, <2>6 DEF DataInv
<1>3. CASE Query
  <2>1. Numbered /\ NoneOlder /\ WritingInv /\ CacheInv
    BY Numbers DEF DataInv
  <2>2. /\ upd'.pc = "fetch" /\ upd'.ver = latest /\ file'.real = file.real
       /\ latest' = latest /\ reloaded' = reloaded
       /\ upd'.pc \in AtWork
    BY <1>3, <2>1, DataPlaces DEF Query, DataInv, DataTypes, Numbered
  <2>3. DataTypes'
    BY <1>3, VersionNumbers, DataConstants DEF DataInv, Query, CacheInv, DataTypes, UpdaterPcs, AtWork
  <2>4. WritingInv' /\ FilesAgree'
    BY <1>3, <2>1, <2>2, DataPlaces DEF DataInv, DataTypes, Query, WritingInv, FilesAgree
  <2>5. NoneOlder'
    BY <2>1, <2>2 DEF Numbered, NoneOlder
  <2>6. CacheInv'
    BY <1>3, <2>1, <2>2, DataPlaces, VersionNumbers DEF Query, Numbered, NoneOlder, CacheInv, Due, DataInv, DataTypes
  <2> QED
    BY <2>3, <2>4, <2>5, <2>6 DEF DataInv
<1>4. CASE Fetch
  <2>1. Numbered /\ NoneOlder /\ WritingInv /\ CacheInv
    BY Numbers DEF DataInv
  <2>2. /\ upd'.pc = "open real" /\ upd'.ver = upd.ver /\ file'.real = file.real
       /\ latest' = latest /\ reloaded' = reloaded
       /\ upd'.pc \in AtWork
       /\ upd.pc \in AtWork
       /\ upd.pc = "fetch"
    BY <1>4, <2>1, DataPlaces DEF Fetch, DataInv, DataTypes, Numbered
  <2>3. DataTypes'
    BY <1>4, VersionNumbers, DataConstants DEF DataInv, Fetch, CacheInv, DataTypes, UpdaterPcs, AtWork
  <2>4. WritingInv' /\ FilesAgree'
    BY <1>4, <2>1, <2>2, DataPlaces DEF DataInv, DataTypes, Fetch, WritingInv, FilesAgree
  <2>5. NoneOlder'
    BY <2>1, <2>2 DEF Numbered, NoneOlder
  <2>6. CacheInv'
    BY <1>4, <2>1, <2>2, DataPlaces, VersionNumbers DEF Fetch, Numbered, NoneOlder, CacheInv, Due
  <2> QED
    BY <2>3, <2>4, <2>5, <2>6 DEF DataInv
<1>5. CASE ParseProfiles
  <2>1. Numbered /\ NoneOlder /\ WritingInv /\ CacheInv
    BY Numbers DEF DataInv
  <2>2. /\ upd'.pc = "open profiles" /\ upd'.ver = upd.ver /\ file'.real = file.real
       /\ latest' = latest /\ reloaded' = reloaded
       /\ upd'.pc \in AtWork
       /\ upd.pc \in AtWork
       /\ upd.pc = "parse"
    BY <1>5, <2>1, DataPlaces DEF ParseProfiles, DataInv, DataTypes, Numbered
  <2>3. DataTypes'
    BY <1>5, VersionNumbers, DataConstants DEF DataInv, ParseProfiles, CacheInv, DataTypes, UpdaterPcs, AtWork
  <2>4. WritingInv' /\ FilesAgree'
    BY <1>5, <2>1, <2>2, DataPlaces DEF DataInv, DataTypes, ParseProfiles, WritingInv, FilesAgree
  <2>5. NoneOlder'
    BY <2>1, <2>2 DEF Numbered, NoneOlder
  <2>6. CacheInv'
    BY <1>5, <2>1, <2>2, DataPlaces, VersionNumbers DEF ParseProfiles, Numbered, NoneOlder, CacheInv, Due
  <2> QED
    BY <2>3, <2>4, <2>5, <2>6 DEF DataInv
<1>6. CASE UpdateFails
  <2>1. Numbered /\ NoneOlder /\ WritingInv /\ CacheInv
    BY Numbers DEF DataInv
  <2>2. /\ upd'.pc = "idle" /\ upd'.ver = 0 /\ file'.real = file.real
       /\ latest' = latest /\ reloaded' = reloaded
       /\ upd'.pc \notin AtWork
    BY <1>6, <2>1, DataPlaces DEF UpdateFails, FailingSteps, IdleUpdater, DataInv, DataTypes, Numbered
  <2>3. DataTypes'
    BY <1>6, VersionNumbers, DataConstants DEF DataInv, UpdateFails, FailingSteps, IdleUpdater, CacheInv, DataTypes, UpdaterPcs, AtWork
  <2>4. WritingInv' /\ FilesAgree'
    BY <1>6, <2>1, <2>2, DataPlaces DEF DataInv, DataTypes, UpdateFails, FailingSteps, IdleUpdater, WritingInv, FilesAgree
  <2>5. NoneOlder'
    <3>0. upd'.ver <= latest'
      BY <2>1, <2>2 DEF Numbered, NoneOlder
    <3>1. reloaded' <= latest' /\ file'.real <= latest'
      BY <2>1, <2>2 DEF Numbered, NoneOlder
    <3>2. reloaded' # 0 => (upd'.pc \in AtWork => reloaded' <= upd'.ver)
      BY <2>1, <2>2 DEF Numbered, NoneOlder
    <3>3. reloaded' # 0 => (file'.real # Torn => reloaded' <= file'.real)
      BY <2>1, <2>2 DEF Numbered, NoneOlder
    <3> QED
      BY <3>0, <3>1, <3>2, <3>3 DEF NoneOlder
  <2>6. CacheInv'
    BY <1>6, <2>1, <2>2, DataPlaces, VersionNumbers DEF UpdateFails, FailingSteps, IdleUpdater, Numbered, NoneOlder, CacheInv, Due
  <2> QED
    BY <2>3, <2>4, <2>5, <2>6 DEF DataInv
<1> QED
  BY <1>1, <1>2, <1>3, <1>4, <1>5, <1>6

(* The updater's truncations and writes of the two files. *)
LEMMA WritesKeepInv ==
  ASSUME DataInv, OpenReal \/ WriteReal \/ OpenProfiles \/ WriteProfiles
  PROVE  DataInv'
<1>1. CASE OpenReal
  <2>1. Numbered /\ NoneOlder /\ WritingInv /\ CacheInv
    BY Numbers DEF DataInv
  <2>2. /\ upd'.pc = "write real" /\ upd'.ver = upd.ver /\ file'.real = Torn
       /\ latest' = latest /\ reloaded' = reloaded
       /\ upd'.pc \in AtWork
       /\ upd.pc \in AtWork
       /\ upd.pc = "open real"
    BY <1>1, <2>1, DataPlaces DEF OpenReal, Truncate, DataInv, DataTypes, Numbered
  <2>3. DataTypes'
    BY <1>1, VersionNumbers, DataConstants DEF DataInv, OpenReal, Truncate, CacheInv, DataTypes, UpdaterPcs, AtWork
  <2>4. WritingInv' /\ FilesAgree'
    BY <1>1, <2>1, <2>2, DataPlaces DEF DataInv, DataTypes, OpenReal, Truncate, WritingInv, FilesAgree
  <2>5. NoneOlder'
    <3>0. upd'.ver <= latest'
      BY <2>1, <2>2 DEF Numbered, NoneOlder
    <3>1. reloaded' <= latest' /\ file'.real <= latest'
      BY <2>1, <2>2 DEF Numbered, NoneOlder
    <3>2. reloaded' # 0 => (upd'.pc \in AtWork => reloaded' <= upd'.ver)
      BY <2>1, <2>2 DEF Numbered, NoneOlder
    <3>3. reloaded' # 0 => (file'.real # Torn => reloaded' <= file'.real)
      BY <2>1, <2>2 DEF Numbered, NoneOlder
    <3> QED
      BY <3>0, <3>1, <3>2, <3>3 DEF NoneOlder
  <2>6. CacheInv'
    BY <1>1, <2>1, <2>2, DataPlaces, VersionNumbers DEF OpenReal, Truncate, Numbered, NoneOlder, CacheInv, Due
  <2> QED
    BY <2>3, <2>4, <2>5, <2>6 DEF DataInv
<1>2. CASE WriteReal
  <2>1. Numbered /\ NoneOlder /\ WritingInv /\ CacheInv
    BY Numbers DEF DataInv
  <2>2. /\ upd'.pc = "parse" /\ upd'.ver = upd.ver /\ file'.real = upd.ver
       /\ latest' = latest /\ reloaded' = reloaded
       /\ upd'.pc \in AtWork
       /\ upd.pc \in AtWork
       /\ upd.pc = "write real"
    BY <1>2, <2>1, DataPlaces DEF WriteReal, Write, DataInv, DataTypes, Numbered
  <2>3. DataTypes'
    BY <1>2, VersionNumbers, DataConstants DEF DataInv, WriteReal, Write, CacheInv, DataTypes, UpdaterPcs, AtWork
  <2>4. WritingInv' /\ FilesAgree'
    BY <1>2, <2>1, <2>2, DataPlaces DEF DataInv, DataTypes, WriteReal, Write, WritingInv, FilesAgree
  <2>5. NoneOlder'
    BY <2>1, <2>2 DEF Numbered, NoneOlder, WritingInv
  <2>6. CacheInv'
    BY <1>2, <2>1, <2>2, DataPlaces, VersionNumbers DEF WriteReal, Write, Numbered, NoneOlder, CacheInv, Due
  <2> QED
    BY <2>3, <2>4, <2>5, <2>6 DEF DataInv
<1>3. CASE OpenProfiles
  <2>1. Numbered /\ NoneOlder /\ WritingInv /\ CacheInv
    BY Numbers DEF DataInv
  <2>2. /\ upd'.pc = "write profiles" /\ upd'.ver = upd.ver /\ file'.real = file.real
       /\ latest' = latest /\ reloaded' = reloaded
       /\ upd'.pc \in AtWork
       /\ upd.pc \in AtWork
       /\ upd.pc = "open profiles"
    BY <1>3, <2>1, DataPlaces DEF OpenProfiles, Truncate, DataInv, DataTypes, Numbered
  <2>3. DataTypes'
    BY <1>3, VersionNumbers, DataConstants DEF DataInv, OpenProfiles, Truncate, CacheInv, DataTypes, UpdaterPcs, AtWork
  <2>4. WritingInv' /\ FilesAgree'
    BY <1>3, <2>1, <2>2, DataPlaces DEF DataInv, DataTypes, OpenProfiles, Truncate, WritingInv, FilesAgree
  <2>5. NoneOlder'
    BY <2>1, <2>2 DEF Numbered, NoneOlder
  <2>6. CacheInv'
    BY <1>3, <2>1, <2>2, DataPlaces, VersionNumbers DEF OpenProfiles, Truncate, Numbered, NoneOlder, CacheInv, Due
  <2> QED
    BY <2>3, <2>4, <2>5, <2>6 DEF DataInv
<1>4. CASE WriteProfiles
  <2>1. Numbered /\ NoneOlder /\ WritingInv /\ CacheInv
    BY Numbers DEF DataInv
  <2>2. /\ upd'.pc = "clear" /\ upd'.ver = upd.ver /\ file'.real = file.real
       /\ latest' = latest /\ reloaded' = reloaded
       /\ upd'.pc \in AtWork
       /\ upd.pc \in AtWork
       /\ upd.pc = "write profiles"
    BY <1>4, <2>1, DataPlaces DEF WriteProfiles, Write, DataInv, DataTypes, Numbered
  <2>3. DataTypes'
    BY <1>4, VersionNumbers, DataConstants DEF DataInv, WriteProfiles, Write, CacheInv, DataTypes, UpdaterPcs, AtWork
  <2>4. WritingInv' /\ FilesAgree'
    BY <1>4, <2>1, <2>2, DataPlaces DEF DataInv, DataTypes, WriteProfiles, Write, WritingInv, FilesAgree
  <2>5. NoneOlder'
    BY <2>1, <2>2 DEF Numbered, NoneOlder
  <2>6. CacheInv'
    BY <1>4, <2>1, <2>2, DataPlaces, VersionNumbers DEF WriteProfiles, Write, Numbered, NoneOlder, CacheInv, Due
  <2> QED
    BY <2>3, <2>4, <2>5, <2>6 DEF DataInv
<1> QED
  BY <1>1, <1>2, <1>3, <1>4

(* A reload makes every load in progress late. *)
LEMMA ReloadKeepsInv ==
  ASSUME DataInv, StartReload
  PROVE  DataInv'
<1>1. Numbered /\ NoneOlder /\ WritingInv /\ CacheInv
  BY Numbers DEF DataInv
<1>2. /\ upd'.pc = "reload" /\ upd'.ver = upd.ver /\ file'.real = file.real
     /\ latest' = latest /\ reloaded' = 0
     /\ upd.pc = "clear"
  BY <1>1, DataPlaces DEF StartReload, LoadsFromNowOn, Looking, Loaders, Updater, DataInv, DataTypes, Numbered
<1>3. DataTypes'
  BY VersionNumbers, DataConstants DEF DataInv, StartReload, LoadsFromNowOn, Looking, Loaders, Updater, CacheInv, DataTypes, UpdaterPcs, AtWork
<1>4. WritingInv' /\ FilesAgree'
  BY <1>1, <1>2, DataPlaces DEF DataInv, DataTypes, StartReload, LoadsFromNowOn, Looking, Loaders, Updater, WritingInv, FilesAgree
<1>5. NoneOlder'
  BY <1>1, <1>2 DEF Numbered, NoneOlder
<1>6. CacheInv'
  BY <1>1, <1>2, DataPlaces, VersionNumbers DEF StartReload, LoadsFromNowOn, Looking, Loaders, Updater, Numbered, NoneOlder, CacheInv, Due
<1> QED
  BY <1>3, <1>4, <1>5, <1>6 DEF DataInv

\* One load gets on, and is not about to store anything older than is due.
LEMMA OneLoadChanges ==
  ASSUME DataTypes, CacheInv, NEW l \in Loaders, NEW r,
         load' = [load EXCEPT ![l] = r],
         UNCHANGED <<upd, real, reloaded, stored>>,
         r.pc # "store late",
         r.pc = "store" => r.seen \in Versions /\ Due <= r.seen
  PROVE  CacheInv'
<1>1. \A k \in Loaders : load'[k] = IF k = l THEN r ELSE load[k]
  BY DEF DataTypes
<1>2. Due' = Due
  BY DEF Due
<1>3. ASSUME NEW k \in Loaders
      PROVE  /\ load'[k].pc \in {"store", "store late"} => load'[k].seen \in Versions
             /\ load'[k].pc = "store" => Due <= load'[k].seen
  <2>1. CASE k = l
    BY <1>1, <2>1
  <2>2. CASE k # l
    BY <1>1, <2>2 DEF CacheInv
  <2> QED
    BY <2>1, <2>2
<1> QED
  BY <1>2, <1>3 DEF CacheInv

\* Where an updater and a load that have ended stand.
LEMMA EndedPlaces == NoLoad.pc = "none" /\ IdleUpdater.pc = "idle"
  BY DEF NoLoad, IdleUpdater

\* A load that ends leaves to the cache what it read, if anything; the updater may end too.
LEMMA EndedLoad ==
  ASSUME DataTypes, CacheInv, NEW l \in Loaders,
         load' = [load EXCEPT ![l] = NoLoad], UNCHANGED reloaded,
         upd' = upd \/ (upd.pc # "reload" /\ upd' = IdleUpdater),
         \/ UNCHANGED <<real, stored>>
         \/ /\ load[l].pc \in {"store", "store late"}
            /\ real' = load[l].seen
            /\ stored' = IF load[l].pc = "store late" THEN "late" ELSE stored
  PROVE  CacheInv'
<1>1. \A k \in Loaders : load'[k] = IF k = l THEN NoLoad ELSE load[k]
  BY DEF DataTypes
<1>2. upd' = upd \/ (upd.pc # "reload" /\ upd'.pc = "idle")
  BY EndedPlaces
<1>3. Due' = Due /\ (upd'.pc = "reload" => upd' = upd)
  BY <1>2 DEF Due
<1>4. upd'.pc \in AtWork => upd'.ver \in Versions
  BY <1>2 DEF CacheInv, AtWork
<1>5. upd'.pc = "reload" => reloaded' = 0
  BY <1>3 DEF CacheInv
<1>6. stored' = "fresh" =>
        UNCHANGED <<real, stored>> \/ (load[l].pc = "store" /\ real' = load[l].seen)
  OBVIOUS
<1>7. load[l].pc = "store" => Due <= load[l].seen
  BY DEF CacheInv
<1>8. upd'.pc = "reload" /\ stored' = "fresh" /\ real' # 0 => upd'.ver <= real'
  <2> SUFFICES ASSUME upd'.pc = "reload", stored' = "fresh", real' # 0 PROVE upd.ver <= real'
    BY <1>3
  <2>1. Due = upd.ver /\ upd.pc = "reload"
    BY <1>3 DEF Due
  <2>2. CASE UNCHANGED <<real, stored>>
    BY <2>1, <2>2 DEF CacheInv
  <2>3. CASE load[l].pc = "store" /\ real' = load[l].seen
    BY <1>7, <2>1, <2>3
  <2> QED BY <1>6, <2>2, <2>3
<1>9. reloaded' # 0 /\ stored' = "fresh" => reloaded' <= real'
  <2> SUFFICES ASSUME reloaded # 0, stored' = "fresh" PROVE reloaded <= real'
    OBVIOUS
  <2>1. Due = reloaded
    BY DEF CacheInv, Due
  <2>2. CASE UNCHANGED <<real, stored>>
    BY <2>2 DEF CacheInv
  <2>3. CASE load[l].pc = "store" /\ real' = load[l].seen
    BY <1>7, <2>1, <2>3
  <2> QED BY <1>6, <2>2, <2>3
<1>10. ASSUME NEW k \in Loaders
       PROVE  /\ load'[k].pc \in {"store", "store late"} => load'[k].seen \in Versions
              /\ load'[k].pc = "store" => Due <= load'[k].seen
  <2>1. CASE k = l
    <3>1. load'[k].pc = "none"
      BY <1>1, <2>1, EndedPlaces
    <3> QED BY <3>1
  <2>2. CASE k # l
    <3>1. load'[k] = load[k]
      BY <1>1, <2>2
    <3> QED BY <3>1 DEF CacheInv
  <2> QED BY <2>1, <2>2
<1> QED
  BY <1>3, <1>4, <1>5, <1>8, <1>9, <1>10 DEF CacheInv

\* A load that ends hands over a value; the updater's own ends the reload.
LEMMA ReturnsKeepInv ==
  ASSUME DataInv, NEW l \in Loaders, NEW v, Return(l, v),
         UNCHANGED <<latest, file, written>>,
         \/ UNCHANGED <<real, stored>>
         \/ /\ load[l].pc \in {"store", "store late"}
            /\ real' = load[l].seen
            /\ stored' = IF load[l].pc = "store late" THEN "late" ELSE stored,
         l = Updater /\ upd.pc = "reload" => real' # 0
  PROVE  DataInv'
<1>1. CASE l = Updater /\ upd.pc = "reload"
  <2>0. /\ upd' = [upd EXCEPT !.pc = "stats"] /\ reloaded' = upd.ver
        /\ load' = [load EXCEPT ![l] = Looking]
    BY <1>1, DataConstants DEF Return, Updater
  <2>1. Numbered /\ NoneOlder /\ WritingInv /\ CacheInv
    BY Numbers DEF DataInv
  <2>2. /\ upd'.pc = "stats" /\ upd'.ver = upd.ver /\ file'.real = file.real
       /\ latest' = latest /\ reloaded' = upd.ver
       /\ upd'.pc \in AtWork
       /\ upd.pc \in AtWork
       /\ file.real = upd.ver
       /\ upd.pc = "reload"
    BY <1>1, <2>0, <2>1, DataPlaces DEF Looking, DataInv, DataTypes, Numbered, WritingInv
  <2>3. DataTypes'
    BY <1>1, <2>0, VersionNumbers, DataConstants DEF DataInv, Looking, CacheInv, DataTypes, UpdaterPcs, AtWork
  <2>4. WritingInv' /\ FilesAgree'
    BY <1>1, <2>0, <2>1, <2>2, DataPlaces DEF DataInv, DataTypes, Looking, WritingInv, FilesAgree
  <2>5. NoneOlder'
    <3>0. upd'.ver <= latest'
      BY <2>1, <2>2 DEF Numbered, NoneOlder
    <3>1. reloaded' <= latest' /\ file'.real <= latest'
      BY <2>1, <2>2 DEF Numbered, NoneOlder
    <3>3. reloaded' <= upd'.ver /\ reloaded' <= file'.real
      <4>1. upd.ver \in Nat /\ upd'.ver = upd.ver /\ file'.real = upd.ver /\ reloaded' = upd.ver
        BY <2>1, <2>2 DEF Numbered
      <4> QED
        BY <4>1, LeqReflexive, Zenon
    <3> QED
      BY <3>0, <3>1, <3>3 DEF NoneOlder
  <2>6. CacheInv'
    <3>1. upd.ver \in Versions /\ upd.ver \in Nat /\ Due = upd.ver /\ Due' = upd.ver
      BY <2>1, <2>2 DEF CacheInv, Numbered, Due
    <3>2. stored' = "fresh" => upd.ver <= real'
      <4>1. CASE UNCHANGED <<real, stored>>
        BY <1>1, <2>1, <4>1 DEF CacheInv
      <4>2. CASE load[l].pc = "store" /\ real' = load[l].seen
        BY <2>1, <3>1, <4>2 DEF CacheInv
      <4>3. CASE load[l].pc = "store late" /\ stored' = "late"
        BY <4>3
      <4> QED
        BY <4>1, <4>2, <4>3
    <3>3. \A k \in Loaders : load'[k] = IF k = l THEN Looking ELSE load[k]
      BY <2>0 DEF DataInv, DataTypes
    <3>4. \A k \in Loaders :
            /\ load'[k].pc \in {"store", "store late"} => load'[k].seen \in Versions
            /\ load'[k].pc = "store" => upd.ver <= load'[k].seen
      <4> SUFFICES ASSUME NEW k \in Loaders
                   PROVE  /\ load'[k].pc \in {"store", "store late"} => load'[k].seen \in Versions
                          /\ load'[k].pc = "store" => upd.ver <= load'[k].seen
        OBVIOUS
      <4>1. CASE k = l
        <5>1. load'[k] = Looking /\ Looking.pc = "look"
          BY <3>3, <4>1 DEF Looking
        <5> QED
          BY <5>1
      <4>2. CASE k # l
        BY <2>1, <3>1, <3>3, <4>2 DEF CacheInv
      <4> QED
        BY <4>1, <4>2
    <3> QED
      BY <2>2, <3>1, <3>2, <3>4 DEF CacheInv
  <2> QED
    BY <2>3, <2>4, <2>5, <2>6 DEF DataInv
<1>2. CASE l = Updater /\ upd.pc # "reload"
  <2>0. /\ upd' = IdleUpdater /\ UNCHANGED reloaded
        /\ load' = [load EXCEPT ![l] = NoLoad]
    BY <1>2, DataConstants DEF Return, Updater
  <2>1. Numbered /\ NoneOlder /\ WritingInv /\ CacheInv
    BY Numbers DEF DataInv
  <2>2. /\ upd'.pc = "idle" /\ upd'.ver = 0 /\ file'.real = file.real
       /\ latest' = latest /\ reloaded' = reloaded
       /\ upd'.pc \notin AtWork
    BY <1>2, <2>0, <2>1, DataPlaces DEF NoLoad, IdleUpdater, DataInv, DataTypes, Numbered
  <2>3. DataTypes'
    BY <1>2, <2>0, VersionNumbers, DataConstants DEF DataInv, NoLoad, IdleUpdater, CacheInv, DataTypes, UpdaterPcs, AtWork
  <2>4. WritingInv' /\ FilesAgree'
    BY <1>2, <2>0, <2>1, <2>2, DataPlaces DEF DataInv, DataTypes, NoLoad, IdleUpdater, WritingInv, FilesAgree
  <2>5. NoneOlder'
    <3>0. upd'.ver <= latest'
      BY <2>1, <2>2 DEF Numbered, NoneOlder
    <3>1. reloaded' <= latest' /\ file'.real <= latest'
      BY <2>1, <2>2 DEF Numbered, NoneOlder
    <3>2. reloaded' # 0 => (upd'.pc \in AtWork => reloaded' <= upd'.ver)
      BY <2>1, <2>2 DEF Numbered, NoneOlder
    <3>3. reloaded' # 0 => (file'.real # Torn => reloaded' <= file'.real)
      BY <2>1, <2>2 DEF Numbered, NoneOlder
    <3> QED
      BY <3>0, <3>1, <3>2, <3>3 DEF NoneOlder
  <2>6. CacheInv'
    BY <1>2, <2>0, <2>1, EndedLoad DEF DataInv
  <2> QED
    BY <2>3, <2>4, <2>5, <2>6 DEF DataInv
<1>3. CASE l \in Generators
  <2>0. /\ UNCHANGED <<upd, reloaded>>
        /\ load' = [load EXCEPT ![l] = NoLoad]
    BY <1>3, DataConstants DEF Return, Updater
  <2>1. Numbered /\ NoneOlder /\ WritingInv /\ CacheInv
    BY Numbers DEF DataInv
  <2>2. /\ upd'.pc = upd.pc /\ upd'.ver = upd.ver /\ file'.real = file.real
       /\ latest' = latest /\ reloaded' = reloaded
    BY <1>3, <2>0, <2>1 DEF NoLoad, DataInv, DataTypes, Numbered
  <2>3. DataTypes'
    BY <1>3, <2>0, VersionNumbers, DataConstants DEF DataInv, NoLoad, CacheInv, DataTypes, UpdaterPcs, AtWork
  <2>4. WritingInv' /\ FilesAgree'
    BY <1>3, <2>0, <2>1, <2>2, DataPlaces DEF DataInv, DataTypes, NoLoad, WritingInv, FilesAgree
  <2>5. NoneOlder'
    BY <2>1, <2>2 DEF Numbered, NoneOlder
  <2>6. CacheInv'
    BY <2>0, <2>1, EndedLoad DEF DataInv
  <2> QED
    BY <2>3, <2>4, <2>5, <2>6 DEF DataInv
<1> QED
  BY <1>1, <1>2, <1>3 DEF Loaders

(* The steps of a load: look, read and store. *)
LEMMA LoadsKeepInv ==
  ASSUME DataInv, NEW l \in Loaders, LoadStep(l)
  PROVE  DataInv'
<1>1. CASE LookUp(l)
  <2>1. CASE real # 0 /\ Return(l, real)
    <3>1. UNCHANGED <<latest, file, written>> /\ UNCHANGED <<real, stored>>
      BY <1>1 DEF LookUp
    <3> QED
      BY <2>1, <3>1, ReturnsKeepInv
  <2>2. CASE load' = [load EXCEPT ![l] = [pc |-> "read", seen |-> 0]] /\ UNCHANGED <<gen, upd, reloaded>>
    <3>1. Numbered /\ NoneOlder /\ WritingInv /\ CacheInv
      BY Numbers DEF DataInv
    <3>2. /\ upd'.pc = upd.pc /\ upd'.ver = upd.ver /\ file'.real = file.real
         /\ latest' = latest /\ reloaded' = reloaded
      BY <1>1, <2>2, <3>1 DEF LookUp, DataInv, DataTypes, Numbered
    <3>3. DataTypes'
      BY <1>1, <2>2, VersionNumbers, DataConstants DEF DataInv, LookUp, CacheInv, DataTypes, UpdaterPcs, AtWork
    <3>4. WritingInv' /\ FilesAgree'
      BY <1>1, <2>2, <3>1, <3>2, DataPlaces DEF DataInv, DataTypes, LookUp, WritingInv, FilesAgree
    <3>5. NoneOlder'
      BY <3>1, <3>2 DEF Numbered, NoneOlder
    <3>6. CacheInv'
      <4>1. UNCHANGED <<upd, real, reloaded, stored>>
        BY <1>1, <2>2 DEF LookUp
      <4> DEFINE r == [pc |-> "read", seen |-> 0]
      <4>2. r.pc # "store late" /\ r.pc # "store" /\ load' = [load EXCEPT ![l] = r]
        BY <2>2
      <4> HIDE DEF r
      <4> QED
        BY <4>1, <4>2, OneLoadChanges DEF DataInv
    <3> QED
      BY <3>3, <3>4, <3>5, <3>6 DEF DataInv
  <2> QED
    BY <1>1, <2>1, <2>2 DEF LookUp
<1>2. CASE ReadFile(l)
  <2>1. CASE ~Whole(file.real) /\ Return(l, Embedded)
    <3>1. upd.pc # "reload"
      BY <2>1, DataPlaces DEF Whole, DataInv, WritingInv, CacheInv
    <3>2. UNCHANGED <<latest, file, written>> /\ UNCHANGED <<real, stored>>
      BY <1>2 DEF ReadFile
    <3> QED
      BY <2>1, <3>1, <3>2, ReturnsKeepInv
  <2>2. CASE /\ Whole(file.real)
             /\ load' = [load EXCEPT ![l] = [pc |-> "store", seen |-> file.real]]
             /\ UNCHANGED <<gen, upd, reloaded>>
    <3>1. Numbered /\ NoneOlder /\ WritingInv /\ CacheInv
      BY Numbers DEF DataInv
    <3>2. /\ upd'.pc = upd.pc /\ upd'.ver = upd.ver /\ file'.real = file.real
         /\ latest' = latest /\ reloaded' = reloaded
      BY <1>2, <2>2, <3>1 DEF ReadFile, Whole, DataInv, DataTypes, Numbered
    <3>3. DataTypes'
      BY <1>2, <2>2, VersionNumbers, DataConstants DEF DataInv, ReadFile, Whole, CacheInv, DataTypes, UpdaterPcs, AtWork
    <3>4. WritingInv' /\ FilesAgree'
      BY <1>2, <2>2, <3>1, <3>2, DataPlaces DEF DataInv, DataTypes, ReadFile, Whole, WritingInv, FilesAgree
    <3>5. NoneOlder'
      BY <3>1, <3>2 DEF Numbered, NoneOlder
    <3>6. CacheInv'
      <4>1. file.real \in Versions /\ file.real # Torn
        BY <2>2, VersionNumbers DEF Whole, Torn
      <4>2. Due <= file.real
        <5>1. CASE upd.pc = "reload"
          <6>1. file.real = upd.ver /\ Due = upd.ver
            BY <3>1, <5>1, DataPlaces DEF WritingInv, Due
          <6> QED
            BY <3>1, <6>1 DEF Numbered
        <5>2. CASE upd.pc # "reload" /\ reloaded # 0
          BY <3>1, <4>1, <5>2 DEF NoneOlder, Due
        <5>3. CASE upd.pc # "reload" /\ reloaded = 0
          BY <4>1, <5>3, VersionNumbers DEF Due
        <5> QED
          BY <5>1, <5>2, <5>3
      <4> QED
        BY <1>2, <2>2, <4>1, <4>2, OneLoadChanges DEF ReadFile, DataInv
    <3> QED
      BY <3>3, <3>4, <3>5, <3>6 DEF DataInv
  <2> QED
    BY <1>2, <2>1, <2>2 DEF ReadFile
<1>3. CASE Store(l)
  <2>1. load[l].seen # 0
    BY <1>3, VersionNumbers DEF Store, DataInv, CacheInv
  <2> QED
    BY <1>3, <2>1, ReturnsKeepInv DEF Store
<1> QED
  BY <1>1, <1>2, <1>3 DEF LoadStep

\* What a generator does to its own fingerprint concerns none of the parts.
LEMMA GeneratorsKeepInv ==
  ASSUME DataInv, NEW g \in Generators,
         (\E satisfiable \in BOOLEAN : Generate(g, satisfiable)) \/ Ask(g) \/ Finish(g)
  PROVE  DataInv'
<1>1. CASE UNCHANGED <<latest, file, upd, real, load, reloaded, written, stored>>
  BY <1>1 DEF DataInv, DataTypes, WritingInv, FilesAgree, NoneOlder, CacheInv, Due
<1>2. CASE Ask(g)
  <2>1. Numbered /\ NoneOlder /\ WritingInv /\ CacheInv
    BY Numbers DEF DataInv
  <2>2. /\ upd'.pc = upd.pc /\ upd'.ver = upd.ver /\ file'.real = file.real
       /\ latest' = latest /\ reloaded' = reloaded
    BY <1>2, <2>1 DEF Ask, Looking, Loaders, DataInv, DataTypes, Numbered
  <2>3. DataTypes'
    BY <1>2, VersionNumbers, DataConstants DEF DataInv, Ask, Looking, Loaders, CacheInv, DataTypes, UpdaterPcs, AtWork
  <2>4. WritingInv' /\ FilesAgree'
    BY <1>2, <2>1, <2>2, DataPlaces DEF DataInv, DataTypes, Ask, Looking, Loaders, WritingInv, FilesAgree
  <2>5. NoneOlder'
    BY <2>1, <2>2 DEF Numbered, NoneOlder
  <2>6. CacheInv'
    <3>1. /\ g \in Loaders /\ load' = [load EXCEPT ![g] = Looking]
          /\ UNCHANGED <<upd, real, reloaded, stored>>
      BY <1>2 DEF Ask, Loaders
    <3>2. Looking.pc # "store late" /\ Looking.pc # "store"
      BY DEF Looking
    <3> QED
      BY <3>1, <3>2, OneLoadChanges DEF DataInv
  <2> QED
    BY <2>3, <2>4, <2>5, <2>6 DEF DataInv
<1> QED
  BY <1>1, <1>2 DEF Generate, Finish

(* A restart forgets the caches and keeps the files, whatever was half written. *)
LEMMA RestartKeepsInv ==
  ASSUME DataInv, Restart
  PROVE  DataInv'
<1>1. Numbered /\ NoneOlder /\ WritingInv /\ CacheInv
  BY Numbers DEF DataInv
<1>2. /\ upd'.pc = "idle" /\ upd'.ver = 0 /\ file'.real = file.real
     /\ latest' = latest /\ reloaded' = 0
  BY <1>1, DataPlaces DEF Restart, IdleUpdater, NoLoad, DataInv, DataTypes, Numbered
<1>3. DataTypes'
  BY VersionNumbers, DataConstants DEF DataInv, Restart, IdleUpdater, NoLoad, CacheInv, DataTypes, UpdaterPcs, AtWork
<1>4. WritingInv' /\ FilesAgree'
  BY <1>1, <1>2, DataPlaces DEF DataInv, DataTypes, Restart, IdleUpdater, NoLoad, WritingInv, FilesAgree
<1>5. NoneOlder'
  BY <1>1, <1>2 DEF Numbered, NoneOlder
<1>6. CacheInv'
  BY <1>1, <1>2, DataPlaces, VersionNumbers DEF Restart, IdleUpdater, NoLoad, Numbered, NoneOlder, CacheInv, Due
<1> QED
  BY <1>3, <1>4, <1>5, <1>6 DEF DataInv

\* The invariant holds in every reachable state.
THEOREM DataInvariant == DataSpec => []DataInv
<1>1. DataInv /\ [DataNext]_dataVars => DataInv'
  <2> SUFFICES ASSUME DataInv, [DataNext]_dataVars PROVE DataInv'
    OBVIOUS
  <2>1. CASE UNCHANGED dataVars
    BY <2>1 DEF dataVars, DataInv, DataTypes, WritingInv, FilesAgree, NoneOlder, CacheInv, Due
  <2>2. CASE DataNext
    BY <2>2, QuietUpdaterSteps, WritesKeepInv, ReloadKeepsInv, LoadsKeepInv, GeneratorsKeepInv,
       RestartKeepsInv DEF DataNext, UpdateStep
  <2> QED
    BY <2>1, <2>2
<1> QED
  BY InitEstablishes, <1>1, PTL DEF DataSpec

\* After an update that was not cut short between its writes, and through restarts,
\* failures and later publications, the two files hold the same version.
THEOREM FilesAgreeAlways == DataSpec => []FilesAgree
<1>1. DataInv => FilesAgree
  BY DEF DataInv
<1> QED
  BY <1>1, DataInvariant, PTL

\* No load puts data into the cache that is older than the last hot reload, except one
\* that had read the file before the reload.
THEOREM ReloadAlwaysTakesEffect == DataSpec => []ReloadTakesEffect
<1>1. DataInv => ReloadTakesEffect
  <2> SUFFICES ASSUME DataInv, reloaded # 0, stored = "fresh" PROVE reloaded <= real
    BY DEF ReloadTakesEffect
  <2> QED
    BY DEF DataInv, CacheInv
<1> QED
  BY <1>1, DataInvariant, PTL

-----------------------------------------------------------------------------
(* Correlator.                                                             *)

Pcs == {"idle", "generate", "admit", "holds"}

Calls == [pc : Pcs, seed : Seeds, left : Int, attempt : Nat,
          print : Prints \cup {Unknown}, batch : Nat]

CorrelatorTypeOK ==
  /\ admitted \in Seq(Prints)
  /\ create \in [Creators -> Calls]
  /\ batch \in Nat

\* A candidate is a fingerprint.
Candidates == \A c \in Creators : create[c].pc \in {"admit", "holds"} => create[c].print \in Prints

\* What a session of the current batch holds is in the registry.
HeldIsAdmitted ==
  \A c \in Creators : (HoldsPrint(c) /\ create[c].batch = batch) =>
    \E i \in 1..Len(admitted) : admitted[i] = create[c].print

\* No session is from a batch to come.
NoFuture == \A c \in Creators : HoldsPrint(c) => create[c].batch <= batch

CorrelatorInv == CorrelatorTypeOK /\ Candidates /\ HeldIsAdmitted /\ NoFuture /\ SessionsApart

\* A call that starts, goes on or ends without being admitted leaves every session what it
\* was: the sessions that hold a fingerprint afterwards held it before.
LEMMA OthersUnchanged ==
  ASSUME CorrelatorInv, NEW c \in Creators, NEW r \in Calls, r.pc # "holds",
         r.pc = "admit" => r.print \in Prints,
         create' = [create EXCEPT ![c] = r], UNCHANGED <<admitted, batch>>
  PROVE  CorrelatorInv'
<1>1. CorrelatorTypeOK' BY DEF CorrelatorInv, CorrelatorTypeOK
<1>2. \A d \in Creators : d # c => create'[d] = create[d]
  BY DEF CorrelatorInv, CorrelatorTypeOK
<1>3. create'[c] = r BY DEF CorrelatorInv, CorrelatorTypeOK
<1>4. Candidates' BY <1>2, <1>3 DEF CorrelatorInv, Candidates
<1>5. ~HoldsPrint(c)' BY <1>3 DEF HoldsPrint
<1>6. HeldIsAdmitted' BY <1>2, <1>5 DEF CorrelatorInv, HeldIsAdmitted, HoldsPrint
<1>7. NoFuture' BY <1>2, <1>5 DEF CorrelatorInv, NoFuture, HoldsPrint
<1>8. SessionsApart' BY <1>2, <1>5 DEF CorrelatorInv, SessionsApart, HoldsPrint
<1> QED BY <1>1, <1>4, <1>6, <1>7, <1>8 DEF CorrelatorInv

(* A caller that gives no seed. *)
LEMMA SeedZero == 0 \in Seeds /\ Seeds \subseteq Nat
BY CorrelatorConstants DEF Seeds

(* A creator that is in no call. *)
LEMMA IdleCall == NoCreation \in Calls /\ NoCreation.pc = "idle"
BY SeedZero DEF NoCreation, Calls, Pcs

\* An admission is the one step after which one more session holds a fingerprint; it is
\* far from everything in the registry, and so from every session of this batch.
LEMMA AdmitStep ==
  ASSUME CorrelatorInv, NEW c \in Creators, AdmitPrint(c)
  PROVE  CorrelatorInv'
<1> DEFINE p == create[c].print
<1>0. p \in Prints /\ create[c] \in Calls /\ admitted \in Seq(Prints)
  BY DEF CorrelatorInv, CorrelatorTypeOK, Candidates, AdmitPrint
<1>1. /\ admitted' = Append(admitted, p) /\ batch' = batch
      /\ create' = [create EXCEPT ![c] = [create[c] EXCEPT !.pc = "holds", !.batch = batch]]
  BY DEF AdmitPrint, CorrelatorInv, CorrelatorTypeOK
<1>2. \A d \in Creators : d # c => create'[d] = create[d]
  BY <1>1 DEF CorrelatorInv, CorrelatorTypeOK
<1>3. create'[c].pc = "holds" /\ create'[c].batch = batch /\ create'[c].print = p
  BY <1>0, <1>1 DEF CorrelatorInv, CorrelatorTypeOK, Calls
<1>4. CorrelatorTypeOK'
  <2>1. create'[c] \in Calls
    BY <1>0, <1>1 DEF CorrelatorInv, CorrelatorTypeOK, Calls, Pcs
  <2>2. create' \in [Creators -> Calls]
    BY <2>1, <1>1, <1>2 DEF CorrelatorInv, CorrelatorTypeOK
  <2> QED BY <2>2, <1>0, <1>1 DEF CorrelatorInv, CorrelatorTypeOK
<1>5. Candidates' BY <1>0, <1>2, <1>3 DEF CorrelatorInv, Candidates
<1>6. /\ Len(admitted') = Len(admitted) + 1
      /\ admitted'[Len(admitted) + 1] = p
      /\ \A i \in 1..Len(admitted) : admitted'[i] = admitted[i]
      /\ Len(admitted) \in Nat
  BY <1>0, <1>1
<1>7. HeldIsAdmitted'
  <2> SUFFICES ASSUME NEW d \in Creators, HoldsPrint(d)', create'[d].batch = batch'
               PROVE  \E i \in 1..Len(admitted') : admitted'[i] = create'[d].print
    BY DEF HeldIsAdmitted
  <2>1. CASE d = c
    <3>1. Len(admitted) + 1 \in 1..Len(admitted') BY <1>6
    <3> QED BY <3>1, <2>1, <1>3, <1>6
  <2>2. CASE d # c
    <3>1. PICK i \in 1..Len(admitted) : admitted[i] = create[d].print
      BY <2>2, <1>1, <1>2 DEF CorrelatorInv, HeldIsAdmitted, HoldsPrint
    <3>2. i \in 1..Len(admitted') BY <1>6
    <3> QED BY <3>1, <3>2, <2>2, <1>2, <1>6
  <2> QED BY <2>1, <2>2
<1>8. NoFuture'
  <2>1. batch <= batch BY DEF CorrelatorInv, CorrelatorTypeOK
  <2> QED BY <2>1, <1>1, <1>2, <1>3 DEF CorrelatorInv, NoFuture, HoldsPrint
<1>9. \A d \in Creators : (d # c /\ HoldsPrint(d) /\ create[d].batch = batch)
                            => <<p, create[d].print>> \in Far
  BY DEF CorrelatorInv, HeldIsAdmitted, AdmitPrint, Passes
<1>10. SessionsApart'
  <2> SUFFICES ASSUME NEW d \in Creators, NEW e \in Creators, d # e,
                      HoldsPrint(d)', HoldsPrint(e)', create'[d].batch = create'[e].batch
               PROVE  \/ <<create'[d].print, create'[e].print>> \in Far
                      \/ <<create'[e].print, create'[d].print>> \in Far
    BY DEF SessionsApart
  <2>1. CASE d = c
    <3>1. HoldsPrint(e) /\ create[e].batch = batch BY <2>1, <1>2, <1>3 DEF HoldsPrint
    <3> QED BY <3>1, <2>1, <1>2, <1>3, <1>9
  <2>2. CASE e = c
    <3>1. HoldsPrint(d) /\ create[d].batch = batch BY <2>2, <1>2, <1>3 DEF HoldsPrint
    <3> QED BY <3>1, <2>2, <1>2, <1>3, <1>9
  <2>3. CASE d # c /\ e # c
    BY <2>3, <1>2 DEF CorrelatorInv, SessionsApart, HoldsPrint
  <2> QED BY <2>1, <2>2, <2>3
<1> QED BY <1>4, <1>5, <1>7, <1>8, <1>10 DEF CorrelatorInv

\* A reset empties the registry; the sessions that live on are of a batch that is over.
LEMMA ResetStep == ASSUME CorrelatorInv, Reset PROVE CorrelatorInv'
<1>1. batch \in Nat /\ batch' = batch + 1 /\ create' = create /\ admitted' = <<>>
  BY DEF CorrelatorInv, CorrelatorTypeOK, Reset
<1>2. CorrelatorTypeOK' BY <1>1 DEF CorrelatorInv, CorrelatorTypeOK
<1>3. Candidates' /\ SessionsApart'
  BY <1>1 DEF CorrelatorInv, Candidates, SessionsApart, HoldsPrint
<1>4. \A c \in Creators : HoldsPrint(c) => create[c].batch \in Nat /\ create[c].batch <= batch
  BY DEF CorrelatorInv, CorrelatorTypeOK, NoFuture, Calls
<1>5. HeldIsAdmitted' /\ NoFuture'
  BY <1>1, <1>4 DEF HeldIsAdmitted, NoFuture, HoldsPrint
<1> QED BY <1>2, <1>3, <1>5 DEF CorrelatorInv

(* All steps of the registry and its creators. *)
LEMMA CorrelatorStep ==
  ASSUME CorrelatorInv, [CorrelatorNext]_correlatorVars
  PROVE  CorrelatorInv'
<1>1. CASE Reset BY <1>1, ResetStep
<1>2. ASSUME NEW c \in Creators, NEW s \in Seeds, NEW n \in 0..MaxAttempts,
             GenerateDistinct(c, s, n)
      PROVE  CorrelatorInv'
  <2> DEFINE r == [NoCreation EXCEPT !.pc = "generate", !.seed = s,
                                     !.left = IF n <= 0 THEN 1 ELSE n]
  <2>1. (IF n <= 0 THEN 1 ELSE n) \in Int BY <1>2, CorrelatorConstants
  <2>2. r \in Calls /\ r.pc = "generate"
    BY <2>1, <1>2, SeedZero DEF NoCreation, Calls, Pcs
  <2>3. r.pc # "holds" /\ r.pc # "admit" BY <2>2
  <2>4. create' = [create EXCEPT ![c] = r] /\ UNCHANGED <<admitted, batch>>
    BY <1>2 DEF GenerateDistinct
  <2> HIDE DEF r
  <2> QED BY <2>2, <2>3, <2>4, OthersUnchanged
<1>3. ASSUME NEW c \in Creators, NEW p \in Prints, GenerateCandidate(c, p)
      PROVE  CorrelatorInv'
  <2> DEFINE r == [create[c] EXCEPT !.pc = "admit", !.print = p]
  <2>1. create[c] \in Calls BY DEF CorrelatorInv, CorrelatorTypeOK
  <2>2. r \in Calls /\ r.pc = "admit" /\ r.print = p
    BY <2>1 DEF Calls, Pcs
  <2>3. r.pc # "holds" /\ r.print \in Prints BY <2>2
  <2>4. create' = [create EXCEPT ![c] = r] /\ UNCHANGED <<admitted, batch>>
    BY <1>3 DEF GenerateCandidate
  <2> HIDE DEF r
  <2> QED BY <2>2, <2>3, <2>4, OthersUnchanged
<1>4. ASSUME NEW c \in Creators, GenerateFails(c) PROVE CorrelatorInv'
  BY <1>4, IdleCall, OthersUnchanged DEF GenerateFails
<1>5. ASSUME NEW c \in Creators, AdmitPrint(c) PROVE CorrelatorInv'
  BY <1>5, AdmitStep
<1>6. ASSUME NEW c \in Creators, TooSimilar(c) PROVE CorrelatorInv'
  <2> DEFINE r == [create[c] EXCEPT !.pc = "generate", !.left = create[c].left - 1,
                                    !.attempt = create[c].attempt + 1, !.print = Unknown]
  <2>1. create[c] \in Calls BY DEF CorrelatorInv, CorrelatorTypeOK
  <2>2. CASE create[c].left = 1
    BY <2>2, <1>6, IdleCall, OthersUnchanged DEF TooSimilar
  <2>3. CASE create[c].left # 1
    <3>0. /\ create[c].left - 1 \in Int /\ create[c].attempt + 1 \in Nat
          /\ Unknown \in Prints \cup {Unknown} /\ "generate" \in Pcs
      BY <2>1 DEF Calls, Pcs
    <3>1. r \in Calls /\ r.pc = "generate" BY <3>0, <2>1 DEF Calls
    <3>2. create' = [create EXCEPT ![c] = r] BY <2>3, <1>6 DEF TooSimilar
    <3> QED BY <3>1, <3>2, <1>6, OthersUnchanged DEF TooSimilar
  <2> QED BY <2>2, <2>3
<1>7. ASSUME NEW c \in Creators, LetGo(c) PROVE CorrelatorInv'
  BY <1>7, IdleCall, OthersUnchanged DEF LetGo
<1>8. CASE UNCHANGED correlatorVars
  BY <1>8 DEF correlatorVars, CorrelatorInv, CorrelatorTypeOK, Candidates, HeldIsAdmitted,
              NoFuture, SessionsApart, HoldsPrint
<1> QED BY <1>1, <1>2, <1>3, <1>4, <1>5, <1>6, <1>7, <1>8 DEF CorrelatorNext

\* The inductive invariant of a batch holds at all times.
LEMMA CorrelatorInvariant == CorrelatorSpec => []CorrelatorInv
<1>1. CorrelatorInit => CorrelatorInv
  BY CorrelatorConstants, IdleCall
  DEF CorrelatorInit, CorrelatorInv, CorrelatorTypeOK, Candidates, HeldIsAdmitted, NoFuture,
      SessionsApart, HoldsPrint
<1> QED BY <1>1, CorrelatorStep, PTL DEF CorrelatorSpec

\* The sessions of a batch are apart at all times, however many calls of GenerateDistinct
\* run side by side, and whatever is called far.
THEOREM SessionsStayApart == CorrelatorSpec => []SessionsApart
<1>1. CorrelatorInv => SessionsApart
  BY DEF CorrelatorInv
<1> QED BY <1>1, CorrelatorInvariant, PTL

-----------------------------------------------------------------------------
(* SessionBatch: what the measured distances say of devices.               *)

\* A generated fingerprint, in the words of the assumption.
IsGenerated(d) ==
  /\ d.canvas # "" /\ d.renderer # ""
  /\ d.fonts \in Seq(STRING)
  /\ \A i, j \in DOMAIN d.fonts : d.fonts[i] = d.fonts[j] => i = j
  /\ d.width \in Nat /\ d.height \in Nat /\ d.dpr \in Nat

\* Every fingerprint of a batch is one.
LEMMA DevicesAreGenerated == \A p \in Prints : IsGenerated(Device[p])
BY BatchConstants DEF IsGenerated

\* A part of a whole, in thousandths.
LEMMA Share ==
  ASSUME NEW x \in Nat, NEW y \in Nat, y > 0, x <= y
  PROVE  (x * 1000) \div y \in Nat /\ (x * 1000) \div y <= 1000
<1> DEFINE q == (x * 1000) \div y
<1>1. q \in Int /\ y * q <= x * 1000 /\ x * 1000 < y * q + y
  BY SMT
<1> HIDE DEF q
<1>2. q >= 0
  <2>1. ASSUME q <= 0 - 1 PROVE FALSE
    <3>1. y * (q + 1) <= 0
      BY <1>1, <2>1, SMT
    <3>2. y * (q + 1) = y * q + y
      BY <1>1, SMT
    <3> QED BY <1>1, <3>1, <3>2, SMT
  <2> QED BY <1>1, <2>1, SMT
<1>3. q <= 1000
  <2>1. ASSUME q >= 1001 PROVE FALSE
    <3>1. y * 1001 <= y * q
      BY <1>1, <2>1, SMT
    <3> QED BY <1>1, <3>1, SMT
  <2> QED BY <1>1, <2>1, SMT
<1>4. q \in Nat /\ q <= 1000
  BY <1>1, <1>2, <1>3, SMT
<1> QED BY <1>4 DEF q

\* Fonts that are listed once are as many as the places where they are found.
LEMMA FontsFound ==
  ASSUME NEW f \in Seq(STRING), NEW g \in Seq(STRING),
         \A i, j \in DOMAIN g : g[i] = g[j] => i = j
  PROVE  LET known == {f[i] : i \in DOMAIN f}
             found == {i \in DOMAIN g : g[i] \in known}
         IN /\ Cardinality(known) \in Nat /\ Cardinality(found) \in Nat
            /\ Cardinality(found) <= Cardinality(known) /\ Cardinality(found) <= Len(g)
            /\ f # <<>> => Cardinality(known) > 0
<1> DEFINE known == {f[i] : i \in DOMAIN f}
           found == {i \in DOMAIN g : g[i] \in known}
           at == [i \in found |-> g[i]]
<1>1. DOMAIN f = 1..Len(f) /\ DOMAIN g = 1..Len(g) /\ Len(f) \in Nat /\ Len(g) \in Nat
  OBVIOUS
<1>2. /\ IsFiniteSet(1..Len(f)) /\ IsFiniteSet(1..Len(g))
      /\ Cardinality(1..Len(g)) = Len(g)
  <2>1. ASSUME NEW n \in Nat PROVE IsFiniteSet(1..n) /\ Cardinality(1..n) = n
    <3>1. 1 \in Int /\ n \in Int
      OBVIOUS
    <3>2. /\ IsFiniteSet(1..n)
          /\ Cardinality(1..n) = IF 1 > n THEN 0 ELSE n - 1 + 1
      BY <3>1, FS_Interval
    <3> QED BY <3>2, SMT
  <2> QED BY <1>1, <2>1
<1>3. f \in Surjection(DOMAIN f, known)
  BY <1>1 DEF Surjection
<1>4. IsFiniteSet(known) /\ Cardinality(known) \in Nat
  BY <1>1, <1>2, <1>3, FS_Surjection, FS_CardinalityType
<1>5. found \in SUBSET (1..Len(g))
  BY <1>1
<1>6. IsFiniteSet(found) /\ Cardinality(found) <= Len(g) /\ Cardinality(found) \in Nat
  BY <1>2, <1>5, FS_Subset, FS_CardinalityType
<1>7. at \in Injection(found, known)
  <2>1. at \in [found -> known]
    OBVIOUS
  <2>2. \A i, j \in found : at[i] = at[j] => i = j
    OBVIOUS
  <2> HIDE DEF at, found, known
  <2> QED BY <2>1, <2>2 DEF Injection, IsInjective
<1>8. Cardinality(found) <= Cardinality(known)
  BY <1>4, <1>7, FS_Injection
<1>9. ASSUME f # <<>> PROVE Cardinality(known) > 0
  <2>1. f[1] \in known
    BY <1>1, <1>9
  <2>2. known # {}
    BY <2>1
  <2>3. Cardinality(known) # 0
    BY <1>4, <2>2, FS_EmptySet
  <2> QED BY <1>4, <2>3, SMT
<1> QED BY <1>4, <1>6, <1>8, <1>9

\* A list that names a font once is not more than all apart from another one.
LEMMA FontsBound ==
  ASSUME NEW a, NEW b, IsGenerated(a), IsGenerated(b)
  PROVE  FontsDistance(a, b) \in Nat
<1> DEFINE f == a.fonts
           g == b.fonts
           known == {f[i] : i \in DOMAIN f}
           inter == Cardinality({i \in DOMAIN g : g[i] \in known})
           k == Cardinality(known)
           union == k + (Len(g) - inter)
<1>1. f \in Seq(STRING) /\ g \in Seq(STRING) /\ \A i, j \in DOMAIN g : g[i] = g[j] => i = j
  BY DEF IsGenerated
<1>2. /\ FontsDistance(a, b) = IF f = <<>> \/ g = <<>> \/ inter = union THEN 0
                               ELSE Scale - (inter * Scale) \div union
  BY DEF FontsDistance
<1> HIDE DEF f, g
<1>3. /\ k \in Nat /\ inter \in Nat /\ inter <= k /\ inter <= Len(g)
      /\ f # <<>> => k > 0
  BY <1>1, FontsFound
<1>4. Len(g) \in Nat
  BY <1>1
<1> HIDE DEF known, inter, k
<1>5. union \in Nat /\ inter <= union /\ (f # <<>> => union > 0)
  BY <1>3, <1>4, SMT
<1> HIDE DEF union
<1>6. ASSUME f # <<>> PROVE Scale - (inter * Scale) \div union \in Nat
  <2> DEFINE q == (inter * 1000) \div union
  <2>1. q \in Nat /\ q <= 1000
    BY <1>3, <1>5, <1>6, Share
  <2> HIDE DEF q
  <2>2. 1000 - q \in Nat
    BY <2>1, SMT
  <2> QED BY <2>2 DEF q, Scale
<1> QED BY <1>2, <1>6

\* Nor is any other dimension negative.
LEMMA ResolutionBound ==
  ASSUME NEW a, NEW b, IsGenerated(a), IsGenerated(b)
  PROVE  ResolutionDistance(a, b) \in Nat
<1>1. ASSUME NEW x \in Nat, NEW y \in Nat PROVE RelDiff(x, y) \in Int
  BY SMT DEF RelDiff, Scale
<1>2. ASSUME NEW v \in Int PROVE Clamp(v, Scale) \in Nat
  BY SMT DEF Clamp, Scale
<1> DEFINE r == RelDiff(a.width, b.width)
           s == RelDiff(a.height, b.height)
           t == RelDiff(a.dpr, b.dpr)
<1>3. r \in Int /\ s \in Int /\ t \in Int
  BY <1>1 DEF IsGenerated
<1>4. ResolutionDistance(a, b) = Clamp((r + s + t) \div 3, Scale)
  BY DEF ResolutionDistance
<1> HIDE DEF r, s, t
<1>5. (r + s + t) \div 3 \in Int
  BY <1>3, SMT
<1> QED BY <1>2, <1>4, <1>5

\* The dimensions that only compare.
LEMMA OtherBounds ==
  ASSUME NEW a, NEW b
  PROVE  /\ CanvasDistance(a, b) \in Nat /\ WebglDistance(a, b) \in Nat
         /\ UaDistance(a, b) \in Nat /\ TlsDistance(a, b) \in Nat
<1>1. \A p \in BOOLEAN : Apart(p) \in Nat
  BY DEF Apart, Scale
<1>2. CanvasDistance(a, b) \in Nat
  BY DEF CanvasDistance, Apart, Scale
<1>3. WebglDistance(a, b) \in Nat
  BY DEF WebglDistance, Apart, Scale
<1>4. TlsDistance(a, b) \in Nat
  BY DEF TlsDistance, Apart, Scale
<1>5. Scale \in Nat /\ Scale \div 2 \in Nat /\ 0 \in Nat
  BY SMT DEF Scale
<1>6. UaDistance(a, b) \in Nat
  BY <1>5 DEF UaDistance
<1> QED BY <1>2, <1>3, <1>4, <1>6

\* The weights of a batch add up, whatever the caller asked for.
LEMMA WeightsAddUp ==
  /\ ValidateWeights(Weights)
  /\ Weights.canvas \in Nat /\ Weights.webgl \in Nat /\ Weights.fonts \in Nat
  /\ Weights.resolution \in Nat /\ Weights.ua \in Nat /\ Weights.tls \in Nat
  /\ Weights.webgl <= 100
<1> DEFINE D == {"canvas", "webgl", "fonts", "resolution", "ua", "tls"}
<1>1. DefaultWeights \in [D -> Int] /\ ValidateWeights(DefaultWeights)
  BY SMT DEF DefaultWeights, ValidateWeights, Sum6
<1>2. CorrelatorOptions.weights \in [D -> Int]
  <2>1. DOMAIN DefaultWeights = D
    BY <1>1
  <2> QED BY <2>1, BatchConstants
<1>3. Weights \in [D -> Int] /\ ValidateWeights(Weights)
  BY <1>1, <1>2 DEF Weights
<1> DEFINE w == Weights
<1>4. w \in [D -> Int] /\ Sum6(w) = 100 /\ \A d \in D : w[d] >= 0
  BY <1>3 DEF ValidateWeights
<1>5. /\ w.canvas \in Nat /\ w.webgl \in Nat /\ w.fonts \in Nat
      /\ w.resolution \in Nat /\ w.ua \in Nat /\ w.tls \in Nat
  BY <1>4
<1>6. w.canvas + w.webgl + w.fonts + w.resolution + w.ua + w.tls = 100
  BY <1>4 DEF Sum6
<1> HIDE DEF w
<1>7. w.webgl <= 100
  BY <1>5, <1>6, SMT
<1> QED BY <1>3, <1>5, <1>7 DEF w

\* What a batch makes of two fingerprints.
Measured(a, b) == DistanceWithWeights(a, b, Weights)

\* The GPU weighs what it weighs, and no other dimension takes from it.
LEMMA SumBound ==
  ASSUME NEW a, NEW b, IsGenerated(a), IsGenerated(b)
  PROVE  /\ WeightedSum(a, b, Weights) \in Nat
         /\ Weights.webgl * WebglDistance(a, b) <= WeightedSum(a, b, Weights)
<1>1. \A u, v \in Nat : u * v \in Nat
  BY SMT
<1> DEFINE w == Weights
           c == w.canvas * CanvasDistance(a, b)
           g == w.webgl * WebglDistance(a, b)
           f == w.fonts * FontsDistance(a, b)
           r == w.resolution * ResolutionDistance(a, b)
           u == w.ua * UaDistance(a, b)
           t == w.tls * TlsDistance(a, b)
<1>2. c \in Nat /\ g \in Nat /\ f \in Nat /\ r \in Nat /\ u \in Nat /\ t \in Nat
  <2>1. /\ CanvasDistance(a, b) \in Nat /\ WebglDistance(a, b) \in Nat
        /\ UaDistance(a, b) \in Nat /\ TlsDistance(a, b) \in Nat
    BY OtherBounds, Zenon
  <2>2. FontsDistance(a, b) \in Nat /\ ResolutionDistance(a, b) \in Nat
    BY FontsBound, ResolutionBound, Zenon
  <2> QED BY <1>1, <2>1, <2>2, WeightsAddUp, Zenon
<1>3. WeightedSum(a, b, w) = c + g + f + r + u + t
  BY Zenon DEF WeightedSum
<1> HIDE DEF c, g, f, r, u, t
<1>4. WeightedSum(a, b, w) \in Nat /\ g <= WeightedSum(a, b, w)
  BY <1>2, <1>3, SMT
<1> QED BY <1>4, Zenon DEF g

\* Fingerprints of one device core are closer than any threshold that tells devices apart.
LEMMA OneCoreIsClose ==
  ASSUME NEW a, NEW b, IsGenerated(a), IsGenerated(b), SameDeviceCore(a, b)
  PROVE  Measured(a, b) \in Nat /\ Measured(a, b) <= HardLockCeil
<1> DEFINE d == WeightedSum(a, b, Weights)
<1>1. d \in Nat
  BY SumBound, Zenon
<1>2. Measured(a, b) = Clamp(IF d > HardLockCeil THEN HardLockCeil ELSE d, 100 * Scale)
  BY WeightsAddUp, Zenon DEF Measured, DistanceWithWeights, DistanceUnder
<1> HIDE DEF d
<1> QED BY <1>1, <1>2, SMT DEF Clamp, HardLockCeil, Scale

\* Fingerprints of two GPUs are at least as far apart as the GPU weighs.
LEMMA OtherGpuIsFar ==
  ASSUME NEW a, NEW b, IsGenerated(a), IsGenerated(b), a.renderer # b.renderer
  PROVE  Measured(a, b) \in Nat /\ Measured(a, b) >= Weights.webgl * Scale
<1> DEFINE d == WeightedSum(a, b, Weights)
           g == Weights.webgl
<1>1. ~SameDeviceCore(a, b)
  BY Zenon DEF SameDeviceCore, SameNonEmpty
<1>2. WebglDistance(a, b) = Scale
  BY Zenon DEF WebglDistance, IsGenerated, Apart
<1>3. d \in Nat /\ g * Scale <= d
  BY <1>2, SumBound, Zenon
<1>4. Measured(a, b) = Clamp(d, 100 * Scale)
  BY <1>1, WeightsAddUp, Zenon DEF Measured, DistanceWithWeights, DistanceUnder
<1>5. g \in Nat /\ g <= 100
  BY WeightsAddUp, Zenon
<1> HIDE DEF d, g
<1>6. Measured(a, b) \in Nat /\ Measured(a, b) >= g * Scale
  BY <1>3, <1>4, <1>5, SMT DEF Clamp, Scale
<1> QED BY <1>6, Zenon DEF g

\* The threshold is a number.
LEMMA ThresholdIs == MinDistance \in Int /\ HardLockCeil \in Int /\ Weights.webgl * Scale \in Int
<1>1. HardLockCeil \in Int /\ DefaultMinDistance \in Int
  BY SMT DEF HardLockCeil, DefaultMinDistance, Scale
<1>2. MinDistance \in Int
  BY <1>1, BatchConstants, Zenon DEF MinDistance
<1>3. Weights.webgl * Scale \in Int
  BY WeightsAddUp, SMT DEF Scale
<1> QED BY <1>1, <1>2, <1>3

\* Whatever is far enough apart has two device cores, and is not the same.
LEMMA FarMeansTwoDevices ==
  ASSUME NEW p \in Prints, NEW q \in Prints, <<p, q>> \in Far
  PROVE  /\ ~SameDeviceCore(Device[p], Device[q]) /\ ~SameDeviceCore(Device[q], Device[p])
         /\ Device[p] # Device[q]
<1> DEFINE a == Device[p]
           b == Device[q]
<1>1. IsGenerated(a) /\ IsGenerated(b)
  BY DevicesAreGenerated, Zenon
<1>2. Measured(a, b) >= MinDistance
  BY FarIsMeasured DEF FarApart, Measured
<1> HIDE DEF a, b
<1>3. ~SameDeviceCore(a, b)
  <2>1. ASSUME SameDeviceCore(a, b) PROVE FALSE
    <3>1. Measured(a, b) \in Nat /\ Measured(a, b) <= HardLockCeil
      BY <1>1, <2>1, OneCoreIsClose, Zenon
    <3> DEFINE m == Measured(a, b)
               l == MinDistance
               h == HardLockCeil
    <3>2. m \in Nat /\ l \in Int /\ h \in Int /\ m <= h /\ h < l /\ m >= l
      BY <1>2, <3>1, ThresholdIs, ThresholdTellsDevices, Zenon
    <3> HIDE DEF m, l, h
    <3> QED BY <3>2, SMT
  <2> QED BY <2>1
<1>4. ~SameDeviceCore(b, a) /\ a # b
  BY <1>1, <1>3, Zenon DEF SameDeviceCore, SameNonEmpty, IsGenerated
<1> QED BY <1>3, <1>4, Zenon DEF a, b

\* Whatever is not far enough apart has one GPU.
LEMMA CloseMeansOneGpu ==
  ASSUME NEW p \in Prints, NEW q \in Prints, <<p, q>> \notin Far
  PROVE  SameGPU(p, q)
<1> DEFINE a == Device[p]
           b == Device[q]
<1>1. IsGenerated(a) /\ IsGenerated(b)
  BY DevicesAreGenerated, Zenon
<1>2. ~(Measured(a, b) >= MinDistance)
  BY FarIsMeasured DEF FarApart, Measured
<1> HIDE DEF a, b
<1>3. ASSUME a.renderer # b.renderer PROVE FALSE
  <2>1. Measured(a, b) \in Nat /\ Measured(a, b) >= Weights.webgl * Scale
    BY <1>1, <1>3, OtherGpuIsFar, Zenon
  <2> DEFINE m == Measured(a, b)
             l == MinDistance
             h == Weights.webgl * Scale
  <2>2. m \in Nat /\ l \in Int /\ h \in Int /\ m >= h /\ l <= h /\ ~(m >= l)
    BY <1>2, <2>1, ThresholdIs, ThresholdTellsDevices, Zenon
  <2> HIDE DEF m, l, h
  <2> QED BY <2>2, SMT
<1> QED BY <1>3, Zenon DEF SameGPU, a, b

\* correlate.go and fpdistance.go together, with every threshold that tells devices apart, so
\* with the defaults: no two sessions of a batch are of one device core or copies of each
\* other, and a candidate is refused only for a fingerprint of the same GPU.
THEOREM OneDevicePerSession == CorrelatorSpec => []OneSessionPerDevice
<1>1. CorrelatorInv => OneSessionPerDevice
  <2> SUFFICES ASSUME CorrelatorInv PROVE OneSessionPerDevice
    OBVIOUS
  <2>1. ASSUME NEW c \in Creators, NEW d \in Creators, c # d, HoldsPrint(c), HoldsPrint(d),
               create[c].batch = create[d].batch
        PROVE  /\ ~SameDeviceCore(Device[create[c].print], Device[create[d].print])
               /\ Device[create[c].print] # Device[create[d].print]
    <3>1. create[c].print \in Prints /\ create[d].print \in Prints
      BY <2>1 DEF CorrelatorInv, Candidates, HoldsPrint
    <3>2. \/ <<create[c].print, create[d].print>> \in Far
          \/ <<create[d].print, create[c].print>> \in Far
      BY <2>1 DEF CorrelatorInv, SessionsApart
    <3> QED BY <3>1, <3>2, FarMeansTwoDevices, Zenon
  <2>2. ASSUME NEW c \in Creators, create[c].pc = "admit", ~Passes(create[c].print)
        PROVE  \E i \in DOMAIN admitted : SameGPU(create[c].print, admitted[i])
    <3>1. create[c].print \in Prints /\ admitted \in Seq(Prints)
      BY <2>2 DEF CorrelatorInv, CorrelatorTypeOK, Candidates
    <3>2. PICK i \in 1..Len(admitted) : <<create[c].print, admitted[i]>> \notin Far
      BY <2>2 DEF Passes
    <3>3. i \in DOMAIN admitted /\ admitted[i] \in Prints
      BY <3>1
    <3>4. SameGPU(create[c].print, admitted[i])
      BY <3>1, <3>2, <3>3, CloseMeansOneGpu, Zenon
    <3> QED BY <3>3, <3>4
  <2> QED BY <2>1, <2>2 DEF OneSessionPerDevice
<1> QED BY <1>1, CorrelatorInvariant, PTL

-----------------------------------------------------------------------------
(* CanvasDataset.                                                          *)

LookPcs == {"idle", "load", "swap", "loader", "do", "recheck", "read", "store", "store late",
            "again", "done"}

Looks == [pc : LookPcs, once : Int, seen : Int, since : Int, from : {"lookup", "reload"},
          late : {"no", "late"}]

\* Nothing is expected, and nothing was read, that was never on disk.
CanvasTypeOK ==
  /\ edition \in Nat /\ loader \in Int
  /\ snapshot \in Int
  /\ look \in [Lookers -> Looks]
  /\ floor \in Nat /\ floor <= edition
  /\ overwrote \in {"no", "late"}
  /\ \A c \in Lookers : 0 <= look[c].since /\ look[c].since <= edition

\* A snapshot that nobody stored late, or that is about to be stored in time, is as new as
\* any call may expect.
NewEnough(e) == floor <= e /\ \A c \in Lookers : look[c].since <= e

SnapshotInv ==
  /\ overwrote = "no" /\ snapshot # Nil => NewEnough(snapshot)
  /\ \A c \in Lookers : At(c, "store") => NewEnough(look[c].seen)

\* The inductive invariant behind LookupsSeeTheReload.
CanvasInv == CanvasTypeOK /\ SnapshotInv /\ LookupsSeeTheReload

\* The fields of a call that moves on.
LEMMA LookFields ==
  ASSUME NEW l \in Looks, NEW pc \in LookPcs
  PROVE  /\ [l EXCEPT !.pc = pc] \in Looks
         /\ [l EXCEPT !.pc = pc].pc = pc
         /\ [l EXCEPT !.pc = pc].since = l.since
         /\ [l EXCEPT !.pc = pc].seen = l.seen
         /\ l.seen \in Int /\ l.since \in Int /\ l.pc \in LookPcs
BY DEF Looks

\* The fields of a caller that has no call in progress.
LEMMA NoCallFields ==
  /\ NoCall \in Looks
  /\ NoCall.since = 0 /\ NoCall.pc = "idle" /\ NoCall.seen = Nil /\ Nil = -1
<1>1. NoCall \in Looks
  BY DEF NoCall, Looks, LookPcs, Nil
<1>2. NoCall.since = 0 /\ NoCall.pc = "idle" /\ NoCall.seen = Nil
  BY DEF NoCall
<1> QED BY <1>1, <1>2 DEF Nil

\* The fields of a lookup or a reload that begins.
LEMMA NewCallFields ==
  ASSUME NEW l \in Looks, NEW pc \in LookPcs, NEW e \in Int
  PROVE  /\ [l EXCEPT !.pc = pc, !.since = e] \in Looks
         /\ [l EXCEPT !.pc = pc, !.since = e].pc = pc
         /\ [l EXCEPT !.pc = pc, !.since = e].since = e
         /\ [l EXCEPT !.pc = pc, !.from = "reload", !.since = e] \in Looks
         /\ [l EXCEPT !.pc = pc, !.from = "reload", !.since = e].pc = pc
         /\ [l EXCEPT !.pc = pc, !.from = "reload", !.since = e].since = e
BY DEF Looks

\* The fields of a loader that has read the file.
LEMMA ReadFields ==
  ASSUME NEW l \in Looks, NEW e \in Int
  PROVE  /\ [l EXCEPT !.pc = "store", !.seen = e] \in Looks
         /\ [l EXCEPT !.pc = "store", !.seen = e].pc = "store"
         /\ [l EXCEPT !.pc = "store", !.seen = e].since = l.since
         /\ [l EXCEPT !.pc = "store", !.seen = e].seen = e
BY DEF Looks, LookPcs

\* A call that moves on with what it has, or begins with what is expected now.
LEMMA LookMoves ==
  ASSUME CanvasInv, NEW c \in Lookers, NEW l \in Looks,
         look' = [look EXCEPT ![c] = l],
         l.pc \notin {"store", "done"}, l.since = floor \/ l.since = look[c].since,
         UNCHANGED <<edition, snapshot, loader, floor, overwrote>>
  PROVE  CanvasInv'
<1>a. look \in [Lookers -> Looks]
  BY DEF CanvasInv, CanvasTypeOK
<1>b. look'[c] = l /\ \A d \in Lookers \ {c} : look'[d] = look[d]
  BY <1>a
<1>c. look[c].since \in Int /\ l.since \in Int /\ floor \in Int /\ edition \in Int
      /\ look[c].since <= edition /\ floor <= edition
  BY <1>a DEF CanvasInv, CanvasTypeOK, Looks
<1>1. CanvasTypeOK'
  <2>1. l.since <= edition /\ 0 <= l.since
    BY <1>c DEF CanvasInv, CanvasTypeOK
  <2>2. \A d \in Lookers : 0 <= look'[d].since /\ look'[d].since <= edition
    BY <1>b, <2>1 DEF CanvasInv, CanvasTypeOK
  <2> QED BY <1>a, <2>2 DEF CanvasInv, CanvasTypeOK
<1>2. ASSUME NEW e \in Int, NewEnough(e) PROVE NewEnough(e)'
  <2>1. floor <= e /\ \A d \in Lookers : look[d].since <= e
    BY <1>2 DEF NewEnough
  <2>2. l.since <= e
    BY <1>c, <2>1
  <2> QED BY <1>b, <2>1, <2>2 DEF NewEnough
<1>3. SnapshotInv'
  <2>1. snapshot \in Int /\ \A d \in Lookers : look[d].seen \in Int
    BY <1>a DEF CanvasInv, CanvasTypeOK, Looks
  <2>2. \A d \in Lookers : At(d, "store")' => d # c /\ At(d, "store") /\ look'[d].seen = look[d].seen
    BY <1>b DEF At
  <2> QED BY <1>2, <2>1, <2>2 DEF CanvasInv, SnapshotInv
<1>4. LookupsSeeTheReload'
  BY <1>b DEF CanvasInv, LookupsSeeTheReload, At
<1> QED BY <1>1, <1>3, <1>4 DEF CanvasInv

\* Answering with a value that is new enough for this call.
LEMMA AnswerKeeps ==
  ASSUME CanvasInv, NEW c \in Lookers, NEW got \in Int, Answer(c, got),
         got # Nil, overwrote = "no" => look[c].since <= got,
         UNCHANGED <<edition, snapshot, loader, overwrote>>
  PROVE  CanvasInv'
<1>a. look \in [Lookers -> Looks] /\ look[c] \in Looks
  BY DEF CanvasInv, CanvasTypeOK
<1>b. /\ look'[c] = [look[c] EXCEPT !.pc = "done", !.seen = got, !.late = overwrote]
      /\ \A d \in Lookers \ {c} : look'[d] = look[d]
      /\ look' \in [Lookers -> Looks]
  BY <1>a DEF Answer, CanvasInv, CanvasTypeOK, Looks, LookPcs
<1>c. look'[c].pc = "done" /\ look'[c].seen = got /\ look'[c].late = overwrote
      /\ look'[c].since = look[c].since
  BY <1>a, <1>b DEF Looks
<1>d. /\ look[c].since \in Int /\ floor \in Int
      /\ floor' = floor \/ floor' = look[c].since
  BY <1>a DEF Answer, CanvasInv, CanvasTypeOK, Looks
<1>1. CanvasTypeOK'
  <2>1. floor' \in Nat /\ floor' <= edition
    BY <1>d DEF CanvasInv, CanvasTypeOK
  <2>2. \A d \in Lookers : 0 <= look'[d].since /\ look'[d].since <= edition
    BY <1>b, <1>c DEF CanvasInv, CanvasTypeOK
  <2> QED BY <1>b, <2>1, <2>2 DEF CanvasInv, CanvasTypeOK
<1>2. ASSUME NEW e \in Int, NewEnough(e) PROVE NewEnough(e)'
  BY <1>2, <1>b, <1>c, <1>d DEF NewEnough
<1>3. SnapshotInv'
  <2>1. snapshot \in Int /\ \A d \in Lookers : look[d].seen \in Int
    BY <1>a DEF CanvasInv, CanvasTypeOK, Looks
  <2>2. \A d \in Lookers : At(d, "store")' => d # c /\ At(d, "store") /\ look'[d].seen = look[d].seen
    BY <1>b, <1>c DEF At
  <2> QED BY <1>2, <2>1, <2>2 DEF CanvasInv, SnapshotInv
<1>4. LookupsSeeTheReload'
  <2>1. got >= look[c].since \/ overwrote # "no"
    BY <1>d
  <2> QED BY <1>b, <1>c, <2>1 DEF CanvasInv, LookupsSeeTheReload, At
<1> QED BY <1>1, <1>3, <1>4 DEF CanvasInv

\* Every step of a lookup, of a reload and of the collector keeps the invariant.
LEMMA CanvasStep == CanvasInv /\ [CanvasNext]_canvasVars => CanvasInv'
<1> SUFFICES ASSUME CanvasInv, [CanvasNext]_canvasVars PROVE CanvasInv'
  OBVIOUS
<1>a. /\ look \in [Lookers -> Looks] /\ edition \in Nat /\ snapshot \in Int /\ loader \in Int
      /\ floor \in Int /\ floor <= edition
      /\ \A c \in Lookers : look[c].since <= edition
  BY DEF CanvasInv, CanvasTypeOK
<1>b. \A c \in Lookers : look[c] \in Looks
  BY <1>a
<1>c. NoCall \in Looks /\ NoCall.since = 0 /\ NoCall.pc = "idle"
  BY NoCallFields
\* Goto: a call moves on with what it has.
<1>d. ASSUME NEW c \in Lookers, NEW pc \in LookPcs \ {"store", "done"}, Goto(c, pc),
             UNCHANGED <<edition, snapshot, loader, floor, overwrote>>
      PROVE  CanvasInv'
  <2>1. [look[c] EXCEPT !.pc = pc] \in Looks /\ [look[c] EXCEPT !.pc = pc].pc = pc
        /\ [look[c] EXCEPT !.pc = pc].since = look[c].since
    BY <1>b, LookFields
  <2>2. look' = [look EXCEPT ![c] = [look[c] EXCEPT !.pc = pc]]
    BY <1>d DEF Goto
  <2> QED BY <1>d, <2>1, <2>2, LookMoves
<1>1. CASE NewEdition
  <2>1. edition' = edition + 1 /\ UNCHANGED <<snapshot, loader, once, look, floor, overwrote>>
    BY <1>1 DEF NewEdition
  <2>2. CanvasTypeOK'
    <3>1. \A c \in Lookers : look[c].since \in Int
      BY <1>b DEF Looks
    <3>2. \A c \in Lookers : 0 <= look[c].since /\ look[c].since <= edition + 1
      BY <1>a, <3>1 DEF CanvasInv, CanvasTypeOK
    <3>3. edition + 1 \in Nat /\ floor <= edition + 1
      BY <1>a
    <3> QED BY <2>1, <3>2, <3>3 DEF CanvasInv, CanvasTypeOK
  <2> QED BY <2>1, <2>2 DEF CanvasInv, SnapshotInv, NewEnough, LookupsSeeTheReload, At
<1>2. ASSUME NEW c \in Lookers, LookupCanvas(c) PROVE CanvasInv'
  <2>1. [NoCall EXCEPT !.pc = "load", !.since = floor] \in Looks
        /\ [NoCall EXCEPT !.pc = "load", !.since = floor].pc = "load"
        /\ [NoCall EXCEPT !.pc = "load", !.since = floor].since = floor
    <3>1. NoCall \in Looks /\ "load" \in LookPcs /\ floor \in Int
      BY <1>a, <1>c DEF LookPcs
    <3> HIDE DEF NoCall, Looks, LookPcs
    <3> QED BY <3>1, NewCallFields
  <2>2. /\ UNCHANGED <<edition, snapshot, loader, floor, overwrote>>
        /\ look' = [look EXCEPT ![c] = [NoCall EXCEPT !.pc = "load", !.since = floor]]
    BY <1>2 DEF LookupCanvas
  <2> QED BY <2>1, <2>2, LookMoves
\* Whatever was read before the clear is stored late.
<1>3. ASSUME NEW c \in Lookers, ReloadClears(c) PROVE CanvasInv'
  <2>1. /\ UNCHANGED <<edition, loader, once, floor>>
        /\ snapshot' = Nil /\ overwrote' = "no"
        /\ look'[c] = [NoCall EXCEPT !.pc = "swap", !.from = "reload", !.since = edition]
        /\ \A d \in Lookers \ {c} :
             look'[d] = IF At(d, "store") THEN [look[d] EXCEPT !.pc = "store late"] ELSE look[d]
        /\ DOMAIN look' = Lookers /\ look' = [d \in Lookers |-> look'[d]]
    BY <1>3 DEF ReloadClears
  <2>2. /\ look'[c] \in Looks /\ look'[c].pc = "swap" /\ look'[c].since = edition
    <3>1. NoCall \in Looks /\ "swap" \in LookPcs /\ edition \in Int
      BY <1>a, <1>c DEF LookPcs
    <3>2. LET l == [NoCall EXCEPT !.pc = "swap", !.from = "reload", !.since = edition]
          IN  l \in Looks /\ l.pc = "swap" /\ l.since = edition
      BY <3>1 DEF Looks
    <3> QED BY <2>1, <3>2
  <2>3. \A d \in Lookers \ {c} :
          /\ look'[d] \in Looks /\ look'[d].pc # "store" /\ look'[d].since = look[d].since
          /\ look'[d].pc = "done" => look'[d] = look[d]
    <3> SUFFICES ASSUME NEW d \in Lookers \ {c}
                 PROVE  /\ look'[d] \in Looks /\ look'[d].pc # "store"
                        /\ look'[d].since = look[d].since
                        /\ look'[d].pc = "done" => look'[d] = look[d]
      OBVIOUS
    <3>1. look[d] \in Looks /\ "store late" \in LookPcs
      BY <1>b DEF LookPcs
    <3>2. LET l == [look[d] EXCEPT !.pc = "store late"]
          IN  l \in Looks /\ l.pc = "store late" /\ l.since = look[d].since
      BY <3>1, LookFields
    <3> QED BY <2>1, <3>1, <3>2 DEF At
  <2>4. look' \in [Lookers -> Looks]
    BY <2>1, <2>2, <2>3
  <2>5. CanvasTypeOK'
    <3>1. \A d \in Lookers : 0 <= look'[d].since /\ look'[d].since <= edition
      BY <1>a, <2>2, <2>3 DEF CanvasInv, CanvasTypeOK
    <3>2. snapshot' \in Int
      <4>1. snapshot' = Nil
        BY <2>1
      <4>2. Nil \in Int
        BY DEF Nil
      <4> QED BY <4>1, <4>2
    <3> QED BY <2>1, <2>4, <3>1, <3>2 DEF CanvasInv, CanvasTypeOK
  <2>6. SnapshotInv'
    <3>1. snapshot' = Nil
      BY <2>1
    <3>2. \A d \in Lookers : look'[d].pc # "store"
      BY <2>2, <2>3
    <3>3. (overwrote = "no" /\ snapshot # Nil => NewEnough(snapshot))'
      BY <3>1
    <3>4. (\A d \in Lookers : At(d, "store") => NewEnough(look[d].seen))'
      BY <3>2 DEF At
    <3> QED BY <3>3, <3>4 DEF SnapshotInv
  <2>7. LookupsSeeTheReload'
    <3>1. \A d \in Lookers : look'[d].pc = "done" => look'[d] = look[d]
      BY <2>2, <2>3
    <3>2. LookupsSeeTheReload
      BY DEF CanvasInv
    <3> QED BY <3>1, <3>2 DEF LookupsSeeTheReload, At
  <2> QED BY <2>5, <2>6, <2>7 DEF CanvasInv
<1>4. ASSUME NEW c \in Lookers, ReloadSwaps(c) PROVE CanvasInv'
  <2>1. [look[c] EXCEPT !.pc = "load"] \in Looks
    <3>1. look[c] \in Looks /\ "load" \in LookPcs
      BY <1>b DEF LookPcs
    <3> QED BY <3>1, LookFields
  <2>2. /\ UNCHANGED <<edition, snapshot, once, floor, overwrote>> /\ loader' \in Int
        /\ look'[c] = [look[c] EXCEPT !.pc = "load"]
        /\ \A d \in Lookers \ {c} : look'[d] = look[d]
        /\ look' \in [Lookers -> Looks]
    BY <1>4, <1>a, <2>1 DEF ReloadSwaps, Goto
  <2>3. look'[c].pc = "load" /\ look'[c].since = look[c].since
    <3>1. look[c] \in Looks /\ "load" \in LookPcs
      BY <1>b DEF LookPcs
    <3> QED BY <3>1, <2>2, LookFields
  <2>4. \A d \in Lookers : look'[d].since = look[d].since
    BY <2>2, <2>3
  <2>5. CanvasTypeOK'
    BY <1>a, <2>2, <2>4 DEF CanvasInv, CanvasTypeOK
  <2>6. SnapshotInv' /\ LookupsSeeTheReload'
    BY <2>2, <2>3, <2>4 DEF CanvasInv, SnapshotInv, NewEnough, LookupsSeeTheReload, At
  <2> QED BY <2>5, <2>6 DEF CanvasInv
<1>5. ASSUME NEW c \in Lookers, Load(c) \/ LoadAgain(c) PROVE CanvasInv'
  <2>1. CASE snapshot # Nil
    <3>1. Answer(c, snapshot) /\ UNCHANGED <<edition, snapshot, loader, overwrote>>
      BY <1>5, <2>1 DEF Load, LoadAgain
    <3>2. overwrote = "no" => look[c].since <= snapshot
      BY <2>1 DEF CanvasInv, SnapshotInv, NewEnough
    <3> QED BY <1>a, <2>1, <3>1, <3>2, AnswerKeeps
  <2>2. CASE snapshot = Nil /\ Load(c)
    BY <2>2, <1>d DEF Load, LookPcs
  <2>3. CASE snapshot = Nil /\ LoadAgain(c)
    <3>1. edition # Nil /\ edition \in Int
      BY <1>a DEF Nil
    <3> QED BY <1>a, <2>3, <3>1, AnswerKeeps DEF LoadAgain
  <2> QED BY <1>5, <2>1, <2>2, <2>3
<1>6. ASSUME NEW c \in Lookers, TakeLoader(c) PROVE CanvasInv'
  <2>1. [look[c] EXCEPT !.pc = "do", !.once = loader] \in Looks
        /\ [look[c] EXCEPT !.pc = "do", !.once = loader].pc = "do"
        /\ [look[c] EXCEPT !.pc = "do", !.once = loader].since = look[c].since
    BY <1>a, <1>b DEF Looks, LookPcs
  <2>2. look' = [look EXCEPT ![c] = [look[c] EXCEPT !.pc = "do", !.once = loader]]
    BY <1>6 DEF TakeLoader
  <2> QED BY <1>6, <2>1, <2>2, LookMoves DEF TakeLoader
<1>7. ASSUME NEW c \in Lookers, Do(c) \/ Recheck(c) PROVE CanvasInv'
  BY <1>7, <1>d DEF Do, Recheck, LookPcs
\* What is read now is as new as anything that is expected now.
<1>8. ASSUME NEW c \in Lookers, ReadDataset(c) PROVE CanvasInv'
  <2>1. [look[c] EXCEPT !.pc = "store", !.seen = edition] \in Looks
    <3>1. look[c] \in Looks /\ edition \in Int
      BY <1>a, <1>b
    <3> QED BY <3>1, ReadFields
  <2>2. /\ UNCHANGED <<edition, snapshot, loader, once, floor, overwrote>>
        /\ look'[c] = [look[c] EXCEPT !.pc = "store", !.seen = edition]
        /\ \A d \in Lookers \ {c} : look'[d] = look[d]
        /\ look' \in [Lookers -> Looks]
    BY <1>8, <1>a, <2>1 DEF ReadDataset
  <2>3. look'[c].pc = "store" /\ look'[c].since = look[c].since /\ look'[c].seen = edition
    <3>1. look[c] \in Looks /\ edition \in Int
      BY <1>a, <1>b
    <3>2. LET l == [look[c] EXCEPT !.pc = "store", !.seen = edition]
          IN  l.pc = "store" /\ l.since = look[c].since /\ l.seen = edition
      BY <3>1, ReadFields
    <3> QED BY <3>2, <2>2
  <2>4. \A d \in Lookers : look'[d].since = look[d].since
    BY <2>2, <2>3
  <2>5. CanvasTypeOK'
    BY <1>a, <2>2, <2>4 DEF CanvasInv, CanvasTypeOK
  <2>6. SnapshotInv' /\ LookupsSeeTheReload'
    BY <1>a, <2>2, <2>3, <2>4 DEF CanvasInv, SnapshotInv, NewEnough, LookupsSeeTheReload, At
  <2> QED BY <2>5, <2>6 DEF CanvasInv
<1>9. ASSUME NEW c \in Lookers, StoreDataset(c) PROVE CanvasInv'
  <2>1. [look[c] EXCEPT !.pc = "again"] \in Looks
    <3>1. look[c] \in Looks /\ "again" \in LookPcs
      BY <1>b DEF LookPcs
    <3> QED BY <3>1, LookFields
  <2>2. /\ UNCHANGED <<edition, loader, floor>>
        /\ snapshot' = look[c].seen
        /\ \/ At(c, "store") /\ overwrote' = overwrote
           \/ At(c, "store late") /\ overwrote' = "late"
        /\ look'[c] = [look[c] EXCEPT !.pc = "again"]
        /\ \A d \in Lookers \ {c} : look'[d] = look[d]
        /\ look' \in [Lookers -> Looks]
    BY <1>9, <1>a, <2>1 DEF StoreDataset, Goto, At
  <2>3. look'[c].pc = "again" /\ look'[c].since = look[c].since /\ look[c].seen \in Int
    <3>1. look[c] \in Looks /\ "again" \in LookPcs
      BY <1>b DEF LookPcs
    <3>2. LET l == [look[c] EXCEPT !.pc = "again"]
          IN  l.pc = "again" /\ l.since = look[c].since /\ look[c].seen \in Int
      BY <3>1, LookFields
    <3> QED BY <3>2, <2>2
  <2>4. \A d \in Lookers : look'[d].since = look[d].since
    BY <2>2, <2>3
  <2>5. CanvasTypeOK'
    BY <1>a, <2>2, <2>3, <2>4 DEF CanvasInv, CanvasTypeOK
  <2>6. SnapshotInv' /\ LookupsSeeTheReload'
    BY <2>2, <2>3, <2>4 DEF CanvasInv, SnapshotInv, NewEnough, LookupsSeeTheReload, At
  <2> QED BY <2>5, <2>6 DEF CanvasInv
<1>10. ASSUME NEW c \in Lookers, HangUp(c) PROVE CanvasInv'
  <2>1. /\ UNCHANGED <<edition, snapshot, loader, once, floor, overwrote>>
        /\ look'[c] = NoCall
        /\ \A d \in Lookers \ {c} : look'[d] = look[d]
        /\ look' \in [Lookers -> Looks]
    BY <1>10, <1>a, <1>c DEF HangUp
  <2>2. look[c].since >= 0
    BY DEF CanvasInv, CanvasTypeOK
  <2>3. CanvasTypeOK'
    BY <1>a, <1>c, <2>1 DEF CanvasInv, CanvasTypeOK
  <2>4. ASSUME NEW e \in Int, NewEnough(e) PROVE NewEnough(e)'
    <3>1. look[c].since <= e /\ look[c].since \in Int
      BY <2>4, <1>b DEF NewEnough, Looks
    <3> QED BY <2>1, <2>2, <2>4, <3>1, <1>c DEF NewEnough
  <2>5. SnapshotInv'
    <3>1. \A d \in Lookers : look[d].seen \in Int
      BY <1>b DEF Looks
    <3> QED BY <1>a, <1>c, <2>1, <2>4, <3>1 DEF CanvasInv, SnapshotInv, At
  <2>6. LookupsSeeTheReload'
    BY <1>c, <2>1 DEF CanvasInv, LookupsSeeTheReload, At
  <2> QED BY <2>3, <2>5, <2>6 DEF CanvasInv
<1>11. CASE UNCHANGED canvasVars
  BY <1>11 DEF canvasVars, CanvasInv, CanvasTypeOK, SnapshotInv, NewEnough, LookupsSeeTheReload, At
<1> QED BY <1>1, <1>2, <1>3, <1>4, <1>5, <1>6, <1>7, <1>8, <1>9, <1>10, <1>11 DEF CanvasNext

\* A lookup never sees the gap between the two steps of a reload, and sees no older data
\* than the last reload that returned before it, unless a slow reader published what it had
\* read before that reload.
THEOREM LookupsAlwaysSeeTheReload == CanvasSpec => []LookupsSeeTheReload
<1>1. CanvasInit => CanvasInv
  BY DEF CanvasInit, CanvasInv, CanvasTypeOK, SnapshotInv, NewEnough, LookupsSeeTheReload, At,
     NoCall, Looks, LookPcs, Nil
<1>2. CanvasInv => LookupsSeeTheReload
  BY DEF CanvasInv
<1> QED BY <1>1, <1>2, CanvasStep, PTL DEF CanvasSpec

-----------------------------------------------------------------------------
(* ProfileStore.                                                           *)

StoredPrints == [seed : ProfileSeeds \cup {0}, asked : Asked, data : Int]
Snaps == [what : {"missing", "torn", "whole"}, print : StoredPrints, place : {"none"} \cup Places]
LiveSessions == [print : StoredPrints, place : {"none"} \cup Places, like : Snaps]
RequestPcs == {"idle", "place", "open", "write", "write unlinked", "resume"}
RequestRecs == [pc : RequestPcs, slot : Slots \cup {0}, read : Snaps, like : Snaps]

ProfileTypes ==
  /\ data \in Int
  /\ live \in [Slots -> LiveSessions]
  /\ profileFile \in [Slots -> Snaps]
  /\ trusted \in [Slots -> Snaps]
  /\ req \in [ProfileRequests -> RequestRecs]

\* A session that says what it was resumed from is like it.
IsLike(session) ==
  session.like # Missing =>
    /\ session.place = session.like.place
    /\ session.print.seed = session.like.print.seed
    /\ session.print.asked = "any"

\* A request that loaded a trusted profile carries it.
CarriesTrusted(request) ==
  request.pc = "resume" /\ request.like # Missing => request.read = request.like

\* The inductive invariant behind SavedProfilesResume: between the load of a profile and the
\* session made from it, the request holds what was trusted when it was loaded.
ProfileInv ==
  /\ ProfileTypes
  /\ \A s \in Slots : trusted[s] # Missing => profileFile[s] = trusted[s]
  /\ \A s \in Slots : IsLike(live[s])
  /\ \A r \in ProfileRequests : CarriesTrusted(req[r])

\* The values that stand for nothing yet.
LEMMA ProfileBlanks ==
  /\ NoPrint \in StoredPrints /\ Missing \in Snaps /\ TornFile \in Snaps
  /\ NoSession \in LiveSessions /\ Idle \in RequestRecs
  /\ IsLike(NoSession) /\ CarriesTrusted(Idle)
  /\ TornFile.what = "torn"
<1>1. NoPrint \in StoredPrints
  BY DEF NoPrint, StoredPrints, Asked
<1>2. Missing \in Snaps
  BY <1>1 DEF Missing, Snaps
<1>3. TornFile \in Snaps /\ TornFile.what = "torn"
  BY <1>2 DEF TornFile, Snaps
<1>4. NoSession \in LiveSessions /\ NoSession.like = Missing
  BY <1>1, <1>2 DEF NoSession, LiveSessions
<1>5. Idle \in RequestRecs /\ Idle.pc = "idle"
  BY <1>2 DEF Idle, RequestRecs, RequestPcs
<1> QED BY <1>1, <1>2, <1>3, <1>4, <1>5 DEF IsLike, CarriesTrusted

\* A step of a request alone.
LEMMA RequestMoves ==
  ASSUME ProfileInv, NEW r \in ProfileRequests, NEW q \in RequestRecs, CarriesTrusted(q),
         req' = [req EXCEPT ![r] = q], UNCHANGED <<data, live, profileFile, trusted>>
  PROVE  ProfileInv'
<1>1. req' \in [ProfileRequests -> RequestRecs]
  BY DEF ProfileInv, ProfileTypes
<1>2. \A o \in ProfileRequests : req'[o] = IF o = r THEN q ELSE req[o]
  BY DEF ProfileInv, ProfileTypes
<1>3. (\A o \in ProfileRequests : CarriesTrusted(req[o]))'
  BY <1>2 DEF ProfileInv, CarriesTrusted
<1>4. ProfileTypes'
  BY <1>1 DEF ProfileInv, ProfileTypes
<1> QED BY <1>3, <1>4 DEF ProfileInv, IsLike

\* A step of a session alone.
LEMMA SessionMoves ==
  ASSUME ProfileInv, NEW s \in Slots, NEW l \in LiveSessions, IsLike(l),
         live' = [live EXCEPT ![s] = l], UNCHANGED <<data, profileFile, trusted, req>>
  PROVE  ProfileInv'
<1>1. live' \in [Slots -> LiveSessions]
  BY DEF ProfileInv, ProfileTypes
<1>2. \A o \in Slots : live'[o] = IF o = s THEN l ELSE live[o]
  BY DEF ProfileInv, ProfileTypes
<1>3. (\A o \in Slots : IsLike(live[o]))'
  BY <1>2 DEF ProfileInv, IsLike
<1>4. ProfileTypes'
  BY <1>1 DEF ProfileInv, ProfileTypes
<1> QED BY <1>3, <1>4 DEF ProfileInv, CarriesTrusted

\* A step of a save on the file: whatever is trusted of it is what it holds now.
LEMMA FileMoves ==
  ASSUME ProfileInv, NEW r \in ProfileRequests, NEW q \in RequestRecs, CarriesTrusted(q),
         NEW s, NEW f \in Snaps, NEW t \in Snaps, t # Missing => f = t,
         profileFile' = [profileFile EXCEPT ![s] = f], trusted' = [trusted EXCEPT ![s] = t],
         req' = [req EXCEPT ![r] = q], UNCHANGED <<data, live>>
  PROVE  ProfileInv'
<1>1. req' \in [ProfileRequests -> RequestRecs]
  BY DEF ProfileInv, ProfileTypes
<1>2. \A o \in ProfileRequests : req'[o] = IF o = r THEN q ELSE req[o]
  BY DEF ProfileInv, ProfileTypes
<1>3. (\A o \in ProfileRequests : CarriesTrusted(req[o]))'
  BY <1>2 DEF ProfileInv, CarriesTrusted
<1>4. /\ profileFile' \in [Slots -> Snaps] /\ trusted' \in [Slots -> Snaps]
      /\ \A o \in Slots : /\ profileFile'[o] = IF o = s THEN f ELSE profileFile[o]
                          /\ trusted'[o] = IF o = s THEN t ELSE trusted[o]
  BY DEF ProfileInv, ProfileTypes
<1>5. ProfileTypes'
  BY <1>1, <1>4 DEF ProfileInv, ProfileTypes
<1>6. (\A o \in Slots : trusted[o] # Missing => profileFile[o] = trusted[o])'
  <2> SUFFICES ASSUME NEW o \in Slots, trusted'[o] # Missing PROVE profileFile'[o] = trusted'[o]
    BY DEF Missing, NoPrint
  <2>1. CASE o = s
    BY <1>4, <2>1
  <2>2. CASE o # s
    BY <1>4, <2>2 DEF ProfileInv
  <2> QED BY <2>1, <2>2
<1>7. (\A o \in Slots : IsLike(live[o]))'
  BY DEF ProfileInv, IsLike
<1> QED BY <1>3, <1>5, <1>6, <1>7 DEF ProfileInv

\* What the generator draws is a fingerprint.
LEMMA GeneratedPrint ==
  ASSUME data \in Int, NEW seed \in ProfileSeeds \cup {0}, NEW asked \in Asked
  PROVE  Generated(seed, asked) \in StoredPrints
BY DEF Generated, StoredPrints

\* Every step of a session, of a save, of a resume and of a crash keeps the invariant.
LEMMA ProfileStep == ProfileInv /\ [ProfileNext]_profileVars => ProfileInv'
<1> SUFFICES ASSUME ProfileInv, [ProfileNext]_profileVars PROVE ProfileInv'
  OBVIOUS
<1>a. /\ data \in Int
      /\ \A s \in Slots : live[s] \in LiveSessions /\ profileFile[s] \in Snaps
                          /\ trusted[s] \in Snaps
      /\ \A r \in ProfileRequests : req[r] \in RequestRecs
  BY DEF ProfileInv, ProfileTypes
<1>1. CASE NewData
  BY <1>1 DEF NewData, ProfileInv, ProfileTypes, IsLike, CarriesTrusted
<1>2. CASE Crash
  <2>1. /\ UNCHANGED <<data, profileFile, trusted>>
        /\ live' = [s \in Slots |-> NoSession] /\ req' = [r \in ProfileRequests |-> Idle]
    BY <1>2 DEF Crash
  <2>2. ProfileTypes'
    BY <2>1, ProfileBlanks DEF ProfileInv, ProfileTypes
  <2>3. (\A s \in Slots : IsLike(live[s]))'
    BY <2>1, ProfileBlanks DEF IsLike
  <2>4. (\A r \in ProfileRequests : CarriesTrusted(req[r]))'
    BY <2>1, ProfileBlanks DEF CarriesTrusted
  <2> QED BY <2>1, <2>2, <2>3, <2>4 DEF ProfileInv
<1>3. ASSUME NEW s \in Slots, NEW seed \in ProfileSeeds, NEW asked \in Asked, NEW place \in Places,
             Create(s, seed, asked, place)
      PROVE  ProfileInv'
  <2> DEFINE l == [print |-> Generated(seed, asked), place |-> place, like |-> Missing]
  <2>1. l \in LiveSessions /\ l.like = Missing
    BY <1>a, GeneratedPrint, ProfileBlanks DEF LiveSessions
  <2>2. IsLike(l)
    BY <2>1 DEF IsLike
  <2>3. live' = [live EXCEPT ![s] = l] /\ UNCHANGED <<data, profileFile, trusted, req>>
    BY <1>3 DEF Create
  <2> HIDE DEF l
  <2> QED BY <2>1, <2>2, <2>3, SessionMoves
<1>4. ASSUME NEW s \in Slots, NEW place \in Places, Browse(s, place) PROVE ProfileInv'
  <2> DEFINE l == [live[s] EXCEPT !.place = place, !.like = Missing]
  <2>1. l \in LiveSessions /\ l.like = Missing
    <3>1. live[s] \in LiveSessions /\ Missing \in Snaps
      BY <1>a, ProfileBlanks
    <3> QED BY <3>1 DEF LiveSessions
  <2>2. IsLike(l)
    BY <2>1 DEF IsLike
  <2>3. live' = [live EXCEPT ![s] = l] /\ UNCHANGED <<data, profileFile, trusted, req>>
    BY <1>4 DEF Browse
  <2> HIDE DEF l
  <2> QED BY <2>1, <2>2, <2>3, SessionMoves
<1>5. ASSUME NEW s \in Slots, NEW seed \in ProfileSeeds, NEW asked \in Asked, Swap(s, seed, asked)
      PROVE  ProfileInv'
  <2> DEFINE l == [live[s] EXCEPT !.print = Generated(seed, asked), !.like = Missing]
  <2>1. l \in LiveSessions /\ l.like = Missing
    <3>1. live[s] \in LiveSessions /\ Missing \in Snaps /\ Generated(seed, asked) \in StoredPrints
      BY <1>a, ProfileBlanks, GeneratedPrint
    <3> QED BY <3>1 DEF LiveSessions
  <2>2. IsLike(l)
    BY <2>1 DEF IsLike
  <2>3. live' = [live EXCEPT ![s] = l] /\ UNCHANGED <<data, profileFile, trusted, req>>
    BY <1>5 DEF Swap
  <2> HIDE DEF l
  <2> QED BY <2>1, <2>2, <2>3, SessionMoves
<1>6. ASSUME NEW s \in Slots, Close(s) PROVE ProfileInv'
  BY <1>6, ProfileBlanks, SessionMoves DEF Close
<1>7. ASSUME NEW s \in Slots, DeleteProfile(s) PROVE ProfileInv'
  <2>1. /\ UNCHANGED <<data, live>>
        /\ profileFile' = [profileFile EXCEPT ![s] = Missing]
        /\ trusted' = [trusted EXCEPT ![s] = Missing]
        /\ req' = [r \in ProfileRequests |->
             IF Writing(r, s) THEN [req[r] EXCEPT !.pc = "write unlinked"] ELSE req[r]]
    BY <1>7 DEF DeleteProfile
  <2>2. ASSUME NEW r \in ProfileRequests
        PROVE  req'[r] \in RequestRecs /\ CarriesTrusted(req'[r])
    <3> DEFINE q == [req[r] EXCEPT !.pc = "write unlinked"]
    <3>1. q \in RequestRecs /\ q.pc = "write unlinked"
      <4>1. req[r] \in RequestRecs
        BY <1>a
      <4> QED BY <4>1 DEF RequestRecs, RequestPcs
    <3>2. CarriesTrusted(q)
      BY <3>1 DEF CarriesTrusted
    <3>3. req'[r] = q \/ req'[r] = req[r]
      BY <2>1
    <3>4. CarriesTrusted(req[r])
      BY DEF ProfileInv
    <3> HIDE DEF q
    <3> QED BY <1>a, <3>1, <3>2, <3>3, <3>4
  <2>3. /\ profileFile' \in [Slots -> Snaps] /\ trusted' \in [Slots -> Snaps]
        /\ \A o \in Slots : /\ profileFile'[o] = IF o = s THEN Missing ELSE profileFile[o]
                            /\ trusted'[o] = IF o = s THEN Missing ELSE trusted[o]
    BY <2>1, ProfileBlanks DEF ProfileInv, ProfileTypes
  <2>4. ProfileTypes'
    <3>1. req' \in [ProfileRequests -> RequestRecs]
      BY <2>1, <2>2
    <3> QED BY <2>1, <2>3, <3>1 DEF ProfileInv, ProfileTypes
  <2>5. (\A o \in Slots : trusted[o] # Missing => profileFile[o] = trusted[o])'
    BY <2>3 DEF ProfileInv
  <2>6. (\A o \in Slots : IsLike(live[o]))' /\ (\A r \in ProfileRequests : CarriesTrusted(req[r]))'
    BY <2>1, <2>2 DEF ProfileInv, IsLike, CarriesTrusted
  <2> QED BY <2>4, <2>5, <2>6 DEF ProfileInv
<1>8. ASSUME NEW r \in ProfileRequests, NEW s \in Slots, ReadPrint(r, s) PROVE ProfileInv'
  <2> DEFINE q == [Idle EXCEPT !.pc = "place", !.slot = s, !.read = Snapshot(live[s].print, "none")]
  <2>1. q \in RequestRecs /\ q.pc = "place"
    <3>1. live[s].print \in StoredPrints
      BY <1>a DEF LiveSessions
    <3>2. Snapshot(live[s].print, "none") \in Snaps
      BY <3>1 DEF Snapshot, Snaps
    <3> QED BY <3>2, ProfileBlanks DEF RequestRecs, RequestPcs
  <2>2. CarriesTrusted(q)
    BY <2>1 DEF CarriesTrusted
  <2>3. req' = [req EXCEPT ![r] = q] /\ UNCHANGED <<data, live, profileFile, trusted>>
    BY <1>8 DEF ReadPrint
  <2> HIDE DEF q
  <2> QED BY <2>1, <2>2, <2>3, RequestMoves
<1>9. ASSUME NEW r \in ProfileRequests, NEW place \in Places, ReadPlace(r, place) PROVE ProfileInv'
  <2> DEFINE q == [req[r] EXCEPT !.pc = "open", !.read.place = place]
  <2>1. q \in RequestRecs /\ q.pc = "open"
    <3>1. req[r] \in RequestRecs
      BY <1>a
    <3>2. [req[r].read EXCEPT !.place = place] \in Snaps
      BY <3>1 DEF RequestRecs, Snaps
    <3> QED BY <3>1, <3>2 DEF RequestRecs, RequestPcs
  <2>2. CarriesTrusted(q)
    BY <2>1 DEF CarriesTrusted
  <2>3. req' = [req EXCEPT ![r] = q] /\ UNCHANGED <<data, live, profileFile, trusted>>
    BY <1>9 DEF ReadPlace
  <2> HIDE DEF q
  <2> QED BY <2>1, <2>2, <2>3, RequestMoves
<1>10. ASSUME NEW r \in ProfileRequests, OpenProfile(r) PROVE ProfileInv'
  <2> DEFINE q == [req[r] EXCEPT !.pc = "write"]
  <2>1. q \in RequestRecs /\ q.pc = "write"
    <3>1. req[r] \in RequestRecs
      BY <1>a
    <3> QED BY <3>1 DEF RequestRecs, RequestPcs
  <2>2. CarriesTrusted(q)
    BY <2>1 DEF CarriesTrusted
  <2>3. /\ profileFile' = [profileFile EXCEPT ![req[r].slot] = TornFile]
        /\ trusted' = [trusted EXCEPT ![req[r].slot] = Missing]
        /\ req' = [req EXCEPT ![r] = q] /\ UNCHANGED <<data, live>>
    BY <1>10 DEF OpenProfile
  <2> HIDE DEF q
  <2> QED BY <2>1, <2>2, <2>3, FileMoves, ProfileBlanks
<1>11. ASSUME NEW r \in ProfileRequests, NEW result, WriteProfile(r, result) PROVE ProfileInv'
  <2> DEFINE s == req[r].slot
             t == IF profileFile[s] = TornFile /\ (\A o \in ProfileRequests \ {r} : ~Writing(o, s))
                  THEN req[r].read ELSE Missing
  <2>1. /\ profileFile' = [profileFile EXCEPT ![s] = result]
        /\ trusted' = [trusted EXCEPT ![s] = t]
        /\ req' = [req EXCEPT ![r] = Idle] /\ UNCHANGED <<data, live>>
        /\ result = req[r].read \/ (profileFile[s].what = "whole" /\ result = TornFile)
    BY <1>11 DEF WriteProfile
  <2>2. req[r].read \in Snaps
    BY <1>a DEF RequestRecs
  <2>3. result \in Snaps /\ t \in Snaps
    BY <2>1, <2>2, ProfileBlanks
  <2>4. t # Missing => result = t
    BY <2>1, ProfileBlanks
  <2> HIDE DEF t, s
  <2> QED BY <2>1, <2>3, <2>4, FileMoves, ProfileBlanks
<1>12. ASSUME NEW r \in ProfileRequests, SaveFails(r) PROVE ProfileInv'
  BY <1>12, FileMoves, ProfileBlanks DEF SaveFails
<1>13. ASSUME NEW r \in ProfileRequests, WriteUnlinked(r) PROVE ProfileInv'
  BY <1>13, RequestMoves, ProfileBlanks DEF WriteUnlinked
<1>14. ASSUME NEW r \in ProfileRequests, NEW s \in Slots, LoadProfile(r, s) PROVE ProfileInv'
  <2> DEFINE q == [pc |-> "resume", slot |-> s, read |-> profileFile[s], like |-> trusted[s]]
  <2>1. q \in RequestRecs
    BY <1>a DEF RequestRecs, RequestPcs
  <2>2. CarriesTrusted(q)
    BY DEF CarriesTrusted, ProfileInv
  <2>3. req' = [req EXCEPT ![r] = q] /\ UNCHANGED <<data, live, profileFile, trusted>>
    BY <1>14 DEF LoadProfile
  <2> HIDE DEF q
  <2> QED BY <2>1, <2>2, <2>3, RequestMoves
\* The session is made of the request: what it was loaded from is what was trusted.
<1>15. ASSUME NEW r \in ProfileRequests, NEW s \in Slots, Resume(r, s) PROVE ProfileInv'
  <2> DEFINE q == req[r]
             print == Generated(q.read.print.seed, "any")
             l == [print |-> print, place |-> q.read.place, like |-> q.like]
  <2>1. /\ q \in RequestRecs /\ q.read \in Snaps /\ q.like \in Snaps
        /\ q.read.print \in StoredPrints /\ q.read.print.seed \in ProfileSeeds \cup {0}
        /\ q.read.place \in {"none"} \cup Places
    BY <1>a DEF RequestRecs, Snaps, StoredPrints
  <2>2. print \in StoredPrints
    BY <1>a, <2>1, GeneratedPrint DEF Asked
  <2>3. l \in LiveSessions
    BY <2>1, <2>2 DEF LiveSessions
  <2>4. /\ q.pc = "resume" /\ UNCHANGED <<data, profileFile, trusted>>
        /\ live' = [live EXCEPT ![s] = l] /\ req' = [req EXCEPT ![r] = Idle]
    BY <1>15 DEF Resume, ResumeAs
  <2>5. IsLike(l)
    <3>1. q.like # Missing => q.read = q.like
      BY <2>4 DEF ProfileInv, CarriesTrusted
    <3>2. print.seed = q.read.print.seed /\ print.asked = "any"
      BY DEF Generated
    <3>3. l.place = q.read.place /\ l.print = print /\ l.like = q.like
      OBVIOUS
    <3> HIDE DEF q, print, l
    <3> QED BY <3>1, <3>2, <3>3 DEF IsLike
  <2> HIDE DEF q, print, l
  <2>6. /\ \A o \in Slots : live'[o] = IF o = s THEN l ELSE live[o]
        /\ live' \in [Slots -> LiveSessions]
    BY <2>3, <2>4 DEF ProfileInv, ProfileTypes
  <2>7. /\ \A o \in ProfileRequests : req'[o] = IF o = r THEN Idle ELSE req[o]
        /\ req' \in [ProfileRequests -> RequestRecs]
    BY <2>4, ProfileBlanks DEF ProfileInv, ProfileTypes
  <2>8. ProfileTypes'
    BY <2>4, <2>6, <2>7 DEF ProfileInv, ProfileTypes
  <2>9. (\A o \in Slots : IsLike(live[o]))'
    BY <2>5, <2>6 DEF ProfileInv, IsLike
  <2>10. (\A o \in ProfileRequests : CarriesTrusted(req[o]))'
    BY <2>7, ProfileBlanks DEF ProfileInv, CarriesTrusted
  <2> QED BY <2>4, <2>8, <2>9, <2>10 DEF ProfileInv
<1>16. CASE UNCHANGED profileVars
  BY <1>16 DEF profileVars, ProfileInv, ProfileTypes, IsLike, CarriesTrusted
<1> QED
  BY <1>1, <1>2, <1>3, <1>4, <1>5, <1>6, <1>7, <1>8, <1>9, <1>10, <1>11, <1>12, <1>13, <1>14, <1>15,
     <1>16 DEF ProfileNext

\* A profile that one request alone saved stays what was saved, and the session resumed from
\* it is where the saved one was and has the fingerprint of the saved seed for nothing in
\* particular: whatever saves, deletions, updates and crashes come between.
THEOREM ProfilesResume == ProfileSpec => []SavedProfilesResume
<1>1. ProfileInit => ProfileInv
  <2> SUFFICES ASSUME ProfileInit PROVE ProfileInv
    OBVIOUS
  <2>1. ProfileTypes
    BY ProfileBlanks DEF ProfileInit, ProfileTypes
  <2> QED BY <2>1, ProfileBlanks DEF ProfileInit, ProfileInv
<1>2. ProfileInv => SavedProfilesResume
  BY DEF ProfileInv, SavedProfilesResume, IsLike
<1> QED BY <1>1, <1>2, ProfileStep, PTL DEF ProfileSpec

-----------------------------------------------------------------------------
(* Fingerprint.                                                            *)

\* The lengths of a screen.
Lengths == {"width", "height", "availWidth", "availHeight", "outerWidth", "outerHeight"}

\* A User-Agent of the store, with what its distributions hold.
EntryInv(e) ==
  /\ e.browser = uaBrowser(e.ua) /\ e.os = uaOS(e.ua)
  /\ supportedBrowser(e.browser) /\ supportedOS(e.os)
  /\ \A g \in e.gpus : GpuOnOS(e.os, g.v)
  /\ \A s \in e.screens : \A key \in Lengths : s.v[key] \in Nat
  /\ \A m \in e.memory : m.v \in Int

\* A screen of the legacy sampler.
FlatScreen(s) ==
  s.height \in Nat /\ s.availHeight \in Nat /\ (s.availHeight = 0 => s.height = 0)

\* A profile that was drawn.
DeviceInv(d) ==
  /\ d.origin = "joint"
  /\ d.browser = uaBrowser(d.ua) /\ d.os = uaOS(d.ua)
  /\ supportedBrowser(d.browser) /\ supportedOS(d.os)
  /\ d.gpu.renderer # EmptyString => GpuOnOS(d.os, d.gpu)
  /\ \A key \in Lengths : d.screen[key] \in Nat
  /\ d.memory \in Int /\ d.memory >= 1
  /\ wanted.os \in {AnyOf, d.os} /\ wanted.browser \in {AnyOf, d.browser}

\* What the builders see to: everything that a fingerprint is validated for, and more, but
\* not that a screen has the height that it says is available.
Built(f) ==
  /\ uaBrowser(f.nav.ua) = f.browser /\ uaOS(f.nav.ua) = f.os /\ f.nav.ua.has # EmptyString
  /\ f.nav.platform = f.platform
  /\ f.nav.hints = (IF f.browser # "chrome" THEN "none"
                    ELSE IF f.os = "android" THEN "mobile" ELSE "desktop")
  /\ (f.browser = "chrome" /\ f.os = "android") => f.nav.touch > 0
  /\ f.nav.memory >= 1 /\ f.nav.cores \in 1..64
  /\ tzLanguageConsistent(f.timezone, f.nav.language)
  /\ f.screen.height \in Nat /\ f.screen.availHeight \in Nat /\ f.window.outerHeight \in Nat
  /\ f.window.innerHeight <= f.window.outerHeight /\ f.window.outerHeight <= f.screen.availHeight
  /\ RendererFits(f)
  /\ f.gpu.vendor # EmptyString => f.canvas = canvasHashKey(f.major, f.os, f.webgl.vendor)
  /\ f.origin = "joint" =>
       /\ f.window.outerWidth <= f.screen.availWidth /\ f.window.outerHeight > 0
       /\ wanted.browser \in {AnyOf, f.browser}
  /\ wanted.os \in {AnyOf, f.os}

\* The inductive invariant of a generation.
GenerateInv ==
  /\ network \in Networks
  /\ \A i \in DOMAIN joint : EntryInv(joint[i])
  /\ \A s \in flat.screens : FlatScreen(s)
  /\ \A m \in flat.memory : m \in Int
  /\ stage = "device" => DeviceInv(device)
  /\ stage = "legacy" =>
       uaPref(wanted.browser, wanted.os) = {} \/ wanted.os = AnyOf \/ supportedOS(wanted.os)
  /\ stage = "built" \/ outcome \in {"served", "refused"} => Built(fprint)
  /\ outcome = "served" => ValidateConsistency(fprint)
  /\ outcome = "refused" => ~ValidateConsistency(fprint)
  /\ outcome = "unknown" => uaPref(wanted.browser, wanted.os) = {}
  /\ outcome \in {"none", "served", "refused", "unknown"}
  /\ (outcome = "none" <=> stage # "done")

\* What is drawn was there, or stands for nothing.
LEMMA DrawsOne ==
  ASSUME NEW entries, NEW none, NEW x \in Draws(entries, none)
  PROVE  x = none \/ \E e \in entries : x = e.v
BY DEF Draws, Outcomes

\* Whatever the weights are, a User-Agent is sampled that satisfies the request.
LEMMA SampledIsWanted ==
  ASSUME NEW browser, NEW os, NEW i \in SampledUAs(browser, os)
  PROVE  i \in DOMAIN joint /\ browser \in {AnyOf, joint[i].browser} /\ os \in {AnyOf, joint[i].os}
<1> DEFINE entries == {[v |-> k, p |-> joint[k].prior] : k \in uaPref(browser, os)}
<1>1. PICK e \in entries : i = e.v
  <2>1. PICK e \in Outcomes(entries) : i = e.v
    BY DEF SampledUAs
  <2>2. e \in entries
    BY <2>1 DEF Outcomes
  <2> QED BY <2>1, <2>2
<1>2. i \in uaPref(browser, os)
  BY <1>1
<1> QED BY <1>2 DEF uaPref

\* The least row of a table is the one that Min finds.
LEMMA LeastRow ==
  ASSUME NEW S \in SUBSET Int, NEW x \in S, \A y \in S : x <= y
  PROVE  Min(S) = x
<1>1. \A y \in S : (\A z \in S : y <= z) => y = x
  OBVIOUS
<1>2. \E y \in S : \A z \in S : y <= z
  OBVIOUS
<1>3. Min(S) \in S /\ \A z \in S : Min(S) <= z
  BY <1>2 DEF Min
<1> QED BY <1>1, <1>3

\* Only a User-Agent with words in it has a browser.
LEMMA NamedHasWords ==
  ASSUME NEW ua, supportedBrowser(uaBrowser(ua)) PROVE ua.has # EmptyString
<1> SUFFICES ASSUME ua.has = {} PROVE FALSE
  BY DEF EmptyString
<1>1. \A i \in DOMAIN EngineBrowsers : EngineBrowsers[i].words # {}
  <2>1. \A i \in 1..4 : EngineBrowsers[i].words # {}
    BY DEF EngineBrowsers
  <2> QED BY <2>1 DEF EngineBrowsers
<1>2. {i \in DOMAIN EngineBrowsers : EngineBrowsers[i].words \subseteq ua.has} = {}
  BY <1>1
<1>3. uaBrowser(ua) = "other"
  BY <1>2 DEF uaBrowser, FirstMatch
<1> QED BY <1>3 DEF supportedBrowser

\* The User-Agents of the legacy sampler name the browser and the system they are for.
LEMMA LegacyUserAgents ==
  ASSUME NEW os \in DOMAIN KnownOSes, NEW ua, ua.has = ChromeTemplate \cup KnownOSes[os].segment
  PROVE  uaBrowser(ua) = "chrome" /\ uaOS(ua) = os
<1>0. os \in {"windows", "macos", "linux", "android"}
  BY DEF KnownOSes
<1> DEFINE seg == KnownOSes[os].segment
<1>a. os = "windows" => seg = {"windows"}
  BY DEF KnownOSes
<1>b. os = "macos" => seg = {"macintosh", "mac_os_x"}
  BY DEF KnownOSes
<1>c. os = "linux" => seg = {"linux"}
  BY DEF KnownOSes
<1>d. os = "android" => seg = {"linux", "android"}
  BY DEF KnownOSes
<1>1. /\ os = "windows" => seg = {"windows"}
      /\ os = "macos" => seg = {"macintosh", "mac_os_x"}
      /\ os = "linux" => seg = {"linux"}
      /\ os = "android" => seg = {"linux", "android"}
  BY <1>a, <1>b, <1>c, <1>d
<1> HIDE DEF seg
<1>2. ua.has = {"chrome/", "safari"} \cup seg
  BY DEF ChromeTemplate, seg
<1>3. uaBrowser(ua) = "chrome"
  <2> DEFINE rows == {i \in DOMAIN EngineBrowsers : EngineBrowsers[i].words \subseteq ua.has}
  <2>1. DOMAIN EngineBrowsers = 1..4
    BY DEF EngineBrowsers
  <2>2. /\ EngineBrowsers[1].words = {"edg/"} /\ EngineBrowsers[2].words = {"firefox/"}
        /\ EngineBrowsers[3].words = {"chrome/"} /\ EngineBrowsers[3].class = "chrome"
    BY DEF EngineBrowsers
  <2>3. "edg/" \notin ua.has /\ "firefox/" \notin ua.has /\ "chrome/" \in ua.has
    BY <1>0, <1>1, <1>2
  <2>4. 3 \in rows /\ 1 \notin rows /\ 2 \notin rows /\ rows \in SUBSET Int
    BY <2>1, <2>2, <2>3
  <2>5. \A y \in rows : 3 <= y
    BY <2>1, <2>4
  <2>6. Min(rows) = 3
    BY <2>4, <2>5, LeastRow
  <2> QED BY <2>2, <2>4, <2>6 DEF uaBrowser, FirstMatch
<1>4. uaOS(ua) = os
  <2> DEFINE rows == {i \in DOMAIN EngineSystems : EngineSystems[i].words \subseteq ua.has}
  <2>1. DOMAIN EngineSystems = 1..9
    BY DEF EngineSystems
  <2>2. /\ EngineSystems[1].words = {"android"} /\ EngineSystems[1].class = "android"
        /\ EngineSystems[2].words = {"iphone"} /\ EngineSystems[3].words = {"ipad"}
        /\ EngineSystems[4].words = {"ipod"}
        /\ EngineSystems[5].words = {"mac_os_x"} /\ EngineSystems[5].class = "macos"
        /\ EngineSystems[6].words = {"macintosh"}
        /\ EngineSystems[7].words = {"windows"} /\ EngineSystems[7].class = "windows"
        /\ EngineSystems[8].words = {"cros"}
        /\ EngineSystems[9].words = {"linux"} /\ EngineSystems[9].class = "linux"
    BY DEF EngineSystems
  <2>3. "iphone" \notin ua.has /\ "ipad" \notin ua.has /\ "ipod" \notin ua.has /\ "cros" \notin ua.has
    BY <1>0, <1>1, <1>2
  <2>4. rows \in SUBSET (1..9) /\ 2 \notin rows /\ 3 \notin rows /\ 4 \notin rows /\ 8 \notin rows
    BY <2>1, <2>2, <2>3
  <2>a. /\ "android" \in ua.has <=> os = "android"
        /\ "mac_os_x" \in ua.has <=> os = "macos"
        /\ "macintosh" \in ua.has <=> os = "macos"
        /\ "windows" \in ua.has <=> os = "windows"
        /\ "linux" \in ua.has <=> os \in {"linux", "android"}
    BY <1>0, <1>1, <1>2
  <2>5. /\ 1 \in rows <=> os = "android"
        /\ 5 \in rows <=> os = "macos"
        /\ 6 \in rows <=> os = "macos"
        /\ 7 \in rows <=> os = "windows"
        /\ 9 \in rows <=> os \in {"linux", "android"}
    BY <2>a, <2>1, <2>2
  <2> DEFINE row == CASE os = "android" -> 1 [] os = "macos" -> 5 [] os = "windows" -> 7 [] OTHER -> 9
  <2>6. row \in rows
    BY <1>0, <2>5
  <2>7. \A y \in rows : row <= y
    BY <1>0, <2>4, <2>5
  <2>8. EngineSystems[row].class = os
    BY <1>0, <2>2
  <2> HIDE DEF row
  <2>9. Min(rows) = row
    BY <2>4, <2>6, <2>7, LeastRow
  <2> QED BY <2>6, <2>8, <2>9 DEF uaOS, FirstMatch
<1> QED BY <1>3, <1>4

\* A number that the network has is a number of its possible values.
LEMMA ObservedIsPossible ==
  ASSUME NEW net, NEW node, NEW ua, NEW e \in ChildDist(net, node, ua)
  PROVE  node \in DOMAIN net /\ e.v \in PossibleValues(net, node)
<1>1. node \in DOMAIN net /\ ua \in DOMAIN net[node] /\ e \in net[node][ua] /\ e.ok
  BY DEF ChildDist
<1>2. e \in {x \in UNION {net[node][u] : u \in DOMAIN net[node]} : x.ok}
  BY <1>1
<1> QED BY <1>1, <1>2 DEF PossibleValues

\* A field of a screen is a number, if it was observed, or what stands in for it.
LEMMA FieldIsNumber ==
  ASSUME NEW m, NEW key, key \in DOMAIN m => m[key] \in Nat, NEW default \in Nat
  PROVE  FieldOr(m, key, default) \in Nat
BY DEF FieldOr

\* The screens of the joint profiles are measured in numbers.
LEMMA ScreensAreNumbers ==
  ASSUME NEW net \in Networks, NEW keep, NEW ua \in Range(keep), NEW s \in DPScreen(net, keep)[ua]
  PROVE  \A key \in Lengths : s.v[key] \in Nat
<1> DEFINE HasWidth(m) == Field(m, "width") # 0
           Entry(m) ==
             [width |-> m.width, height |-> Field(m, "height"),
              availWidth |-> FieldOr(m, "availWidth", m.width),
              availHeight |-> FieldOr(m, "availHeight", Field(m, "height")),
              colorDepth |-> FieldOr(m, "colorDepth", 24),
              pixelDepth |-> FieldOr(m, "pixelDepth", FieldOr(m, "colorDepth", 24)),
              dpr |-> IF "dpr" \in DOMAIN m THEN m.dpr ELSE 100,
              outerWidth |-> FieldOr(m, "outerWidth", m.width),
              outerHeight |-> FieldOr(m, "outerHeight", Field(m, "height"))]
<1>1. PICK e \in ChildDist(net, "screen", ua) : HasWidth(e.v) /\ s = [v |-> Entry(e.v), p |-> e.p]
  BY DEF DPScreen, Conditioned
<1> DEFINE m == e.v
<1>2. m \in PossibleValues(net, "screen")
  BY ObservedIsPossible
<1>3. \A key \in Lengths : key \in DOMAIN m => m[key] \in Nat
  BY <1>2, PublishedNumbers DEF Lengths
<1>4. "width" \in DOMAIN m /\ m.width \in Nat
  <2>1. "width" \in DOMAIN m
    BY <1>1 DEF Field, FieldOr
  <2> QED BY <2>1, <1>3 DEF Lengths
<1>5. Field(m, "height") \in Nat
  BY <1>3, FieldIsNumber DEF Field, Lengths
<1>6. /\ FieldOr(m, "availWidth", m.width) \in Nat
      /\ FieldOr(m, "availHeight", Field(m, "height")) \in Nat
      /\ FieldOr(m, "outerWidth", m.width) \in Nat
      /\ FieldOr(m, "outerHeight", Field(m, "height")) \in Nat
  BY <1>3, <1>4, <1>5, FieldIsNumber DEF Lengths
<1>7. s.v = Entry(m)
  BY <1>1
<1> HIDE DEF m, HasWidth
<1>8. /\ s.v.width = m.width /\ s.v.height = Field(m, "height")
      /\ s.v.availWidth = FieldOr(m, "availWidth", m.width)
      /\ s.v.availHeight = FieldOr(m, "availHeight", Field(m, "height"))
      /\ s.v.outerWidth = FieldOr(m, "outerWidth", m.width)
      /\ s.v.outerHeight = FieldOr(m, "outerHeight", Field(m, "height"))
  BY <1>7
<1> HIDE DEF Entry
<1> QED BY <1>4, <1>5, <1>6, <1>8 DEF Lengths

\* And so is the memory.
LEMMA MemoryIsNumber ==
  ASSUME NEW net \in Networks, NEW keep, NEW ua \in Range(keep),
         NEW x \in DPInts(net, "deviceMemory", keep)[ua]
  PROVE  x.v \in Int
<1>1. PICK e \in ChildDist(net, "deviceMemory", ua) : x = [v |-> Truncated(e.v), p |-> e.p]
  BY DEF DPInts, Conditioned
<1>2. e.v \in Nat
  BY ObservedIsPossible, PublishedNumbers
<1> QED BY <1>1, <1>2 DEF Truncated

\* The store is sound, whatever network it was built from.
LEMMA StoreIsSound ==
  ASSUME NEW net \in Networks, NEW maxUAs,
         NEW i \in DOMAIN buildStore(DeviceProfileData(net, maxUAs))
  PROVE  EntryInv(buildStore(DeviceProfileData(net, maxUAs))[i])
<1> DEFINE d == DeviceProfileData(net, maxUAs)
           e == StoreEntry(d, i)
           ua == d.userAgents[i]
<1>1. /\ i \in DOMAIN d.userAgents /\ Usable(e) /\ buildStore(d)[i] = e
  BY DEF buildStore
<1>2. PICK keep : /\ d.userAgents = keep
                  /\ d.videoCard = DPVideoCard(net, keep)
                  /\ d.screen = DPScreen(net, keep)
                  /\ d.deviceMemory = DPInts(net, "deviceMemory", keep)
  BY DEF DeviceProfileData
<1> HIDE DEF d
<1>3. ua \in Range(keep)
  BY <1>1, <1>2 DEF Range
<1>4. /\ e.ua = ua /\ e.browser = uaBrowser(ua) /\ e.os = uaOS(ua)
      /\ e.gpus = filterDPGPUsByOS(uaOS(ua), d.videoCard[ua])
      /\ e.screens = d.screen[ua] /\ e.memory = d.deviceMemory[ua]
  BY DEF StoreEntry
<1> HIDE DEF e, ua
<1>5. \A g \in e.gpus : GpuOnOS(e.os, g.v)
  BY <1>4 DEF filterDPGPUsByOS
<1>6. \A s \in e.screens : \A key \in Lengths : s.v[key] \in Nat
  BY <1>2, <1>3, <1>4, ScreensAreNumbers
<1>7. \A m \in e.memory : m.v \in Int
  BY <1>2, <1>3, <1>4, MemoryIsNumber
<1>8. supportedBrowser(e.browser) /\ supportedOS(e.os)
  BY <1>1 DEF Usable
<1>9. EntryInv(e)
  BY <1>4, <1>5, <1>6, <1>7, <1>8 DEF EntryInv
<1> QED BY <1>1, <1>9 DEF d

\* The lists of the legacy sampler are sound, from a network or compiled in.
LEMMA FlatListsAreSound ==
  ASSUME NEW net \in Networks, NEW new,
         new = LET r == RealData(net) IN
               IF r.gpus = {} THEN BuiltIn
               ELSE [k \in DOMAIN r |-> IF r[k] = {} THEN BuiltIn[k] ELSE r[k]]
  PROVE  (\A s \in new.screens : FlatScreen(s)) /\ (\A m \in new.memory : m \in Int)
<1> DEFINE r == RealData(net)
<1>1. DOMAIN r = {"gpus", "screens", "cores", "memory"}
  BY DEF RealData
<1>2. r.screens = ScreenList(net) /\ r.memory = IntList(net, "deviceMemory", {4, 8, 16, 32})
  BY DEF RealData
<1> HIDE DEF r
<1>3. /\ new.screens = BuiltIn.screens \/ new.screens = ScreenList(net)
      /\ new.memory = BuiltIn.memory \/ new.memory = IntList(net, "deviceMemory", {4, 8, 16, 32})
  <2>1. new = IF r.gpus = {} THEN BuiltIn
              ELSE [k \in DOMAIN r |-> IF r[k] = {} THEN BuiltIn[k] ELSE r[k]]
    BY DEF r
  <2> QED BY <1>1, <1>2, <2>1
<1>4. (\A s \in BuiltIn.screens : FlatScreen(s)) /\ (\A m \in BuiltIn.memory : m \in Int)
  BY PublishedNumbers DEF FlatScreen
<1>5. ASSUME NEW s \in ScreenList(net) PROVE FlatScreen(s)
  <2>1. PICK m \in PossibleValues(net, "screen") :
          /\ s.height = Field(m, "height")
          /\ s.availHeight = FieldOr(m, "availHeight", Field(m, "height"))
    BY DEF ScreenList
  <2>2. \A key \in {"height", "availHeight"} : key \in DOMAIN m => m[key] \in Nat
    BY PublishedNumbers
  <2>3. Field(m, "height") \in Nat
    BY <2>2, FieldIsNumber DEF Field
  <2>4. FieldOr(m, "availHeight", Field(m, "height")) \in Nat
    BY <2>2, <2>3, FieldIsNumber
  <2>5. FieldOr(m, "availHeight", Field(m, "height")) = 0 => Field(m, "height") = 0
    BY DEF FieldOr
  <2> QED BY <2>1, <2>3, <2>4, <2>5 DEF FlatScreen
<1>6. ASSUME NEW m \in IntList(net, "deviceMemory", {4, 8, 16, 32}) PROVE m \in Int
  <2>1. m \in {4, 8, 16, 32} \/ \E n \in PossibleValues(net, "deviceMemory") : m = Truncated(n)
    BY DEF IntList
  <2>2. \A n \in PossibleValues(net, "deviceMemory") : n \in Nat
    BY PublishedNumbers
  <2> QED BY <2>1, <2>2 DEF Truncated
<1> QED BY <1>3, <1>4, <1>5, <1>6

\* The page is not higher than its window.
LEMMA InnerFits == ASSUME NEW outer \in Nat PROVE InnerHeight(outer) <= outer
BY DEF InnerHeight

\* A window is cut to what is available.
LEMMA ClampedFits ==
  ASSUME NEW n \in Nat, NEW available \in Nat
  PROVE  /\ AtMost(n, available) \in Nat /\ AtMost(n, available) <= available
         /\ available > 0 => AtMost(n, available) > 0
BY DEF AtMost

\* The first language of a timezone is one that is expected there.
LEMMA LanguagesFit ==
  ASSUME NEW zone \in DOMAIN KnownTimezones
  PROVE  /\ KnownTimezones[zone] # <<>>
         /\ tzLanguageConsistent(zone, KnownTimezones[zone][1])
<1>1. zone \in {"Shanghai", "Tokyo", "New_York", "London", "Seoul", "Singapore"}
  BY DEF KnownTimezones
<1>2. \A s, t : IsPrefix(<<s>>, <<s, t>>) /\ IsPrefix(<<s>>, <<s>>)
  <2> TAKE s, t
  <2> DEFINE p == <<s>>
             u == <<s, t>>
  <2>1. /\ p \in Seq({s, t}) /\ Len(p) = 1 /\ p[1] = s
        /\ u \in Seq({s, t}) /\ Len(u) = 2 /\ u[1] = s
    OBVIOUS
  <2> HIDE DEF p, u
  <2>2. /\ SubSeq(p, 1, 1) \in Seq({s, t}) /\ Len(SubSeq(p, 1, 1)) = 1 /\ SubSeq(p, 1, 1)[1] = s
        /\ SubSeq(u, 1, 1) \in Seq({s, t}) /\ Len(SubSeq(u, 1, 1)) = 1 /\ SubSeq(u, 1, 1)[1] = s
    BY <2>1
  <2>3. SubSeq(p, 1, 1) = SubSeq(u, 1, 1)
    BY <2>2
  <2>4. IsPrefix(p, u) /\ IsPrefix(p, p)
    BY <2>1, <2>3 DEF IsPrefix
  <2> QED BY <2>4 DEF p, u
<1>3. KnownTimezones[zone] # <<>>
  BY <1>1 DEF KnownTimezones
<1>4. \E s, t : /\ KnownTimezones[zone][1] \in {<<s>>, <<s, t>>}
                /\ <<s>> \in ExpectedLanguages[zone]
  <2>1. CASE zone = "Shanghai"
    <3>1. KnownTimezones[zone][1] = <<"zh", "CN">> /\ <<"zh">> \in ExpectedLanguages[zone]
      BY <2>1 DEF KnownTimezones, ExpectedLanguages
    <3> QED BY <3>1
  <2>2. CASE zone = "Tokyo"
    <3>1. KnownTimezones[zone][1] = <<"ja">> /\ <<"ja">> \in ExpectedLanguages[zone]
      BY <2>2 DEF KnownTimezones, ExpectedLanguages
    <3> QED BY <3>1
  <2>3. CASE zone = "New_York"
    <3>1. KnownTimezones[zone][1] = <<"en", "US">> /\ <<"en">> \in ExpectedLanguages[zone]
      BY <2>3 DEF KnownTimezones, ExpectedLanguages
    <3> QED BY <3>1
  <2>4. CASE zone = "London"
    <3>1. KnownTimezones[zone][1] = <<"en", "GB">> /\ <<"en">> \in ExpectedLanguages[zone]
      BY <2>4 DEF KnownTimezones, ExpectedLanguages
    <3> QED BY <3>1
  <2>5. CASE zone = "Seoul"
    <3>1. KnownTimezones[zone][1] = <<"ko", "KR">> /\ <<"ko">> \in ExpectedLanguages[zone]
      BY <2>5 DEF KnownTimezones, ExpectedLanguages
    <3> QED BY <3>1
  <2>6. CASE zone = "Singapore"
    <3>1. KnownTimezones[zone][1] = <<"en", "SG">> /\ <<"en">> \in ExpectedLanguages[zone]
      BY <2>6 DEF KnownTimezones, ExpectedLanguages
    <3> QED BY <3>1
  <2> QED BY <1>1, <2>1, <2>2, <2>3, <2>4, <2>5, <2>6
<1> QED BY <1>2, <1>3, <1>4 DEF tzLanguageConsistent

\* What buildNavigator says, for every browser and system that is supported.
LEMMA NavigatorFits ==
  ASSUME NEW ua, NEW browser, NEW os, NEW platform, NEW zone \in DOMAIN KnownTimezones,
         NEW cores, NEW memory, NEW touch, supportedBrowser(browser), NEW nav,
         nav = buildNavigator(ua, browser, os, platform, KnownTimezones[zone], cores, memory, touch)
  PROVE  /\ nav.ua = ua /\ nav.platform = platform /\ nav.memory = memory
         /\ nav.cores \in 1..64
         /\ tzLanguageConsistent(zone, nav.language)
         /\ nav.hints = (IF browser # "chrome" THEN "none"
                         ELSE IF os = "android" THEN "mobile" ELSE "desktop")
         /\ (browser = "chrome" /\ os = "android") => nav.touch > 0
<1> DEFINE plain == [ua |-> ua, platform |-> platform, vendor |-> {"Google"},
                     productSub |-> "20030107",
                     language |-> IF KnownTimezones[zone] = <<>> THEN <<"en">>
                                  ELSE KnownTimezones[zone][1],
                     cores |-> IF cores \in 1..64 THEN cores ELSE 8,
                     memory |-> memory, touch |-> touch, hints |-> "desktop"]
<1>1. nav = Adjusted(plain, browser, os)
  BY DEF buildNavigator
<1>2. /\ plain.ua = ua /\ plain.platform = platform /\ plain.memory = memory
      /\ plain.cores \in 1..64 /\ plain.language = KnownTimezones[zone][1]
      /\ plain.hints = "desktop"
  BY LanguagesFit
<1>3. DOMAIN plain = {"ua", "platform", "vendor", "productSub", "language", "cores", "memory",
                      "touch", "hints"}
  OBVIOUS
<1> HIDE DEF plain
<1>4. browser \in {"chrome", "firefox", "safari"}
  BY DEF supportedBrowser
<1>5. CASE browser = "firefox"
  <2>1. nav = [plain EXCEPT !.vendor = EmptyString, !.productSub = "20100101", !.hints = "none"]
    BY <1>1, <1>5 DEF Adjusted
  <2> QED BY <1>2, <1>3, <1>5, <2>1, LanguagesFit
<1>6. CASE browser = "safari"
  <2>1. nav = [plain EXCEPT !.vendor = {"Apple"}, !.hints = "none"]
    BY <1>1, <1>6 DEF Adjusted
  <2> QED BY <1>2, <1>3, <1>6, <2>1, LanguagesFit
<1>7. CASE browser = "chrome" /\ os = "android"
  <2>1. nav = [plain EXCEPT !.hints = "mobile", !.touch = 5]
    BY <1>1, <1>7 DEF Adjusted
  <2>2. /\ nav.hints = "mobile" /\ nav.touch = 5 /\ nav.ua = ua /\ nav.platform = platform
        /\ nav.memory = memory /\ nav.cores = plain.cores /\ nav.language = plain.language
    BY <1>2, <1>3, <2>1
  <2>3. nav.touch > 0
    BY <2>2
  <2> QED BY <1>2, <1>7, <2>2, <2>3, LanguagesFit
<1>8. CASE browser = "chrome" /\ os # "android"
  <2>1. nav = plain
    BY <1>1, <1>8 DEF Adjusted
  <2> QED BY <1>2, <1>8, <2>1, LanguagesFit
<1> QED BY <1>4, <1>5, <1>6, <1>7, <1>8

\* Every dimension of a profile that is drawn comes from the entry of its User-Agent.
LEMMA SampleStep == ASSUME GenerateInv, SampleDevice PROVE GenerateInv'
<1>1. PICK i \in SampledUAs(wanted.browser, wanted.os) :
      LET e == joint[i] IN
      \E platform \in Draws(e.platform, EmptyString), vendor \in Draws(e.vendor, EmptyString),
         memory \in Draws(e.memory, 0), touch \in Draws(e.touch, 0), cores \in Draws(e.cores, 0),
         gpu \in Draws(e.gpus, NoGPU), screen \in Draws(e.screens, NoScreen),
         fonts \in Draws(e.fonts, EmptyString) :
        LET d == [origin |-> "joint", ua |-> e.ua, browser |-> e.browser, os |-> e.os,
                  platform |-> platform, vendor |-> vendor, gpu |-> gpu, screen |-> screen,
                  fonts |-> fonts, touch |-> touch,
                  cores |-> clampHWConc(cores), memory |-> clampDevMem(memory)]
        IN IF Unresolved(d) THEN stage' = "legacy" /\ UNCHANGED device
           ELSE stage' = "device" /\ device' = d
  BY DEF SampleDevice
<1> DEFINE e == joint[i]
<1>2. PICK platform \in Draws(e.platform, EmptyString), vendor \in Draws(e.vendor, EmptyString),
           memory \in Draws(e.memory, 0), touch \in Draws(e.touch, 0), cores \in Draws(e.cores, 0),
           gpu \in Draws(e.gpus, NoGPU), screen \in Draws(e.screens, NoScreen),
           fonts \in Draws(e.fonts, EmptyString) :
        LET d == [origin |-> "joint", ua |-> e.ua, browser |-> e.browser, os |-> e.os,
                  platform |-> platform, vendor |-> vendor, gpu |-> gpu, screen |-> screen,
                  fonts |-> fonts, touch |-> touch,
                  cores |-> clampHWConc(cores), memory |-> clampDevMem(memory)]
        IN IF Unresolved(d) THEN stage' = "legacy" /\ UNCHANGED device
           ELSE stage' = "device" /\ device' = d
  BY <1>1
<1> DEFINE d == [origin |-> "joint", ua |-> e.ua, browser |-> e.browser, os |-> e.os,
                 platform |-> platform, vendor |-> vendor, gpu |-> gpu, screen |-> screen,
                 fonts |-> fonts, touch |-> touch,
                 cores |-> clampHWConc(cores), memory |-> clampDevMem(memory)]
<1>3. /\ i \in DOMAIN joint /\ wanted.browser \in {AnyOf, e.browser}
      /\ wanted.os \in {AnyOf, e.os}
  BY SampledIsWanted
<1>4. EntryInv(e)
  BY <1>3 DEF GenerateInv
<1>5. /\ d.origin = "joint" /\ d.ua = e.ua /\ d.browser = e.browser /\ d.os = e.os
      /\ d.gpu = gpu /\ d.screen = screen /\ d.memory = clampDevMem(memory)
  OBVIOUS
<1>6. (stage' = "legacy" /\ UNCHANGED device) \/ (stage' = "device" /\ device' = d)
  BY <1>2
<1> HIDE DEF e, d
<1>7. d.gpu.renderer # EmptyString => GpuOnOS(d.os, d.gpu)
  <2>1. gpu = NoGPU \/ \E g \in e.gpus : gpu = g.v
    BY DrawsOne
  <2>2. NoGPU.renderer = EmptyString
    BY DEF NoGPU
  <2>3. \A g \in e.gpus : GpuOnOS(e.os, g.v)
    BY <1>4 DEF EntryInv
  <2> QED BY <1>5, <2>1, <2>2, <2>3
<1>8. \A key \in Lengths : d.screen[key] \in Nat
  <2>1. screen = NoScreen \/ \E s \in e.screens : screen = s.v
    BY DrawsOne
  <2>2. \A key \in Lengths : NoScreen[key] \in Nat
    BY DEF NoScreen, Lengths
  <2>3. \A s \in e.screens : \A key \in Lengths : s.v[key] \in Nat
    BY <1>4 DEF EntryInv
  <2> QED BY <1>5, <2>1, <2>2, <2>3
<1>9. d.memory \in Int /\ d.memory >= 1
  <2>1. memory = 0 \/ \E m \in e.memory : memory = m.v
    BY DrawsOne
  <2>2. memory \in Int
    BY <1>4, <2>1 DEF EntryInv
  <2> QED BY <1>5, <2>2 DEF clampDevMem
<1>10. UNCHANGED <<network, wanted, joint, flat, fprint, outcome>> /\ stage = "loaded"
  BY DEF SampleDevice
<1>11. stage' = "device" => DeviceInv(device)'
  <2>1. DeviceInv(d)
    BY <1>3, <1>4, <1>5, <1>7, <1>8, <1>9 DEF DeviceInv, EntryInv
  <2> SUFFICES ASSUME stage' = "device" PROVE DeviceInv(device)'
    OBVIOUS
  <2>2. device' = d /\ wanted' = wanted
    BY <1>6, <1>10
  <2> QED BY <2>1, <2>2 DEF DeviceInv
<1>12. stage' = "legacy" => wanted'.os = AnyOf \/ supportedOS(wanted'.os)
  BY <1>3, <1>4, <1>10 DEF EntryInv
<1>13. outcome' = "none" /\ stage' \notin {"built", "done"}
  BY <1>6, <1>10 DEF GenerateInv
<1>14. /\ network' \in Networks
       /\ \A k \in DOMAIN joint' : EntryInv(joint'[k])
       /\ \A s \in flat'.screens : FlatScreen(s)
       /\ \A m \in flat'.memory : m \in Int
  BY <1>10 DEF GenerateInv
<1> QED BY <1>11, <1>12, <1>13, <1>14 DEF GenerateInv

\* WebGL names the vendor that the GPU has.
LEMMA VendorIsKept ==
  ASSUME NEW gpu, gpu.vendor # EmptyString PROVE buildWebGL(gpu).vendor = gpu.vendor
BY DEF buildWebGL

\* A fingerprint built from a profile.
LEMMA DeviceIsBuilt ==
  ASSUME DeviceInv(device), NEW zone \in DOMAIN KnownTimezones, NEW gpu, NEW osp, NEW major, NEW f,
         gpu = [renderer |-> device.gpu.renderer, vendor |-> device.vendor],
         f = [origin |-> "joint", browser |-> device.browser, major |-> major,
              os |-> device.os, platform |-> osp.platform, gpu |-> gpu, fonts |-> osp.fonts,
              timezone |-> zone, screen |-> buildDeviceScreen(device.screen),
              window |-> buildDeviceWindow(device.screen),
              nav |-> buildNavigator(device.ua, device.browser, device.os, osp.platform,
                        KnownTimezones[zone], device.cores, device.memory, device.touch),
              webgl |-> buildWebGL(gpu),
              canvas |-> canvasHashKey(major, device.os, gpu.vendor)]
  PROVE  Built(f)
<1>1. /\ f.origin = "joint" /\ f.browser = device.browser /\ f.os = device.os
      /\ f.platform = osp.platform /\ f.gpu = gpu /\ f.timezone = zone
      /\ f.screen = buildDeviceScreen(device.screen)
      /\ f.window = buildDeviceWindow(device.screen)
      /\ f.nav = buildNavigator(device.ua, device.browser, device.os, osp.platform,
                   KnownTimezones[zone], device.cores, device.memory, device.touch)
      /\ f.webgl = buildWebGL(gpu) /\ f.major = major
      /\ f.canvas = canvasHashKey(major, device.os, gpu.vendor)
  OBVIOUS
<1>2. supportedBrowser(device.browser)
  BY DEF DeviceInv
<1>3. /\ f.nav.ua = device.ua /\ f.nav.platform = f.platform /\ f.nav.memory = device.memory
      /\ f.nav.cores \in 1..64 /\ tzLanguageConsistent(f.timezone, f.nav.language)
      /\ f.nav.hints = (IF f.browser # "chrome" THEN "none"
                        ELSE IF f.os = "android" THEN "mobile" ELSE "desktop")
      /\ (f.browser = "chrome" /\ f.os = "android") => f.nav.touch > 0
  BY <1>1, <1>2, NavigatorFits
<1>4. f.nav.ua.has # EmptyString
  BY <1>3, NamedHasWords DEF DeviceInv
<1> DEFINE d == device.screen
           s == f.screen
           w == f.window
<1>5. /\ d.width \in Nat /\ d.height \in Nat /\ d.availWidth \in Nat /\ d.availHeight \in Nat
      /\ d.outerWidth \in Nat /\ d.outerHeight \in Nat
  BY DEF DeviceInv, Lengths
<1> HIDE DEF d
<1>6. /\ s.height = OrElse(d.height, 720)
      /\ s.availWidth = OrElse(d.availWidth, OrElse(d.width, 1280))
      /\ s.availHeight = OrElse(d.availHeight, OrElse(d.height, 720))
  BY <1>1 DEF buildDeviceScreen, d
<1>7. /\ s.height \in Nat /\ s.availWidth \in Nat /\ s.availHeight \in Nat
      /\ s.height > 0 /\ s.availWidth > 0 /\ s.availHeight > 0
  BY <1>5, <1>6 DEF OrElse
<1>8. /\ w.outerWidth = AtMost(d.outerWidth, s.availWidth)
      /\ w.outerHeight = AtMost(d.outerHeight, s.availHeight)
      /\ w.innerHeight = InnerHeight(w.outerHeight)
  BY <1>1 DEF buildDeviceWindow, d
<1>9. /\ w.outerWidth <= s.availWidth
      /\ w.outerHeight \in Nat /\ w.outerHeight <= s.availHeight /\ w.outerHeight > 0
  BY <1>5, <1>7, <1>8, ClampedFits
<1>10. w.innerHeight <= w.outerHeight
  BY <1>8, <1>9, InnerFits
<1>11. RendererFits(f)
  <2> SUFFICES ASSUME gpu.renderer # EmptyString
               PROVE  f.webgl.renderer \cap ForeignRenderers[f.os] = {}
    BY <1>1 DEF RendererFits
  <2>1. f.webgl.renderer = device.gpu.renderer /\ gpu.renderer = device.gpu.renderer
    BY <1>1 DEF buildWebGL
  <2>2. GpuOnOS(device.os, device.gpu)
    BY <2>1 DEF DeviceInv
  <2>3. device.os \in {"windows", "macos", "linux", "android"}
    BY DEF DeviceInv, supportedOS, KnownOSes
  <2>4. /\ device.os = "windows" => "Metal" \notin device.gpu.renderer
        /\ device.os = "macos" => "Direct3D11" \notin device.gpu.renderer
        /\ device.os \in {"linux", "android"} =>
             "Direct3D11" \notin device.gpu.renderer /\ "Metal" \notin device.gpu.renderer
    BY <2>2 DEF GpuOnOS, Has
  <2>5. /\ ForeignRenderers["windows"] = {"Metal"} /\ ForeignRenderers["macos"] = {"Direct3D11"}
        /\ ForeignRenderers["linux"] = {"Direct3D11", "Metal"}
        /\ ForeignRenderers["android"] = {"Direct3D11", "Metal"}
    BY DEF ForeignRenderers
  <2> QED BY <1>1, <2>1, <2>3, <2>4, <2>5
<1>12. f.nav.memory >= 1
  BY <1>3 DEF DeviceInv
<1>13. /\ uaBrowser(f.nav.ua) = f.browser /\ uaOS(f.nav.ua) = f.os
       /\ wanted.browser \in {AnyOf, f.browser} /\ wanted.os \in {AnyOf, f.os}
  BY <1>1, <1>3 DEF DeviceInv
<1>14. f.gpu.vendor # EmptyString => f.canvas = canvasHashKey(f.major, f.os, f.webgl.vendor)
  BY <1>1, VendorIsKept
<1> QED BY <1>3, <1>4, <1>7, <1>9, <1>10, <1>11, <1>12, <1>13, <1>14 DEF Built

\* The fingerprint that BuildLegacy makes of what it draws.
LegacyPrint(major, zone, offset, os, gpu, drawn, cores, memory, dpr) ==
  LET entry == KnownOSes[os]
      screen == [width |-> drawn.width, height |-> drawn.height,
                 availWidth |-> drawn.availWidth, availHeight |-> drawn.availHeight,
                 colorDepth |-> drawn.colorDepth, pixelDepth |-> drawn.colorDepth]
      ua == [has |-> ChromeTemplate \cup entry.segment, major |-> major]
  IN [origin |-> "legacy", browser |-> "chrome", major |-> major, os |-> os,
      platform |-> entry.platform, gpu |-> gpu, fonts |-> entry.fonts, timezone |-> zone,
      screen |-> screen, window |-> SampleWindowProps(screen, offset, dpr),
      nav |-> buildNavigator(ua, "chrome", os, entry.platform, KnownTimezones[zone], cores,
                IF memory < 1 THEN 8 ELSE memory, 0),
      webgl |-> buildWebGL(gpu), canvas |-> canvasHashKey(major, os, gpu.vendor)]

\* A GPU of the flat list fits the system, or none of the list does.
LEMMA SampledGpuFits ==
  ASSUME NEW os \in DOMAIN KnownOSes, NEW gpu \in SampleGPU(os), NEW f,
         f.origin = "legacy", f.os = os, f.gpu = gpu, f.webgl = buildWebGL(gpu)
  PROVE  RendererFits(f)
<1>1. CASE {g \in flat.gpus : FlatGpuOnOS(os, g)} = {}
  <2>1. \A g \in flat.gpus : ~FlatGpuOnOS(os, g)
    BY <1>1
  <2> QED BY <2>1 DEF RendererFits
<1>2. CASE {g \in flat.gpus : FlatGpuOnOS(os, g)} # {} /\ gpu.renderer # EmptyString
  <2>1. FlatGpuOnOS(os, gpu)
    BY <1>2 DEF SampleGPU, OrAll
  <2>2. CASE os = "macos"
    BY <2>1, <2>2 DEF RendererFits
  <2>3. CASE os # "macos"
    <3>1. GpuOnOS(os, gpu) /\ os \in {"windows", "linux", "android"}
      BY <2>1, <2>3 DEF FlatGpuOnOS, KnownOSes
    <3>2. f.webgl.renderer = gpu.renderer
      BY <1>2 DEF buildWebGL
    <3>3. "Metal" \notin gpu.renderer /\ (os # "windows" => "Direct3D11" \notin gpu.renderer)
      BY <3>1 DEF GpuOnOS, Has
    <3>4. /\ ForeignRenderers["windows"] = {"Metal"}
          /\ ForeignRenderers["linux"] = {"Direct3D11", "Metal"}
          /\ ForeignRenderers["android"] = {"Direct3D11", "Metal"}
      BY DEF ForeignRenderers
    <3>5. gpu.renderer \cap ForeignRenderers[os] = {}
      BY <3>1, <3>3, <3>4
    <3> QED BY <3>2, <3>5 DEF RendererFits
  <2> QED BY <2>2, <2>3
<1>3. CASE gpu.renderer = EmptyString
  BY <1>3 DEF RendererFits
<1> QED BY <1>1, <1>2, <1>3

\* A fingerprint built from the flat lists.
LEMMA LegacyIsBuilt ==
  ASSUME NEW major, NEW zone \in DOMAIN KnownTimezones, NEW offset \in Offsets,
         NEW os \in DOMAIN KnownOSes, wanted.os \in {AnyOf, os},
         NEW gpu \in SampleGPU(os), NEW drawn, FlatScreen(drawn), NEW cores,
         NEW memory \in Int, NEW dpr
  PROVE  Built(LegacyPrint(major, zone, offset, os, gpu, drawn, cores, memory, dpr))
<1> DEFINE f == LegacyPrint(major, zone, offset, os, gpu, drawn, cores, memory, dpr)
           entry == KnownOSes[os]
           screen == [width |-> drawn.width, height |-> drawn.height,
                      availWidth |-> drawn.availWidth, availHeight |-> drawn.availHeight,
                      colorDepth |-> drawn.colorDepth, pixelDepth |-> drawn.colorDepth]
           ua == [has |-> ChromeTemplate \cup entry.segment, major |-> major]
           mem == IF memory < 1 THEN 8 ELSE memory
<1>1. /\ f.origin = "legacy" /\ f.browser = "chrome" /\ f.os = os
      /\ f.platform = entry.platform /\ f.timezone = zone /\ f.screen = screen
      /\ f.window = SampleWindowProps(screen, offset, dpr)
      /\ f.nav = buildNavigator(ua, "chrome", os, entry.platform, KnownTimezones[zone], cores, mem, 0)
      /\ f.webgl = buildWebGL(gpu) /\ f.gpu = gpu /\ f.major = major
      /\ f.canvas = canvasHashKey(major, os, gpu.vendor)
  BY DEF LegacyPrint
<1>2. mem >= 1
  OBVIOUS
<1> HIDE DEF mem, f
<1>3. supportedBrowser("chrome")
  BY DEF supportedBrowser
<1>4. /\ f.nav.ua = ua /\ f.nav.platform = f.platform /\ f.nav.memory = mem
      /\ f.nav.cores \in 1..64 /\ tzLanguageConsistent(f.timezone, f.nav.language)
      /\ f.nav.hints = (IF f.browser # "chrome" THEN "none"
                        ELSE IF f.os = "android" THEN "mobile" ELSE "desktop")
      /\ (f.browser = "chrome" /\ f.os = "android") => f.nav.touch > 0
  BY <1>1, <1>3, NavigatorFits
<1>5. uaBrowser(f.nav.ua) = f.browser /\ uaOS(f.nav.ua) = f.os
  <2>1. ua.has = ChromeTemplate \cup KnownOSes[os].segment
    OBVIOUS
  <2>2. uaBrowser(ua) = "chrome" /\ uaOS(ua) = os
    BY <2>1, LegacyUserAgents
  <2> QED BY <1>1, <1>4, <2>2
<1>6. f.nav.ua.has # EmptyString
  BY <1>1, <1>3, <1>5, NamedHasWords
<1> DEFINE w == f.window
           ah == OrElse(screen.availHeight, screen.height)
           oh == IF ah > 40 THEN ah - offset ELSE ah
<1>7. /\ screen.height \in Nat /\ screen.availHeight \in Nat
      /\ screen.availHeight = 0 => screen.height = 0
  BY DEF FlatScreen
<1>8. offset \in 0..19
  BY GenerationConstants
<1>9. w.outerHeight = oh /\ w.innerHeight = InnerHeight(oh)
  BY <1>1 DEF SampleWindowProps
<1>10. ah \in Nat /\ ah = screen.availHeight
  BY <1>7 DEF OrElse
<1> HIDE DEF ah
<1>11. oh \in Nat /\ oh <= ah
  BY <1>8, <1>10
<1> HIDE DEF oh
<1>12. w.outerHeight \in Nat /\ w.outerHeight <= screen.availHeight /\ w.innerHeight <= w.outerHeight
  BY <1>9, <1>10, <1>11, InnerFits
<1>13. f.nav.memory >= 1
  BY <1>2, <1>4
<1>14. wanted.os \in {AnyOf, f.os} /\ f.origin # "joint" /\ f.screen = screen
  BY <1>1
<1>15. f.screen.height \in Nat /\ f.screen.availHeight \in Nat
  BY <1>7, <1>14
<1> HIDE DEF w, screen, ua, entry
<1>16. RendererFits(f)
  BY <1>1, SampledGpuFits
<1>17. f.gpu.vendor # EmptyString => f.canvas = canvasHashKey(f.major, f.os, f.webgl.vendor)
  BY <1>1, VendorIsKept
<1>18. Built(f)
  BY <1>4, <1>5, <1>6, <1>12, <1>13, <1>14, <1>15, <1>16, <1>17 DEF Built, w
<1> QED BY <1>18 DEF f

\* What the builders saw to leaves one thing to be validated: the height of the screen.
LEMMA OnlyHeightIsOpen ==
  ASSUME NEW f, Built(f)
  PROVE  /\ ValidateConsistency(f)
              <=> (f.screen.height > 0 /\ f.screen.availHeight > 0
                     => f.screen.availHeight <= f.screen.height)
         /\ ValidateConsistency(f) => OneDevice(f)
         /\ ~ValidateConsistency(f) => f.screen.availHeight > f.screen.height
<1>1. ValidateConsistency(f)
        <=> (f.screen.height > 0 /\ f.screen.availHeight > 0
               => f.screen.availHeight <= f.screen.height)
  BY DEF Built, ValidateConsistency
<1>2. f.screen.height \in Nat /\ f.screen.availHeight \in Nat
  BY DEF Built
<1>3. ValidateConsistency(f) => f.screen.availHeight <= f.screen.height \/ f.screen.height = 0
  BY <1>1, <1>2
<1>4. ~ValidateConsistency(f) => f.screen.availHeight > f.screen.height
  BY <1>1, <1>2
<1>5. ValidateConsistency(f) => OneDevice(f)
  BY <1>3 DEF Built, OneDevice
<1> QED BY <1>1, <1>4, <1>5

\* The inductive step.
LEMMA GenerateStep == GenerateInv /\ [GenerateNext]_genVars => GenerateInv'
<1> SUFFICES ASSUME GenerateInv, [GenerateNext]_genVars PROVE GenerateInv'
  OBVIOUS
<1>1. ASSUME LoadData PROVE GenerateInv'
  <2>1. /\ stage = "published" /\ stage' = "loaded"
        /\ UNCHANGED <<network, wanted, device, fprint, outcome>>
    BY <1>1 DEF LoadData
  <2>2. PICK maxUAs \in MaxUAs : joint' = buildStore(DeviceProfileData(network, maxUAs))
    BY <1>1 DEF LoadData
  <2>3. network \in Networks
    BY DEF GenerateInv
  <2>4. \A i \in DOMAIN joint' : EntryInv(joint'[i])
    BY <2>2, <2>3, StoreIsSound
  <2>5. (\A s \in flat'.screens : FlatScreen(s)) /\ (\A m \in flat'.memory : m \in Int)
    <3>1. flat' = LET r == RealData(network) IN
                  IF r.gpus = {} THEN BuiltIn
                  ELSE [k \in DOMAIN r |-> IF r[k] = {} THEN BuiltIn[k] ELSE r[k]]
      BY <1>1 DEF LoadData
    <3> QED BY <2>3, <3>1, FlatListsAreSound
  <2>6. outcome' = "none"
    BY <2>1 DEF GenerateInv
  <2> QED BY <2>1, <2>3, <2>4, <2>5, <2>6 DEF GenerateInv
<1>2. ASSUME LoadNothing PROVE GenerateInv'
  <2>1. /\ stage = "published" /\ stage' = "loaded"
        /\ UNCHANGED <<network, wanted, joint, flat, device, fprint, outcome>>
    BY <1>2 DEF LoadNothing
  <2>2. outcome' = "none"
    BY <2>1 DEF GenerateInv
  <2> QED BY <2>1, <2>2 DEF GenerateInv
<1>3. CASE SampleDevice
  BY <1>3, SampleStep
<1>4. ASSUME NoDevice PROVE GenerateInv'
  <2>1. /\ stage = "loaded" /\ stage' = "legacy" /\ uaPref(wanted.browser, wanted.os) = {}
        /\ UNCHANGED <<network, wanted, joint, flat, device, fprint, outcome>>
    BY <1>4 DEF NoDevice
  <2>2. outcome' = "none"
    BY <2>1 DEF GenerateInv
  <2>3. uaPref(wanted.browser, wanted.os)' = {}
    BY <2>1 DEF uaPref
  <2> QED BY <2>1, <2>2, <2>3 DEF GenerateInv
<1>5. ASSUME BuildFromDevice PROVE GenerateInv'
  <2>1. /\ stage = "device" /\ stage' = "built"
        /\ UNCHANGED <<network, wanted, joint, flat, device, outcome>>
    BY <1>5 DEF BuildFromDevice
  <2>2. DeviceInv(device) /\ outcome = "none"
    BY <2>1 DEF GenerateInv
  <2>3. \A zone \in Zones(wanted.timezone) : zone \in DOMAIN KnownTimezones
    BY DEF Zones
  <2>4. Built(fprint')
    BY <1>5, <2>2, <2>3, DeviceIsBuilt DEF BuildFromDevice
  <2>5. Built(fprint)'
    BY <2>1, <2>4 DEF Built, RendererFits
  <2> QED BY <2>1, <2>2, <2>5 DEF GenerateInv
<1>6. ASSUME UnknownOS PROVE GenerateInv'
  <2>1. /\ stage = "legacy" /\ stage' = "done" /\ outcome' = "unknown"
        /\ wanted.os # AnyOf /\ ~supportedOS(wanted.os)
        /\ UNCHANGED <<network, wanted, joint, flat, device, fprint>>
    BY <1>6 DEF UnknownOS
  <2>2. uaPref(wanted.browser, wanted.os) = {}
    BY <2>1 DEF GenerateInv
  <2>3. uaPref(wanted.browser, wanted.os)' = {}
    BY <2>1, <2>2 DEF uaPref
  <2> QED BY <2>1, <2>3 DEF GenerateInv
<1>7. ASSUME BuildLegacy PROVE GenerateInv'
  <2>1. /\ stage = "legacy" /\ stage' = "built"
        /\ UNCHANGED <<network, wanted, joint, flat, device, outcome>>
    BY <1>7 DEF BuildLegacy
  <2>2. outcome = "none"
    BY <2>1 DEF GenerateInv
  <2>3. PICK major \in BrowserMajors, zone \in Zones(wanted.timezone), offset \in Offsets,
             os \in {o \in DOMAIN KnownOSes : wanted.os \in {AnyOf, o}} :
          \E gpu \in SampleGPU(os), drawn \in SampleScreen(os), cores \in flat.cores,
             memory \in flat.memory,
             dpr \in IF os \in DOMAIN WindowRatios THEN WindowRatios[os] ELSE {100} :
            LET entry == KnownOSes[os]
                screen == [width |-> drawn.width, height |-> drawn.height,
                           availWidth |-> drawn.availWidth, availHeight |-> drawn.availHeight,
                           colorDepth |-> drawn.colorDepth, pixelDepth |-> drawn.colorDepth]
                ua == [has |-> ChromeTemplate \cup entry.segment, major |-> major]
            IN fprint' =
                 [origin |-> "legacy", browser |-> "chrome", major |-> major, os |-> os,
                  platform |-> entry.platform, gpu |-> gpu, fonts |-> entry.fonts,
                  timezone |-> zone, screen |-> screen,
                  window |-> SampleWindowProps(screen, offset, dpr),
                  nav |-> buildNavigator(ua, "chrome", os, entry.platform, KnownTimezones[zone],
                            cores, IF memory < 1 THEN 8 ELSE memory, 0),
                  webgl |-> buildWebGL(gpu), canvas |-> canvasHashKey(major, os, gpu.vendor)]
    BY <1>7 DEF BuildLegacy
  <2>4. PICK gpu \in SampleGPU(os), drawn \in SampleScreen(os), cores \in flat.cores,
             memory \in flat.memory,
             dpr \in IF os \in DOMAIN WindowRatios THEN WindowRatios[os] ELSE {100} :
            LET entry == KnownOSes[os]
                screen == [width |-> drawn.width, height |-> drawn.height,
                           availWidth |-> drawn.availWidth, availHeight |-> drawn.availHeight,
                           colorDepth |-> drawn.colorDepth, pixelDepth |-> drawn.colorDepth]
                ua == [has |-> ChromeTemplate \cup entry.segment, major |-> major]
            IN fprint' =
                 [origin |-> "legacy", browser |-> "chrome", major |-> major, os |-> os,
                  platform |-> entry.platform, gpu |-> gpu, fonts |-> entry.fonts,
                  timezone |-> zone, screen |-> screen,
                  window |-> SampleWindowProps(screen, offset, dpr),
                  nav |-> buildNavigator(ua, "chrome", os, entry.platform, KnownTimezones[zone],
                            cores, IF memory < 1 THEN 8 ELSE memory, 0),
                  webgl |-> buildWebGL(gpu), canvas |-> canvasHashKey(major, os, gpu.vendor)]
    BY <2>3
  <2>5. zone \in DOMAIN KnownTimezones
    BY DEF Zones
  <2>6. FlatScreen(drawn)
    BY DEF SampleScreen, OrAll, GenerateInv
  <2>7. memory \in Int
    BY DEF GenerateInv
  <2>8. Built(fprint')
    <3>1. os \in DOMAIN KnownOSes /\ wanted.os \in {AnyOf, os} /\ offset \in Offsets
      OBVIOUS
    <3>2. fprint' = LegacyPrint(major, zone, offset, os, gpu, drawn, cores, memory, dpr)
      BY <2>4 DEF LegacyPrint
    <3> QED BY <2>5, <2>6, <2>7, <3>1, <3>2, LegacyIsBuilt
  <2>9. Built(fprint)'
    BY <2>1, <2>8 DEF Built, RendererFits
  <2> QED BY <2>1, <2>2, <2>9 DEF GenerateInv
<1>8. ASSUME Validate PROVE GenerateInv'
  <2>1. /\ stage = "built" /\ stage' = "done"
        /\ outcome' = IF ValidateConsistency(fprint) THEN "served" ELSE "refused"
        /\ UNCHANGED <<network, wanted, joint, flat, device, fprint>>
    BY <1>8 DEF Validate
  <2>2. Built(fprint)'
    BY <2>1 DEF Built, RendererFits, GenerateInv
  <2>3. ValidateConsistency(fprint)' <=> ValidateConsistency(fprint)
    BY <2>1 DEF ValidateConsistency
  <2> QED BY <2>1, <2>2, <2>3 DEF GenerateInv
<1>9. ASSUME UNCHANGED genVars PROVE GenerateInv'
  <2>1. UNCHANGED <<stage, network, wanted, joint, flat, device, fprint, outcome>>
    BY <1>9 DEF genVars
  <2> QED BY <2>1 DEF GenerateInv, DeviceInv, Built, RendererFits, uaPref
<1> QED BY <1>1, <1>2, <1>3, <1>4, <1>5, <1>6, <1>7, <1>8, <1>9 DEF GenerateNext

\* Whatever network was published and whatever was asked for, a fingerprint that is served
\* is put together as OneDevice says, of the system (from the joint profiles also the browser) asked for,
\* and the only reasons to refuse one are a screen that claims more available height than
\* it has, and a system that is not known (ValidateConsistency, GenerateFingerprint).
THEOREM ServedIsOneDevice == GenerateSpec => []FingerprintsHoldTogether
<1>1. GenerateInit => GenerateInv
  <2> SUFFICES ASSUME GenerateInit PROVE GenerateInv
    OBVIOUS
  <2>1. /\ stage = "published" /\ outcome = "none" /\ network \in Networks
        /\ joint = <<>> /\ flat = BuiltIn
    BY DEF GenerateInit
  <2>2. /\ \A s \in BuiltIn.screens : FlatScreen(s)
        /\ \A m \in BuiltIn.memory : m \in Int
    BY PublishedNumbers DEF FlatScreen
  <2>3. \A i \in DOMAIN joint : EntryInv(joint[i])
    <3>1. DOMAIN joint = {}
      BY <2>1
    <3> QED BY <3>1
  <2> QED BY <2>1, <2>2, <2>3 DEF GenerateInv
<1>2. GenerateInv => FingerprintsHoldTogether
  <2> SUFFICES ASSUME GenerateInv PROVE FingerprintsHoldTogether
    OBVIOUS
  <2>1. ASSUME outcome = "served"
        PROVE  /\ OneDevice(fprint) /\ wanted.os \in {AnyOf, fprint.os}
               /\ fprint.origin = "joint" => wanted.browser \in {AnyOf, fprint.browser}
    <3>1. Built(fprint) /\ ValidateConsistency(fprint)
      BY <2>1 DEF GenerateInv
    <3>2. OneDevice(fprint)
      BY <3>1, OnlyHeightIsOpen
    <3> QED BY <3>1, <3>2 DEF Built
  <2>2. ASSUME outcome = "refused" PROVE fprint.screen.availHeight > fprint.screen.height
    <3>1. Built(fprint) /\ ~ValidateConsistency(fprint)
      BY <2>2 DEF GenerateInv
    <3> QED BY <3>1, OnlyHeightIsOpen
  <2>3. outcome = "unknown" => uaPref(wanted.browser, wanted.os) = {}
    BY DEF GenerateInv
  <2> QED BY <2>1, <2>2, <2>3 DEF FingerprintsHoldTogether
<1> QED BY <1>1, <1>2, GenerateStep, PTL DEF GenerateSpec
=============================================================================
