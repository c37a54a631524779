--------------------------- MODULE FingerprintData ---------------------------
(***************************************************************************)
(* The fingerprint data of a server: the two files that the updater        *)
(* (internal/fpupdate/updater.go) writes, the caches of internal/fpengine  *)
(* over them, the daily check of cmd/bes-server, and generators that draw  *)
(* fingerprints meanwhile.                                                 *)
(*                                                                         *)
(* A file holds the data of one published version, is torn (os.WriteFile   *)
(* truncates it before it writes), or is absent.  "real" is                *)
(* fp_real_data.json, whose source_version is the marker of what is        *)
(* installed; "profiles" is device_profiles.json, the joint distribution   *)
(* that is asked first.  A restart loses the caches and keeps the files.   *)
(***************************************************************************)
EXTENDS Integers, Sequences, TLC

CONSTANTS
  Generators,   \* goroutines that generate fingerprints
  MaxVersion,   \* bound: versions the registry publishes
  MaxFaults,    \* bound: failed steps of updates and restarts of the server
  LegacyLoads   \* how often one fingerprint of the legacy sampler asks for the data

ASSUME DataConstants ==
  /\ MaxVersion \in Nat \ {0} /\ MaxFaults \in Nat /\ LegacyLoads \in Nat \ {0}
  /\ "updater" \notin Generators

VARIABLES
  latest,     \* the version the registry names
  file,       \* the two files
  upd,        \* the updater: pc, and the version it works on
  real,       \* fpDataCache; 0 is nil
  prof,       \* the device profile store: loaded, content, err
  load,       \* calls of LoadFpRealData in progress
  gen,        \* fingerprints in progress
  faults,     \* how many faults there were
  reloaded,   \* history: what the last hot reload since the start was for; 0 if none
  written,    \* history: what the last update that wrote has written, "all" or "part"
  stored      \* history: "late" if a load stored what it had read before the last reload

dataVars == <<latest, file, upd, real, prof, load, gen, faults, reloaded, written, stored>>

Updater == "updater"
Loaders == Generators \cup {Updater}
Versions == 1..MaxVersion
Absent == 0
Torn == -1
Embedded == 0     \* the data compiled in, when the file is of no use
Whole(content) == content \in Versions

NoLoad == [pc |-> "none", seen |-> 0]
Looking == [pc |-> "look", seen |-> 0]
NoFingerprint == [pc |-> "idle", joint |-> FALSE, used |-> <<>>]
NotLoaded == [loaded |-> FALSE, content |-> 0, err |-> FALSE]
IdleUpdater == [pc |-> "idle", ver |-> 0]

Cold ==     \* a process that has just started
  /\ upd = IdleUpdater /\ real = 0 /\ prof = NotLoaded
  /\ load = [l \in Loaders |-> NoLoad]
  /\ gen = [g \in Generators |-> NoFingerprint]
  /\ reloaded = 0 /\ stored = "fresh"

DataInit ==
  /\ latest = 1
  /\ file \in {[real |-> v, profiles |-> v] : v \in {Absent, 1}}
  /\ Cold
  /\ faults = 0 /\ written = "all"

-----------------------------------------------------------------------------
(* The registry and the updater. *)

Publish ==
  /\ latest < MaxVersion
  /\ latest' = latest + 1
  /\ UNCHANGED <<file, upd, real, prof, load, gen, faults, reloaded, written, stored>>

\* Mutant: a marker that cannot be read counts as up to date.
InstalledOrAnything == IF Whole(file.real) THEN file.real ELSE latest

\* GetInstalledVersion: no version when the file cannot be read or parsed.
Installed == IF Whole(file.real) THEN file.real ELSE 0

UpdateNeeded == Installed # latest

\* CheckAndUpdate finds a difference.  When it finds none, nothing changes.
Check ==
  /\ upd.pc = "idle" /\ UpdateNeeded
  /\ upd' = [upd EXCEPT !.pc = "query"]
  /\ UNCHANGED <<latest, file, real, prof, load, gen, faults, reloaded, written, stored>>

\* Update asks the registry again, so that it may fetch a later version than Check saw.
Query ==
  /\ upd.pc = "query"
  /\ upd' = [pc |-> "fetch", ver |-> latest]
  /\ UNCHANGED <<latest, file, real, prof, load, gen, faults, reloaded, written, stored>>

\* download, extractNetworkJSON, parseNetworkToBesJSON: nothing is written yet.
Fetch ==
  /\ upd.pc = "fetch"
  /\ upd' = [upd EXCEPT !.pc = "open real"]
  /\ UNCHANGED <<latest, file, real, prof, load, gen, faults, reloaded, written, stored>>

\* os.WriteFile of one of the files: the truncation, then the bytes.
Truncate(f, now, next) ==
  /\ upd.pc = now
  /\ file' = [file EXCEPT ![f] = Torn]
  /\ upd' = [upd EXCEPT !.pc = next]
  /\ UNCHANGED <<latest, real, prof, load, gen, faults, reloaded, stored>>

\* Mutant: what is written is what the registry names by then.
WriteLatest(f, now, next) ==
  /\ upd.pc = now
  /\ file' = [file EXCEPT ![f] = latest]
  /\ upd' = [upd EXCEPT !.pc = next]
  /\ UNCHANGED <<latest, real, prof, load, gen, faults, reloaded, stored>>

Write(f, now, next) ==
  /\ upd.pc = now
  /\ file' = [file EXCEPT ![f] = upd.ver]
  /\ upd' = [upd EXCEPT !.pc = next]
  /\ UNCHANGED <<latest, real, prof, load, gen, faults, reloaded, stored>>

OpenReal == Truncate("real", "open real", "write real") /\ written' = "part"
WriteReal == Write("real", "write real", "parse") /\ UNCHANGED written

\* parseNetworkToDeviceProfileJSON, after the marker is on disk.
ParseProfiles ==
  /\ upd.pc = "parse"
  /\ upd' = [upd EXCEPT !.pc = "open profiles"]
  /\ UNCHANGED <<latest, file, real, prof, load, gen, faults, reloaded, written, stored>>

OpenProfiles == Truncate("profiles", "open profiles", "write profiles") /\ UNCHANGED written
WriteProfiles == Write("profiles", "write profiles", "clear") /\ written' = "all"

\* Any step up to the last write may fail: CheckAndUpdate returns the error, which is
\* logged, and the next check is a day away.
FailingSteps == {"query", "fetch", "open real", "write real", "parse", "open profiles", "write profiles"}

UpdateFails ==
  /\ upd.pc \in FailingSteps /\ faults < MaxFaults
  /\ upd' = IdleUpdater
  /\ faults' = faults + 1
  /\ UNCHANGED <<latest, file, real, prof, load, gen, reloaded, written, stored>>

-----------------------------------------------------------------------------
(* LoadFpRealData: look into the cache, read the file with no lock held, store. *)

\* The reload's own load begins; whoever has read the file by now has read the old one.
LoadsFromNowOn ==
  [l \in Loaders |->
     IF l = Updater THEN Looking
     ELSE IF load[l].pc = "store" THEN [pc |-> "store late", seen |-> load[l].seen]
     ELSE load[l]]

\* Mutant: the reload looks into the cache before it clears it.
StartReloadUncleared ==
  /\ upd.pc = "clear"
  /\ load[Updater] = NoLoad
  /\ upd' = [upd EXCEPT !.pc = "reload"]
  /\ load' = LoadsFromNowOn
  /\ stored' = "fresh" /\ reloaded' = 0
  /\ UNCHANGED <<latest, file, real, prof, gen, faults, written>>

\* ReloadFpRealData clears the cache and loads.  The device profiles are not reloaded.
StartReload ==
  /\ upd.pc = "clear"
  /\ real' = 0
  /\ upd' = [upd EXCEPT !.pc = "reload"]
  /\ load' = LoadsFromNowOn
  /\ stored' = "fresh" /\ reloaded' = 0
  /\ UNCHANGED <<latest, file, prof, gen, faults, written>>

\* What a load returns goes to the caller: the updater's reload and its FpDataStats,
\* or one of the questions of the legacy sampler.
Return(l, v) ==
  \/ /\ l = Updater /\ upd.pc = "reload"
     /\ upd' = [upd EXCEPT !.pc = "stats"]
     /\ reloaded' = upd.ver
     /\ load' = [load EXCEPT ![l] = Looking]
     /\ UNCHANGED gen
  \/ /\ l = Updater /\ upd.pc # "reload"
     /\ upd' = IdleUpdater
     /\ load' = [load EXCEPT ![l] = NoLoad]
     /\ UNCHANGED <<reloaded, gen>>
  \/ /\ l \in Generators
     /\ gen' = [gen EXCEPT ![l].used = Append(@, v)]
     /\ load' = [load EXCEPT ![l] = NoLoad]
     /\ UNCHANGED <<upd, reloaded>>

LookUp(l) ==
  /\ load[l].pc = "look"
  /\ \/ real # 0 /\ Return(l, real)
     \/ /\ real = 0
        /\ load' = [load EXCEPT ![l] = [pc |-> "read", seen |-> 0]]
        /\ UNCHANGED <<gen, upd, reloaded>>
  /\ UNCHANGED <<latest, file, real, prof, faults, written, stored>>

\* loadFromJSON; what is not a whole file gives the embedded data, which is not cached.
ReadFile(l) ==
  /\ load[l].pc = "read"
  /\ \/ /\ Whole(file.real)
        /\ load' = [load EXCEPT ![l] = [pc |-> "store", seen |-> file.real]]
        /\ UNCHANGED <<gen, upd, reloaded>>
     \/ ~Whole(file.real) /\ Return(l, Embedded)
  /\ UNCHANGED <<latest, file, real, prof, faults, written, stored>>

Store(l) ==
  /\ load[l].pc \in {"store", "store late"}
  /\ real' = load[l].seen
  /\ stored' = IF load[l].pc = "store late" THEN "late" ELSE stored
  /\ Return(l, load[l].seen)
  /\ UNCHANGED <<latest, file, prof, faults, written>>

-----------------------------------------------------------------------------
(* Generators. *)

\* loadDeviceProfileStore, which reads the file under its lock: the store afterwards,
\* and what this caller gets (0 is a nil store or an error).
ProfilesAfterLoad ==
  CASE prof.loaded -> prof
    [] ~prof.loaded /\ file.profiles = Absent -> [prof EXCEPT !.loaded = TRUE]
    [] ~prof.loaded /\ file.profiles = Torn -> [prof EXCEPT !.err = TRUE]
    [] OTHER -> [prof EXCEPT !.loaded = TRUE, !.content = file.profiles]

ProfilesReturned ==
  IF prof.loaded THEN (IF prof.err THEN 0 ELSE prof.content)
  ELSE (IF Whole(file.profiles) THEN file.profiles ELSE 0)

\* GenerateWithTimezone asks for the joint profiles first.  Without a store, or when no
\* User-Agent satisfies the caller's constraint, the legacy sampler runs.
Generate(g, satisfiable) ==
  /\ gen[g].pc = "idle"
  /\ prof' = ProfilesAfterLoad
  /\ gen' = [gen EXCEPT ![g] =
       IF satisfiable /\ ProfilesReturned # 0
       THEN [pc |-> "done", joint |-> TRUE, used |-> <<ProfilesReturned>>]
       ELSE [pc |-> "legacy", joint |-> FALSE, used |-> <<>>]]
  /\ UNCHANGED <<latest, file, upd, real, load, faults, reloaded, written, stored>>

\* SampleGPU, SampleScreen, the cores and the memory each call LoadFpRealData.
Ask(g) ==
  /\ gen[g].pc = "legacy" /\ load[g] = NoLoad /\ Len(gen[g].used) < LegacyLoads
  /\ load' = [load EXCEPT ![g] = Looking]
  /\ UNCHANGED <<latest, file, upd, real, prof, gen, faults, reloaded, written, stored>>

Finish(g) ==
  /\ \/ gen[g].pc = "done"
     \/ gen[g].pc = "legacy" /\ Len(gen[g].used) = LegacyLoads
  /\ gen' = [gen EXCEPT ![g] = NoFingerprint]
  /\ UNCHANGED <<latest, file, upd, real, prof, load, faults, reloaded, written, stored>>

\* The server is restarted, or dies in the middle of whatever it does.
Restart ==
  /\ faults < MaxFaults
  /\ faults' = faults + 1
  /\ upd' = IdleUpdater /\ real' = 0 /\ prof' = NotLoaded
  /\ load' = [l \in Loaders |-> NoLoad]
  /\ gen' = [g \in Generators |-> NoFingerprint]
  /\ reloaded' = 0 /\ stored' = "fresh"
  /\ UNCHANGED <<latest, file, written>>

-----------------------------------------------------------------------------
UpdateStep ==
  \/ Check \/ Query \/ Fetch
  \/ OpenReal \/ WriteReal \/ ParseProfiles \/ OpenProfiles \/ WriteProfiles
  \/ StartReload

LoadStep(l) == LookUp(l) \/ ReadFile(l) \/ Store(l)

DataNext ==
  \/ Publish \/ UpdateStep \/ UpdateFails \/ Restart
  \/ \E l \in Loaders : LoadStep(l)
  \/ \E g \in Generators :
       (\E satisfiable \in BOOLEAN : Generate(g, satisfiable)) \/ Ask(g) \/ Finish(g)

DataSpec == DataInit /\ [][DataNext]_dataVars

\* The ticker calls the check again and again, and a goroutine that runs goes on.
DataFairness ==
  /\ WF_dataVars(UpdateStep)
  /\ WF_dataVars(LoadStep(Updater))

-----------------------------------------------------------------------------
\* The marker speaks for both files: unless the last update was cut short between its
\* first write and its last, the two files hold the same version, whatever the registry
\* published meanwhile (or the server was started without them).
FilesAgree == written = "all" => file.real = file.profiles

\* After the hot reload of an update the legacy sampler never again works with older
\* data, unless a load that had read the file before the reload stored its result
\* after it.
ReloadTakesEffect == (reloaded # 0 /\ stored = "fresh") => reloaded <= real

\* In the end the marker names what the registry publishes: an update that was
\* interrupted while it wrote the marker's file is done again.
MarkerArrives == <>[](file.real = latest)

\* "Hot-reload without restart": once the server has hot-reloaded an update, the joint
\* profiles that fingerprints are drawn from are those of the update.
HotReloadReachesProfiles ==
  (reloaded # 0 /\ upd.pc = "idle" /\ prof.content # 0) => prof.content = reloaded
=============================================================================
