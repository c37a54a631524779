---------------------------- MODULE ChromeHello ----------------------------
(***************************************************************************)
(* How a connection introduces itself (internal/netlayer): the table from  *)
(* Chrome versions to TLS ClientHellos and HTTP/2 prefaces, and the way    *)
(* from the version that a session's fingerprint names to an entry of it.  *)
(*                                                                         *)
(* A version is a number; the texts that are no number are NoVersion, the  *)
(* empty one, and Unreadable, such as "0.9".                               *)
(***************************************************************************)
EXTENDS Integers, SequencesExt

NoVersion == -1
Unreadable == -2
Texts == {NoVersion, Unreadable}

DefaultMajor == 150
PQSigAlgMin == 140

\* chromeFingerprintLadder: the releases that changed the ClientHello, in order.
Ladder == <<58, 62, 70, 72, 83, 87, 96, 100, 102, 106, 115, 120, 131, 133>>

ChromeH2 ==
  [headerTableSize |-> 65536, enablePush |-> 0, initialWindowSize |-> 6291456,
   maxHeaderListSize |-> 262144, connWindowUpdate |-> 15663105, priorityWeight |-> 255]

(* chromeProfileFor: the last entry before the first that is newer than the version,
   which is raised to that of the first entry. *)
ClampUp(major) == IF major < Head(Ladder) THEN Head(Ladder) ELSE major

Rung(major) ==
  LET newer == {i \in DOMAIN Ladder : major < Ladder[i]}
  IN  IF newer = {} THEN Len(Ladder) ELSE (CHOOSE i \in newer : \A j \in newer : i <= j) - 1

ChromeProfileFor(major) ==
  LET m == ClampUp(major)
  IN  [hello |-> Ladder[Rung(m)], pqSigAlgs |-> m >= PQSigAlgMin, h2 |-> ChromeH2]

(* The backend's target: "chrome" and the fingerprint's version, or the default one. *)
TLSTarget(version) == IF version # NoVersion THEN version ELSE DefaultMajor

ParseChromeVersion(target) == IF target \in Texts THEN 0 ELSE target

(* NewUTLSClient, below netlayer.New and NewTLSClient. *)
ClientProfile(target) ==
  LET version == ParseChromeVersion(target)
  IN  ChromeProfileFor(IF version = 0 THEN DefaultMajor ELSE version)

(* dialUTLS: the preset of utls, with the post-quantum schemes put in front of its
   signature algorithms; and requestH2: the SETTINGS, the WINDOW_UPDATE and the priority
   that precede the request. *)
PQSchemes == <<"ML-DSA-65", "ML-DSA-87", "SLH-DSA-192s">>

ClientHello(profile) ==
  [preset |-> profile.hello, extraSigAlgs |-> IF profile.pqSigAlgs THEN PQSchemes ELSE <<>>]

Preface(profile) ==
  [settings |-> <<<<1, profile.h2.headerTableSize>>, <<2, profile.h2.enablePush>>,
                  <<4, profile.h2.initialWindowSize>>, <<6, profile.h2.maxHeaderListSize>>>>,
   windowUpdate |-> profile.h2.connWindowUpdate, weight |-> profile.h2.priorityWeight]

Handshake(profile) == [hello |-> ClientHello(profile), preface |-> Preface(profile)]

-----------------------------------------------------------------------------
(* What chrome_fingerprint.go says of a Chrome of some version: it "reuses the nearest
   lower entry", the oldest one if there is none, and sends the post-quantum schemes from
   140 on. *)
HandshakeOf(major) ==
  LET released == {m \in ToSet(Ladder) : m <= major}
      preset == IF released = {} THEN Min(ToSet(Ladder)) ELSE Max(released)
  IN  [hello |-> [preset |-> preset,
                  extraSigAlgs |-> IF major >= 140 THEN PQSchemes ELSE <<>>],
       preface |-> [settings |-> <<<<1, 65536>>, <<2, 0>>, <<4, 6291456>>, <<6, 262144>>>>,
                    windowUpdate |-> 15663105, weight |-> 255]]
=============================================================================
