----------------------------- MODULE SessionBatch -----------------------------
(***************************************************************************)
(* A batch of sessions whose Correlator measures real fingerprints: the    *)
(* registry of Correlator with the measure of FingerprintDistance, as      *)
(* NewCorrelator puts them together.                                       *)
(***************************************************************************)
EXTENDS Correlator, FingerprintDistance

CONSTANTS
  Device,             \* what the measure looks at in each fingerprint
  CorrelatorOptions   \* [minDistance, weights], as the caller asked

\* Every generated fingerprint names its canvas and its renderer, and lists a font once.
ASSUME BatchConstants ==
  /\ DOMAIN Device = Prints
  /\ \A p \in Prints :
       LET d == Device[p] IN
       /\ d.canvas # "" /\ d.renderer # ""
       /\ d.fonts \in Seq(STRING)
       /\ \A i, j \in DOMAIN d.fonts : d.fonts[i] = d.fonts[j] => i = j
       /\ d.width \in Nat /\ d.height \in Nat /\ d.dpr \in Nat
  /\ CorrelatorOptions.minDistance \in Int
  /\ CorrelatorOptions.weights \in [DOMAIN DefaultWeights -> Int]

\* NewCorrelator: an option that is no threshold is the default, and weights that do not
\* add up are the default weights.
MinDistance ==
  IF CorrelatorOptions.minDistance <= 0 THEN DefaultMinDistance ELSE CorrelatorOptions.minDistance

Weights ==
  IF ValidateWeights(CorrelatorOptions.weights) THEN CorrelatorOptions.weights ELSE DefaultWeights

\* Correlator.distance against the threshold: what Far is in a real batch.
FarApart ==
  {pair \in Prints \X Prints :
     DistanceWithWeights(Device[pair[1]], Device[pair[2]], Weights) >= MinDistance}

ASSUME FarIsMeasured == Far = FarApart

\* The threshold is above what two fingerprints of one device core can reach, and the GPU
\* alone reaches it: so it is with the defaults, and with every other choice that is to tell
\* devices apart, and only devices.
ASSUME ThresholdTellsDevices ==
  HardLockCeil < MinDistance /\ MinDistance <= Weights.webgl * Scale

-----------------------------------------------------------------------------
SameGPU(p, q) == Device[p].renderer = Device[q].renderer

\* What the threshold of 0.30 is for.  Two sessions of one batch are never of one device core
\* (the same GPU and the same canvas) nor copies of each other, however much their screen,
\* fonts and browser differ; and no candidate is refused unless a fingerprint of the same
\* GPU was admitted before it in this batch.
OneSessionPerDevice ==
  /\ \A c, d \in Creators :
       (c # d /\ HoldsPrint(c) /\ HoldsPrint(d) /\ create[c].batch = create[d].batch) =>
         /\ ~SameDeviceCore(Device[create[c].print], Device[create[d].print])
         /\ Device[create[c].print] # Device[create[d].print]
  /\ \A c \in Creators :
       (create[c].pc = "admit" /\ ~Passes(create[c].print)) =>
         \E i \in DOMAIN admitted : SameGPU(create[c].print, admitted[i])
=============================================================================
