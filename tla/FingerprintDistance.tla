------------------------- MODULE FingerprintDistance -------------------------
(***************************************************************************)
(* How far two fingerprints are apart (internal/fpengine/fpdistance.go):   *)
(* the measure on which a batch of sessions is kept distinct.              *)
(*                                                                         *)
(* Weights are percentages and a dimension's distance is in thousandths,   *)
(* so that a distance runs from 0 to 100 000.  A string is "" or anything. *)
(***************************************************************************)
EXTENDS Integers, Sequences, FiniteSets

Scale == 1000

DefaultWeights ==
  [canvas |-> 20, webgl |-> 35, fonts |-> 8, resolution |-> 15, ua |-> 15, tls |-> 7]

Sum6(w) == w.canvas + w.webgl + w.fonts + w.resolution + w.ua + w.tls

ValidateWeights(w) ==
  /\ Sum6(w) = 100
  /\ \A d \in DOMAIN w : w[d] >= 0

HardLockCeil == 25 * Scale
DefaultMinDistance == 30 * Scale

SameNonEmpty(s, t) == s # "" /\ s = t

SameDeviceCore(a, b) ==
  SameNonEmpty(a.canvas, b.canvas) /\ SameNonEmpty(a.renderer, b.renderer)

Apart(condition) == IF condition THEN Scale ELSE 0

\* An empty hash carries no signal.
CanvasDistance(a, b) ==
  Apart(a.canvas # "" /\ b.canvas # "" /\ a.canvas # b.canvas)

\* The vendor decides only when a renderer is missing.
WebglDistance(a, b) ==
  IF a.renderer = "" \/ b.renderer = "" THEN Apart(~SameNonEmpty(a.vendor, b.vendor))
  ELSE Apart(a.renderer # b.renderer)

\* Jaccard.  The first list becomes a set; the second is walked with its duplicates.
FontsDistance(a, b) ==
  LET known == {a.fonts[i] : i \in DOMAIN a.fonts}
      inter == Cardinality({i \in DOMAIN b.fonts : b.fonts[i] \in known})
      union == Cardinality(known) + (Len(b.fonts) - inter)
  IN IF a.fonts = <<>> \/ b.fonts = <<>> \/ inter = union THEN 0
     ELSE Scale - (inter * Scale) \div union

RelDiff(x, y) ==
  CASE x = 0 /\ y = 0 -> 0
    [] (x = 0) # (y = 0) -> Scale
    [] x >= y /\ y # 0 -> ((x - y) * Scale) \div x
    [] OTHER -> ((y - x) * Scale) \div y

Clamp(v, top) == IF v < 0 THEN 0 ELSE IF v > top THEN top ELSE v

\* RelDiff is never negative, so the axes that the code would skip do not occur.
ResolutionDistance(a, b) ==
  Clamp((RelDiff(a.width, b.width) + RelDiff(a.height, b.height) + RelDiff(a.dpr, b.dpr)) \div 3,
        Scale)

UaDistance(a, b) ==
  CASE a.browser # b.browser \/ a.os # b.os -> Scale
    [] a.browser = b.browser /\ a.os = b.os /\ a.major # b.major -> Scale \div 2
    [] OTHER -> 0

\* The ClientHello is bound to the major version.
TlsDistance(a, b) == Apart(a.major # b.major)

WeightedSum(a, b, w) ==
  w.canvas * CanvasDistance(a, b) + w.webgl * WebglDistance(a, b)
    + w.fonts * FontsDistance(a, b) + w.resolution * ResolutionDistance(a, b)
    + w.ua * UaDistance(a, b) + w.tls * TlsDistance(a, b)

\* Mutant: the cap on two fingerprints of one device core is forgotten.
WithoutCap(a, b, w) == Clamp(WeightedSum(a, b, w), 100 * Scale)

DistanceUnder(a, b, w) ==
  LET d == WeightedSum(a, b, w)
      capped == IF SameDeviceCore(a, b) /\ d > HardLockCeil THEN HardLockCeil ELSE d
  IN Clamp(capped, 100 * Scale)

DistanceWithWeights(a, b, w) ==
  DistanceUnder(a, b, IF ValidateWeights(w) THEN w ELSE DefaultWeights)

=============================================================================
