-------------------------- MODULE FingerprintNetwork --------------------------
(***************************************************************************)
(* From the published network to the two data files (internal/fpupdate/    *)
(* parser.go and parser_deviceprofile.go).  The network is a root, the     *)
(* User-Agents with their weights, and for each dimension of a fingerprint *)
(* a distribution per User-Agent.                                          *)
(*                                                                         *)
(* A string is the set of the substrings the code looks for in it, with a  *)
(* name of its own where two strings must differ ("_" stands for a blank); *)
(* {} is the empty string.                                                 *)
(* A distribution is a set of [ok, v, p]: ok tells whether the key unwraps *)
(* to what the dimension holds, p is its weight.                           *)
(***************************************************************************)
EXTENDS Integers, Sequences, FiniteSets, FiniteSetsExt, SequencesExt, TLC

Has(s, sub) == sub \in s
EmptyString == {}

\* A User-Agent is [has, major]: major is the number after the browser's token, or 0.
\* The first row of a table of which a User-Agent has all the words decides.
FirstMatch(table, ua) ==
  LET rows == {i \in DOMAIN table : table[i].words \subseteq ua.has}
  IN IF rows = {} THEN "other" ELSE table[Min(rows)].class

\* A map is a function on the fields it has.
FieldOr(m, key, default) ==
  IF key \in DOMAIN m /\ m[key] # 0 THEN m[key] ELSE default
Field(m, key) == FieldOr(m, key, 0)

\* Tenths to an int, as a conversion of float64 does.
Truncated(tenths) == tenths \div 10

-----------------------------------------------------------------------------
(* parser.go: lists without the correlation. *)

\* possibleValues of a node: what any of its distributions holds.
PossibleValues(net, node) ==
  IF node \notin DOMAIN net THEN {}
  ELSE {e.v : e \in {x \in UNION {net[node][ua] : ua \in DOMAIN net[node]} : x.ok}}

GpuList(net) ==
  {g \in PossibleValues(net, "videoCard") : g.renderer # EmptyString /\ g.vendor # EmptyString}

\* A screen without a width is kept, with the width 0.
ScreenList(net) ==
  {[width |-> Field(m, "width"), height |-> Field(m, "height"),
    availWidth |-> FieldOr(m, "availWidth", Field(m, "width")),
    availHeight |-> FieldOr(m, "availHeight", Field(m, "height")),
    colorDepth |-> FieldOr(m, "colorDepth", 24),
    dpr |-> IF "dpr" \in DOMAIN m THEN m.dpr ELSE 100] : m \in PossibleValues(net, "screen")}

IntList(net, node, defaults) ==
  LET ints == {Truncated(n) : n \in {x \in PossibleValues(net, node) : x >= 10}}
  IN IF node \notin DOMAIN net THEN {} ELSE IF ints = {} THEN defaults ELSE ints

RealData(net) ==
  [gpus |-> GpuList(net), screens |-> ScreenList(net),
   cores |-> IntList(net, "hardwareConcurrency", {4, 8, 12, 16}),
   memory |-> IntList(net, "deviceMemory", {4, 8, 16, 32})]

-----------------------------------------------------------------------------
(* parser_deviceprofile.go: the joint distribution. *)

\* It looks for Edge last, and every Edge is a Chrome by then.
ParserBrowsers ==
  <<[words |-> {"firefox/"}, class |-> "firefox"], [words |-> {"chrome/"}, class |-> "chrome"],
    [words |-> {"version/", "safari"}, class |-> "safari"], [words |-> {"edg/"}, class |-> "edge"]>>

ParserSystems ==
  <<[words |-> {"android"}, class |-> "android"], [words |-> {"iphone"}, class |-> "ios"],
    [words |-> {"ipad"}, class |-> "ios"], [words |-> {"mac_os_x"}, class |-> "macos"],
    [words |-> {"macintosh"}, class |-> "macos"], [words |-> {"windows"}, class |-> "windows"],
    [words |-> {"cros"}, class |-> "chromeos"], [words |-> {"linux"}, class |-> "linux"]>>

uaBrowserClass(ua) == FirstMatch(ParserBrowsers, ua)
uaOSClass(ua) == FirstMatch(ParserSystems, ua)

\* The combinations of a supported browser and a supported system, sorted.
Combos ==
  <<<<"chrome", "android">>, <<"chrome", "linux">>, <<"chrome", "macos">>, <<"chrome", "windows">>,
    <<"firefox", "android">>, <<"firefox", "linux">>, <<"firefox", "macos">>, <<"firefox", "windows">>,
    <<"safari", "android">>, <<"safari", "linux">>, <<"safari", "macos">>, <<"safari", "windows">>>>

Combo(ua) == <<uaBrowserClass(ua), uaOSClass(ua)>>
Rank(ua) == CHOOSE r \in DOMAIN Combos : Combos[r] = Combo(ua)

\* Round after round, the next User-Agent of every combination, in the order of Combos.
RepresentativeUAs(uas, maxUAs) ==
  LET kept == SelectSeq([i \in DOMAIN uas |-> i], LAMBDA i : Combo(uas[i]) \in Range(Combos))
      round(i) == Cardinality({j \in 1..i : Combo(uas[j]) = Combo(uas[i])})
      Before(i, j) ==
        round(i) < round(j) \/ (round(i) = round(j) /\ Rank(uas[i]) < Rank(uas[j]))
      turns == SortSeq(kept, Before)
  IN IF maxUAs <= 0 \/ Len(uas) <= maxUAs THEN uas
     ELSE [n \in 1..Min({maxUAs, Len(turns)}) |-> uas[turns[n]]]

\* The distribution of a dimension under a User-Agent; none where the network has none.
ChildDist(net, node, ua) ==
  IF node \in DOMAIN net /\ ua \in DOMAIN net[node] THEN {e \in net[node][ua] : e.ok} ELSE {}

\* What one dimension holds for the User-Agents kept.
Conditioned(net, node, keep, Kept(_), Value(_)) ==
  [ua \in Range(keep) |->
     {[v |-> Value(e.v), p |-> e.p] : e \in {x \in ChildDist(net, node, ua) : Kept(x.v)}}]

DPVideoCard(net, keep) ==
  LET Known(g) == g.renderer # EmptyString \/ g.vendor # EmptyString
      Same(g) == g
  IN Conditioned(net, "videoCard", keep, Known, Same)

DPScreen(net, keep) ==
  LET HasWidth(m) == Field(m, "width") # 0
      Entry(m) ==
        [width |-> m.width, height |-> Field(m, "height"),
         availWidth |-> FieldOr(m, "availWidth", m.width),
         availHeight |-> FieldOr(m, "availHeight", Field(m, "height")),
         colorDepth |-> FieldOr(m, "colorDepth", 24),
         pixelDepth |-> FieldOr(m, "pixelDepth", FieldOr(m, "colorDepth", 24)),
         dpr |-> IF "dpr" \in DOMAIN m THEN m.dpr ELSE 100,
         outerWidth |-> FieldOr(m, "outerWidth", m.width),
         outerHeight |-> FieldOr(m, "outerHeight", Field(m, "height"))]
  IN Conditioned(net, "screen", keep, HasWidth, Entry)

\* A number that is not positive is dropped, 0 touch points as well.
DPInts(net, node, keep) ==
  LET Positive(n) == Truncated(n) > 0
  IN Conditioned(net, node, keep, Positive, Truncated)

DPStrings(net, node, keep) ==
  LET NonEmpty(s) == s # EmptyString
      Same(s) == s
  IN Conditioned(net, node, keep, NonEmpty, Same)

\* The font lists in one pool without duplicates, and their indices (from 0) per User-Agent.
FontPool(net, keep) ==
  LET lists == DPStrings(net, "fonts", keep)
      pool == SetToSeq({e.v : e \in UNION {lists[ua] : ua \in Range(keep)}})
      Index(list) == (CHOOSE i \in DOMAIN pool : pool[i] = list) - 1
  IN [pool |-> pool,
      cond |-> [ua \in Range(keep) |-> {[v |-> Index(e.v), p |-> e.p] : e \in lists[ua]}]]

UANodeWeight(net, ua) == IF ua \in DOMAIN net.prior THEN net.prior[ua] ELSE 0

DeviceProfileData(net, maxUAs) ==
  LET uas == SelectSeq(net.userAgents, LAMBDA ua : ua.has # EmptyString)
      keep == RepresentativeUAs(uas, maxUAs)
  IN [userAgents |-> keep,
      uaPriors |-> [i \in DOMAIN keep |-> UANodeWeight(net, keep[i])],
      videoCard |-> DPVideoCard(net, keep),
      screen |-> DPScreen(net, keep),
      hardwareConcurrency |-> DPInts(net, "hardwareConcurrency", keep),
      deviceMemory |-> DPInts(net, "deviceMemory", keep),
      maxTouchPoints |-> DPInts(net, "maxTouchPoints", keep),
      platform |-> DPStrings(net, "platform", keep),
      vendor |-> DPStrings(net, "vendor", keep),
      fonts |-> FontPool(net, keep)]
=============================================================================
