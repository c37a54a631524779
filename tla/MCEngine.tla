------------------------------- MODULE MCEngine -------------------------------
(***************************************************************************)
(* The engine, what gives its sessions their identity (the fingerprint     *)
(* packages, batches of sessions and saved profiles) and the event loop of *)
(* a session.  The parts share no state that these modules have, so that a *)
(* behaviour explores one of them, which "part" names; the others stay as  *)
(* they begin.                                                             *)
(***************************************************************************)
EXTENDS Engine, FingerprintData, CanvasDataset, SessionBatch, Fingerprint, ProfileStore,
        Timers, TLC

VARIABLE part

Parts == {"engine", "data", "canvas", "batch", "fingerprint", "profiles", "timers"}
partVars ==
  <<part, vars, dataVars, canvasVars, correlatorVars, genVars, profileVars, loopVars>>

\* A part that is not explored begins in one state only.
PartsInit ==
  /\ part \in Parts
  /\ Init /\ DataInit /\ CanvasInit /\ CorrelatorInit /\ GenerateInit
  /\ ProfileInit /\ TimersInit
  /\ part # "data" => file.real = latest
  /\ part # "canvas" => edition = 0
  /\ part # "fingerprint" =>
       network = (CHOOSE n \in Networks : TRUE) /\ wanted = (CHOOSE r \in Requests : TRUE)

PartsNext ==
  /\ UNCHANGED part
  /\ \/ /\ part = "engine" /\ Next
        /\ UNCHANGED <<dataVars, canvasVars, correlatorVars, genVars, profileVars, loopVars>>
     \/ /\ part = "data" /\ DataNext
        /\ UNCHANGED <<vars, canvasVars, correlatorVars, genVars, profileVars, loopVars>>
     \/ /\ part = "canvas" /\ CanvasNext
        /\ UNCHANGED <<vars, dataVars, correlatorVars, genVars, profileVars, loopVars>>
     \/ /\ part = "batch" /\ CorrelatorNext
        /\ UNCHANGED <<vars, dataVars, canvasVars, genVars, profileVars, loopVars>>
     \/ /\ part = "fingerprint" /\ GenerateNext
        /\ UNCHANGED <<vars, dataVars, canvasVars, correlatorVars, profileVars, loopVars>>
     \/ /\ part = "profiles" /\ ProfileNext
        /\ UNCHANGED <<vars, dataVars, canvasVars, correlatorVars, genVars, loopVars>>
     \/ /\ part = "timers" /\ TimersNext
        /\ UNCHANGED <<vars, dataVars, canvasVars, correlatorVars, genVars, profileVars>>

\* The fairness of FingerprintData, asked of its part alone.  Of the event loop nothing is
\* enabled that TimersFairness names before a script runs.
PartsFairness ==
  /\ WF_dataVars(part = "data" /\ UpdateStep)
  /\ WF_dataVars(part = "data" /\ LoadStep(Updater))
  /\ TimersFairness

PartsSpec == PartsInit /\ [][PartsNext]_partVars /\ PartsFairness

-----------------------------------------------------------------------------
(* SessionBatch: b has the device core of a and differs in all else, c has another GPU. *)

Base ==
  [canvas |-> "c1", renderer |-> "g1", vendor |-> "v", fonts |-> <<"f", "g">>,
   width |-> 1920, height |-> 1080, dpr |-> 100,
   browser |-> "chrome", os |-> "windows", major |-> 148]

MCDevice ==
  [a |-> Base,
   b |-> [Base EXCEPT !.fonts = <<"h">>, !.width = 1280, !.height = 720, !.dpr = 200,
                      !.browser = "edge", !.major = 149],
   c |-> [Base EXCEPT !.renderer = "g2"]]

MCPrints == DOMAIN MCDevice

\* No threshold, and weights that add up to 99: both are replaced.
MCOptions == [minDistance |-> 0, weights |-> [DefaultWeights EXCEPT !.tls = 6]]

-----------------------------------------------------------------------------
(* Fingerprint. *)

Seen(v) == [ok |-> TRUE, v |-> v, p |-> 1]
Garbled(v) == [ok |-> FALSE, v |-> v, p |-> 1]

WinChrome == [has |-> {"chrome/", "safari", "windows"}, major |-> 147]
WinEdge == [has |-> {"chrome/", "safari", "windows", "edg/"}, major |-> 147]
MacSafari == [has |-> {"version/", "safari", "macintosh", "mac_os_x"}, major |-> 26]
Android == [has |-> {"chrome/", "safari", "linux", "android"}, major |-> 147]
LinuxFirefox == [has |-> {"firefox/", "linux"}, major |-> 150]
IPhone == [has |-> {"version/", "safari", "iphone", "mac_os_x"}, major |-> 26]

Nvidia == [renderer |-> {"Direct3D11", "NVIDIA"}, vendor |-> {"NVIDIA"}]
Metal == [renderer |-> {"Metal", "Apple"}, vendor |-> {"Apple"}]
Adreno == [renderer |-> {"Adreno"}, vendor |-> {"Qualcomm"}]
Mesa == [renderer |-> {"OpenGL"}, vendor |-> {"Mesa"}]
NoVendor == [renderer |-> {"OpenGL"}, vendor |-> {}]
NoRenderer == [renderer |-> {}, vendor |-> {"Mesa"}]

Full == [width |-> 1920, height |-> 1080, availHeight |-> 1040, outerHeight |-> 1080]
Phone == [width |-> 393, height |-> 230, dpr |-> 275]
Twisted == [width |-> 1920, height |-> 1040, availHeight |-> 1080, colorDepth |-> 30]
Unsized == [colorDepth |-> 24]

\* Every browser and system that the parsers tell apart, entries that are garbled, and
\* a User-Agent (Linux Firefox) with nothing but renderers and fonts.
Rich ==
  [userAgents |-> <<WinEdge, WinChrome, MacSafari, Android, LinuxFirefox, IPhone>>,
   prior |-> (WinChrome :> 3) @@ (MacSafari :> 2) @@ (Android :> 0) @@ (WinEdge :> 2)
               @@ (IPhone :> 4),
   videoCard |-> (WinChrome :> {Seen(Nvidia), Seen(Metal)}) @@ (MacSafari :> {Seen(Metal)})
                   @@ (WinEdge :> {Seen(Nvidia)}) @@ (Android :> {Seen(Nvidia), Seen(Adreno)})
                   @@ (LinuxFirefox :> {Seen(Mesa), Seen(NoVendor), Seen(NoRenderer), Garbled(Mesa)})
                   @@ (IPhone :> {Seen(Metal)}),
   screen |-> (WinChrome :> {Seen(Full), Seen(Unsized)})
                @@ (MacSafari :> {Seen(Full), Seen(Twisted)}) @@ (Android :> {Seen(Phone)}),
   fonts |-> (WinChrome :> {Seen({"Segoe_UI"}), Seen({})}) @@ (MacSafari :> {Seen({"SF_Pro"})})
               @@ (LinuxFirefox :> {Seen({"Segoe_UI"})}),
   hardwareConcurrency |-> (WinChrome :> {Seen(80), Seen(6400)}) @@ (Android :> {Seen(80)}),
   deviceMemory |-> (WinChrome :> {Seen(80), Seen(5)}),
   platform |-> (WinChrome :> {Seen({"Win32"})}) @@ (MacSafari :> {Seen({"MacIntel"})})
                  @@ (Android :> {Seen({"Linux_armv8l"})}),
   vendor |-> (WinChrome :> {Seen({"Google"})}) @@ (MacSafari :> {Seen({"Apple"})})
                @@ (LinuxFirefox :> {Seen({})}),
   maxTouchPoints |-> (WinChrome :> {[ok |-> TRUE, v |-> 0, p |-> 9], Seen(100)})]

\* Nothing of use: a renderer of another system, and screens without a size.
Poor ==
  [userAgents |-> <<Android, MacSafari>>, prior |-> <<>>,
   videoCard |-> (Android :> {Seen(Nvidia)}), screen |-> (MacSafari :> {Seen(Unsized)})]

\* One User-Agent, of which nothing is known but a vendor of its GPU.
Blank ==
  [Rich EXCEPT !.videoCard = (LinuxFirefox :> {Seen(NoRenderer)}), !.fonts = <<>>]

MCNetworks == {Rich, Poor, Blank}

MCBuiltIn ==
  [gpus |-> {Nvidia, Metal, Mesa},
   screens |-> {[width |-> 1920, height |-> 1080, availWidth |-> 1920, availHeight |-> 1040,
                 colorDepth |-> 24, dpr |-> 100],
                [width |-> 1512, height |-> 982, availWidth |-> 1512, availHeight |-> 949,
                 colorDepth |-> 30, dpr |-> 200]},
   cores |-> {8, 640}, memory |-> {0, 16}]

Request(browser, os, timezone) == [browser |-> browser, os |-> os, timezone |-> timezone]

MCRequests ==
  {Request(AnyOf, AnyOf, "Tokyo"), Request("chrome", "windows", "Tokyo"),
   Request("chrome", "android", "Shanghai"), Request("safari", AnyOf, "elsewhere"),
   Request("firefox", "linux", "Singapore"), Request("edge", AnyOf, "London"),
   Request("chrome", "macos", "Seoul"), Request("safari", "ios", "Tokyo")}
=============================================================================
