----------------------------- MODULE Fingerprint -----------------------------
(***************************************************************************)
(* How one fingerprint is generated (internal/fpengine): from the joint    *)
(* device profiles when a User-Agent of theirs satisfies the request, else *)
(* dimension by dimension from the flat lists; then assembled, and checked *)
(* for consistency before it is served.                                    *)
(*                                                                         *)
(* Strings and User-Agents are those of FingerprintNetwork; a pixel ratio  *)
(* is in hundredths.  A draw of the seeded generator is a choice among the *)
(* outcomes that have a chance.                                            *)
(***************************************************************************)
EXTENDS FingerprintNetwork

CONSTANTS
  Networks,     \* published networks
  BuiltIn,     \* the flat lists compiled in, used where a file has none
  Requests,     \* [browser, os, timezone]; AnyOf is no constraint
  MaxUAs,       \* limits on the User-Agents kept (0 is none)
  Offsets       \* bound: draws of the 0..19 pixels that a taskbar takes

ASSUME GenerationConstants == Offsets \subseteq 0..19 /\ MaxUAs \subseteq Nat

\* Lengths, depths and sizes are not negative, as browsers report them; a screen of the
\* built-in list has an available height if it has a height.
ASSUME PublishedNumbers ==
  /\ \A net \in Networks :
       /\ \A m \in PossibleValues(net, "screen"), key \in {"width", "height", "availWidth",
                "availHeight", "outerWidth", "outerHeight"} : key \in DOMAIN m => m[key] \in Nat
       /\ PossibleValues(net, "deviceMemory") \subseteq Nat
  /\ \A s \in BuiltIn.screens :
       s.height \in Nat /\ s.availHeight \in Nat /\ (s.availHeight = 0 => s.height = 0)
  /\ BuiltIn.memory \subseteq Nat

VARIABLES
  stage,      \* "published", "loaded", "device", "legacy", "built", "done"
  network, wanted,
  joint,      \* the store of device profiles: the User-Agents by index, if any
  flat,       \* the lists of the legacy sampler
  device,     \* the profile drawn
  fprint,     \* the fingerprint
  outcome     \* "none", "served", "refused", "unknown"

\* A request leaves the browser, the system or the timezone open.
AnyOf == ""

genVars == <<stage, network, wanted, joint, flat, device, fprint, outcome>>

-----------------------------------------------------------------------------
(* The built-in knowledge base. *)

BrowserMajors == 148..152      \* Chrome only

ChromeTemplate == {"chrome/", "safari"}

KnownOSes ==
  [windows |-> [platform |-> {"Win32"}, segment |-> {"windows"}, fonts |-> {"Segoe_UI"}],
   macos |-> [platform |-> {"MacIntel"}, segment |-> {"macintosh", "mac_os_x"}, fonts |-> {"SF_Pro"}],
   linux |-> [platform |-> {"Linux_x86_64"}, segment |-> {"linux"}, fonts |-> {"DejaVu_Sans"}],
   android |-> [platform |-> {"Linux_armv8l"}, segment |-> {"linux", "android"}, fonts |-> {"Roboto"}]]

\* A language is the sequence of its subtags.
KnownTimezones ==
  [Shanghai |-> <<<<"zh", "CN">>, <<"zh">>>>,
   Tokyo |-> <<<<"ja">>, <<"en">>>>,
   New_York |-> <<<<"en", "US">>, <<"en">>>>,
   London |-> <<<<"en", "GB">>, <<"en">>>>,
   Seoul |-> <<<<"ko", "KR">>, <<"ko">>, <<"en">>>>,
   Singapore |-> <<<<"en", "SG">>, <<"en">>, <<"zh", "SG">>, <<"zh">>>>]

WindowRatios ==
  [windows |-> {100, 125}, macos |-> {200}, linux |-> {100}]

-----------------------------------------------------------------------------
(* The joint profiles. *)

EngineBrowsers ==
  <<[words |-> {"edg/"}, class |-> "edge"], [words |-> {"firefox/"}, class |-> "firefox"],
    [words |-> {"chrome/"}, class |-> "chrome"],
    [words |-> {"version/", "safari"}, class |-> "safari"]>>

EngineSystems ==
  <<[words |-> {"android"}, class |-> "android"], [words |-> {"iphone"}, class |-> "ios"],
    [words |-> {"ipad"}, class |-> "ios"], [words |-> {"ipod"}, class |-> "ios"],
    [words |-> {"mac_os_x"}, class |-> "macos"], [words |-> {"macintosh"}, class |-> "macos"],
    [words |-> {"windows"}, class |-> "windows"], [words |-> {"cros"}, class |-> "chromeos"],
    [words |-> {"linux"}, class |-> "linux"]>>

uaBrowser(ua) == FirstMatch(EngineBrowsers, ua)
uaOS(ua) == FirstMatch(EngineSystems, ua)

supportedBrowser(b) == b \in {"chrome", "firefox", "safari"}
supportedOS(o) == o \in DOMAIN KnownOSes

AndroidGPUs == {"Mali", "Adreno", "PowerVR", "ImgTec", "OpenGL_ES", "Vulkan"}

\* No renderer of one system on another: the filter of the joint profiles.
GpuOnOS(os, g) ==
  LET r == g.renderer
      foreign == Has(r, "Direct3D11") \/ Has(r, "Metal") \/ Has(g.vendor, "Apple")
  IN CASE os = "macos" ->
            (Has(r, "Metal") \/ Has(r, "OpenGL") \/ Has(g.vendor, "Apple")) /\ ~Has(r, "Direct3D11")
       [] os = "windows" -> Has(r, "Direct3D11") /\ ~Has(r, "Metal") /\ ~Has(g.vendor, "Apple")
       [] os = "linux" -> ~foreign
       [] os = "android" -> r \cap AndroidGPUs # {} /\ ~foreign
       [] OTHER -> TRUE

\* Mutant: the User-Agent's renderers are kept as they are.
KeepAllGPUs(os, gpus) == gpus

filterDPGPUsByOS(os, gpus) == {g \in gpus : GpuOnOS(os, g.v)}

\* The distributions of the User-Agent with index i.  What it has no entry for is the empty
\* set.
StoreEntry(d, i) ==
  LET ua == d.userAgents[i] IN
  [ua |-> ua, prior |-> d.uaPriors[i], browser |-> uaBrowser(ua), os |-> uaOS(ua),
   gpus |-> filterDPGPUsByOS(uaOS(ua), d.videoCard[ua]), screens |-> d.screen[ua],
   cores |-> d.hardwareConcurrency[ua], memory |-> d.deviceMemory[ua],
   touch |-> d.maxTouchPoints[ua], platform |-> d.platform[ua], vendor |-> d.vendor[ua],
   fonts |-> {[v |-> d.fonts.pool[e.v + 1], p |-> e.p] : e \in d.fonts.cond[ua]}]

Usable(e) == supportedBrowser(e.browser) /\ supportedOS(e.os) /\ e.gpus # {}

\* buildStore: the User-Agents that can be sampled.  With none of them there is no store.
buildStore(d) ==
  [i \in {j \in DOMAIN d.userAgents : Usable(StoreEntry(d, j))} |-> StoreEntry(d, i)]

\* sampleWeightedIndex: what has a weight; anything when nothing has.
Outcomes(entries) ==
  LET weighty == {e \in entries : e.p > 0} IN IF weighty = {} THEN entries ELSE weighty

Draws(entries, none) == IF entries = {} THEN {none} ELSE {e.v : e \in Outcomes(entries)}

uaPref(browser, os) ==
  {i \in DOMAIN joint : browser \in {AnyOf, joint[i].browser} /\ os \in {AnyOf, joint[i].os}}

SampledUAs(browser, os) ==
  {e.v : e \in Outcomes({[v |-> i, p |-> joint[i].prior] : i \in uaPref(browser, os)})}

clampHWConc(v) == IF v < 1 THEN 1 ELSE IF v > 64 THEN 64 ELSE v
clampDevMem(v) == IF v < 1 THEN 4 ELSE v

NoGPU == [renderer |-> EmptyString, vendor |-> EmptyString]
NoScreen == [width |-> 0, height |-> 0, availWidth |-> 0, availHeight |-> 0, colorDepth |-> 0,
             pixelDepth |-> 0, dpr |-> 0, outerWidth |-> 0, outerHeight |-> 0]

\* A profile without platform, vendor, renderer and fonts is no profile.
Unresolved(d) ==
  d.platform = EmptyString /\ d.vendor = EmptyString /\ d.gpu.renderer = EmptyString
    /\ d.fonts = EmptyString

-----------------------------------------------------------------------------
(* The builders. *)

OrElse(n, default) == IF n = 0 THEN default ELSE n

buildDeviceScreen(d) ==
  LET w == OrElse(d.width, 1280)
      h == OrElse(d.height, 720)
  IN [width |-> w, height |-> h,
      availWidth |-> OrElse(d.availWidth, w), availHeight |-> OrElse(d.availHeight, h),
      colorDepth |-> OrElse(d.colorDepth, 24),
      pixelDepth |-> OrElse(d.pixelDepth, OrElse(d.colorDepth, 24))]

\* The page is what the browser's own rows leave of the window.
InnerHeight(outer) == IF outer - 100 < 200 THEN (outer * 9) \div 10 ELSE outer - 100

\* browserVersion: 0 for a User-Agent without the token of its browser.
VersionToken(browser) ==
  CASE browser = "firefox" -> "firefox/" [] browser = "safari" -> "version/" [] OTHER -> "chrome/"

browserVersion(ua, browser) == IF VersionToken(browser) \in ua.has THEN ua.major ELSE 0

\* The built-in entry of the system, with the platform and the fonts of the profile.
buildDeviceOSProfile(d) ==
  [platform |-> d.platform,
   fonts |-> IF d.fonts = EmptyString THEN KnownOSes[d.os].fonts ELSE d.fonts]

\* 0 is "not known" and what is too large is cut to what is available.
AtMost(n, available) == IF n = 0 \/ n > available THEN available ELSE n

buildDeviceWindow(d) ==
  LET s == buildDeviceScreen(d)
      ow == AtMost(d.outerWidth, s.availWidth)
      oh == AtMost(d.outerHeight, s.availHeight)
  IN [innerWidth |-> ow, innerHeight |-> InnerHeight(oh), outerWidth |-> ow, outerHeight |-> oh,
      dpr |-> IF d.dpr <= 0 THEN 100 ELSE d.dpr]

\* SampleWindowProps: the width is the screen's, the height what is available less the offset.
SampleWindowProps(s, offset, dpr) ==
  LET ah == OrElse(s.availHeight, s.height)
      oh == IF ah > 40 THEN ah - offset ELSE ah
  IN [innerWidth |-> s.width, innerHeight |-> InnerHeight(oh),
      outerWidth |-> s.width, outerHeight |-> oh, dpr |-> dpr]

\* adjustmentsForBrowser on the navigator of a desktop Chrome.
Adjusted(nav, browser, os) ==
  CASE browser = "firefox" ->
         [nav EXCEPT !.vendor = EmptyString, !.productSub = "20100101", !.hints = "none"]
    [] browser = "safari" -> [nav EXCEPT !.vendor = {"Apple"}, !.hints = "none"]
    [] browser \notin {"firefox", "safari"} /\ os = "android" ->
         [nav EXCEPT !.hints = "mobile", !.touch = 5]
    [] OTHER -> nav

buildNavigator(ua, browser, os, platform, languages, cores, memory, touch) ==
  Adjusted([ua |-> ua, platform |-> platform, vendor |-> {"Google"}, productSub |-> "20030107",
            language |-> IF languages = <<>> THEN <<"en">> ELSE languages[1],
            cores |-> IF cores \in 1..64 THEN cores ELSE 8,
            memory |-> memory, touch |-> touch, hints |-> "desktop"], browser, os)

gpuRenderDurationMS(renderer) ==
  CASE renderer \cap {"NVIDIA", "Radeon", "AMD"} # {} -> 2
    [] renderer \cap {"NVIDIA", "Radeon", "AMD"} = {} /\ Has(renderer, "Intel") -> 3
    [] renderer \cap {"NVIDIA", "Radeon", "AMD", "Intel"} = {} /\ Has(renderer, "Apple") -> 2
    [] OTHER -> 4

\* The GL constants that do not depend on the GPU are left out.
buildWebGL(gpu) ==
  LET renderer == IF gpu.renderer = EmptyString THEN {"Intel", "Direct3D11"} ELSE gpu.renderer
  IN [vendor |-> IF gpu.vendor = EmptyString THEN {"Google", "Intel"} ELSE gpu.vendor,
      renderer |-> renderer, renderMS |-> gpuRenderDurationMS(renderer)]

\* canvasHashKey: one picture per version, system and coarse class of GPU.
canvasHashKey(major, os, vendor) ==
  <<major, os,
    CASE Has(vendor, "Intel") -> "intel"
      [] ~Has(vendor, "Intel") /\ Has(vendor, "AMD") -> "amd"
      [] ~Has(vendor, "Intel") /\ ~Has(vendor, "AMD") /\ Has(vendor, "Apple") -> "apple"
      [] OTHER -> "nvidia">>

\* The zone asked for when it is known, else any.
Zones(timezone) ==
  IF timezone \in DOMAIN KnownTimezones THEN {timezone} ELSE DOMAIN KnownTimezones

ExpectedLanguages ==
  [Shanghai |-> {<<"zh">>}, Tokyo |-> {<<"ja">>}, Seoul |-> {<<"ko">>},
   Singapore |-> {<<"en">>, <<"zh", "CN">>, <<"zh">>}, New_York |-> {<<"en">>}, London |-> {<<"en">>}]

tzLanguageConsistent(zone, language) ==
  zone \in DOMAIN ExpectedLanguages => \E e \in ExpectedLanguages[zone] : IsPrefix(e, language)

\* ValidateConsistency, without the checks of what the builders never leave empty.
ValidateConsistency(f) ==
  /\ f.nav.ua.has # EmptyString
  /\ f.nav.platform = f.platform
  /\ tzLanguageConsistent(f.timezone, f.nav.language)
  /\ f.nav.cores \in 1..64
  /\ (f.screen.height > 0 /\ f.screen.availHeight > 0) => f.screen.availHeight <= f.screen.height
  /\ (f.window.outerHeight > 0 /\ f.screen.availHeight > 0)
       => f.window.outerHeight <= f.screen.availHeight
  /\ (f.window.innerHeight > 0 /\ f.window.outerHeight > 0)
       => f.window.innerHeight <= f.window.outerHeight

-----------------------------------------------------------------------------
Nothing == [origin |-> "none"]

GenerateInit ==
  /\ stage = "published" /\ outcome = "none"
  /\ network \in Networks /\ wanted \in Requests
  /\ joint = <<>> /\ flat = BuiltIn /\ device = Nothing /\ fprint = Nothing

\* An update wrote both files and they were loaded.  A list that is empty in the file is
\* taken from the data compiled in, and so is all of it when the file has no GPU.
LoadData ==
  /\ stage = "published"
  /\ \E maxUAs \in MaxUAs : joint' = buildStore(DeviceProfileData(network, maxUAs))
  /\ flat' = LET r == RealData(network) IN
             IF r.gpus = {} THEN BuiltIn
             ELSE [k \in DOMAIN r |-> IF r[k] = {} THEN BuiltIn[k] ELSE r[k]]
  /\ stage' = "loaded"
  /\ UNCHANGED <<network, wanted, device, fprint, outcome>>

\* There are no files: the data compiled in, and no device profiles.
LoadNothing ==
  /\ stage = "published"
  /\ stage' = "loaded"
  /\ UNCHANGED <<network, wanted, joint, flat, device, fprint, outcome>>

\* sampleDeviceProfile: a User-Agent, then every dimension under it.
SampleDevice ==
  /\ stage = "loaded"
  /\ \E i \in SampledUAs(wanted.browser, wanted.os) :
     LET e == joint[i] IN
     \E platform \in Draws(e.platform, EmptyString), vendor \in Draws(e.vendor, EmptyString),
        memory \in Draws(e.memory, 0), touch \in Draws(e.touch, 0), cores \in Draws(e.cores, 0),
        gpu \in Draws(e.gpus, NoGPU), screen \in Draws(e.screens, NoScreen),
        fonts \in Draws(e.fonts, EmptyString) :
       LET d == [origin |-> "joint", ua |-> e.ua, browser |-> e.browser, os |-> e.os,
                 platform |-> platform, vendor |-> vendor, gpu |-> gpu, screen |-> screen,
                 fonts |-> fonts, touch |-> touch,
                 cores |-> clampHWConc(cores), memory |-> clampDevMem(memory)]
       IN IF Unresolved(d) THEN stage' = "legacy" /\ UNCHANGED device
          ELSE stage' = "device" /\ device' = d
  /\ UNCHANGED <<network, wanted, joint, flat, fprint, outcome>>

\* No store, or no User-Agent in it that satisfies the request.
NoDevice ==
  /\ stage = "loaded" /\ uaPref(wanted.browser, wanted.os) = {}
  /\ stage' = "legacy"
  /\ UNCHANGED <<network, wanted, joint, flat, device, fprint, outcome>>

\* buildFromDeviceProfile.  The GPU's vendor is the profile's navigator.vendor: the outer
\* field hides the one of the embedded GPU.
BuildFromDevice ==
  /\ stage = "device"
  /\ \E zone \in Zones(wanted.timezone) :
     LET gpu == [renderer |-> device.gpu.renderer, vendor |-> device.vendor]
         osp == buildDeviceOSProfile(device)
         major == browserVersion(device.ua, device.browser)
     IN fprint' =
       [origin |-> "joint", browser |-> device.browser, major |-> major,
        os |-> device.os, platform |-> osp.platform, gpu |-> gpu, fonts |-> osp.fonts,
        timezone |-> zone, screen |-> buildDeviceScreen(device.screen),
        window |-> buildDeviceWindow(device.screen),
        nav |-> buildNavigator(device.ua, device.browser, device.os, osp.platform,
                  KnownTimezones[zone], device.cores, device.memory, device.touch),
        webgl |-> buildWebGL(gpu),
        canvas |-> canvasHashKey(major, device.os, gpu.vendor)]
  /\ stage' = "built"
  /\ UNCHANGED <<network, wanted, joint, flat, device, outcome>>

\* SampleOS: a system that is not known is an error, never another system.
UnknownOS ==
  /\ stage = "legacy" /\ wanted.os # AnyOf /\ ~supportedOS(wanted.os)
  /\ stage' = "done" /\ outcome' = "unknown"
  /\ UNCHANGED <<network, wanted, joint, flat, device, fprint>>

\* filterGPUsByOS and filterScreensByOS: when nothing is left, everything is.
OrAll(filtered, all) == IF filtered = {} THEN all ELSE filtered

FlatGpuOnOS(os, g) ==
  IF os = "macos" THEN Has(g.renderer, "Metal") \/ Has(g.vendor, "Apple") ELSE GpuOnOS(os, g)

SampleGPU(os) == OrAll({g \in flat.gpus : FlatGpuOnOS(os, g)}, flat.gpus)

ScreenOnOS(os, s) ==
  CASE os = "macos" -> s.colorDepth = 30 \/ s.dpr = 200
    [] os \in {"windows", "linux"} -> s.colorDepth \in {24, 32}
    [] OTHER -> TRUE

SampleScreen(os) == OrAll({s \in flat.screens : ScreenOnOS(os, s)}, flat.screens)

\* The legacy sampler knows Chrome only, whatever browser is asked for.
BuildLegacy ==
  /\ stage = "legacy" /\ (wanted.os = AnyOf \/ supportedOS(wanted.os))
  /\ \E major \in BrowserMajors, zone \in Zones(wanted.timezone), offset \in Offsets,
        os \in {o \in DOMAIN KnownOSes : wanted.os \in {AnyOf, o}} :
     \E gpu \in SampleGPU(os), drawn \in SampleScreen(os), cores \in flat.cores,
        memory \in flat.memory,
        dpr \in IF os \in DOMAIN WindowRatios THEN WindowRatios[os] ELSE {100} :
       LET entry == KnownOSes[os]
           screen == [width |-> drawn.width, height |-> drawn.height,
                      availWidth |-> drawn.availWidth, availHeight |-> drawn.availHeight,
                      colorDepth |-> drawn.colorDepth, pixelDepth |-> drawn.colorDepth]
           ua == [has |-> ChromeTemplate \cup entry.segment, major |-> major]
       IN fprint' =
         [origin |-> "legacy", browser |-> "chrome", major |-> major, os |-> os,
          platform |-> entry.platform, gpu |-> gpu, fonts |-> entry.fonts, timezone |-> zone,
          screen |-> screen, window |-> SampleWindowProps(screen, offset, dpr),
          nav |-> buildNavigator(ua, "chrome", os, entry.platform, KnownTimezones[zone], cores,
                    IF memory < 1 THEN 8 ELSE memory, 0),
          webgl |-> buildWebGL(gpu), canvas |-> canvasHashKey(major, os, gpu.vendor)]
  /\ stage' = "built"
  /\ UNCHANGED <<network, wanted, joint, flat, device, outcome>>

\* A fingerprint that is not consistent is an error of the generation: nothing is drawn again.
Validate ==
  /\ stage = "built"
  /\ stage' = "done"
  /\ outcome' = IF ValidateConsistency(fprint) THEN "served" ELSE "refused"
  /\ UNCHANGED <<network, wanted, joint, flat, device, fprint>>

GenerateNext ==
  \/ LoadData \/ LoadNothing \/ SampleDevice \/ NoDevice \/ BuildFromDevice
  \/ UnknownOS \/ BuildLegacy \/ Validate

GenerateSpec == GenerateInit /\ [][GenerateNext]_genVars

-----------------------------------------------------------------------------
ForeignRenderers ==
  [windows |-> {"Metal"}, macos |-> {"Direct3D11"},
   linux |-> {"Direct3D11", "Metal"}, android |-> {"Direct3D11", "Metal"}]

\* The WebGL renderer is not one of another system, unless the published network leaves it
\* open (buildWebGL has one for every system) or the flat list has no GPU of that system; for
\* macOS the flat list is only asked for Metal or Apple.
RendererFits(f) ==
  \/ f.webgl.renderer \cap ForeignRenderers[f.os] = {}
  \/ f.gpu.renderer = EmptyString
  \/ /\ f.origin = "legacy"
     /\ \/ \A g \in flat.gpus : ~FlatGpuOnOS(f.os, g)
        \/ f.os = "macos" /\ FlatGpuOnOS("macos", f.gpu)

\* What the code keeps between the parts of a fingerprint.  The canvas is of the vendor that
\* WebGL names, when the data name one; neither need be of the renderer's vendor, since the
\* joint profiles put navigator.vendor there.
OneDevice(f) ==
  LET w == f.window s == f.screen IN
  /\ uaBrowser(f.nav.ua) = f.browser /\ uaOS(f.nav.ua) = f.os
  /\ f.nav.hints = (IF f.browser # "chrome" THEN "none"
                    ELSE IF f.os = "android" THEN "mobile" ELSE "desktop")
  /\ (f.browser = "chrome" /\ f.os = "android") => f.nav.touch > 0
  /\ f.nav.memory >= 1
  /\ w.innerHeight <= w.outerHeight /\ w.outerHeight <= s.availHeight
  /\ s.availHeight <= s.height \/ s.height = 0
  /\ RendererFits(f)
  /\ f.gpu.vendor # EmptyString => f.canvas = canvasHashKey(f.major, f.os, f.webgl.vendor)
  /\ f.origin = "joint" => w.outerWidth <= s.availWidth /\ w.outerHeight > 0

\* A fingerprint that is served is put together as OneDevice says and of the system asked
\* for (from the joint profiles also of the browser), and one is refused only when the
\* screen drawn claims more available height than it has, or when the system is not known.
FingerprintsHoldTogether ==
  /\ outcome = "served" =>
       /\ OneDevice(fprint)
       /\ wanted.os \in {AnyOf, fprint.os}
       /\ fprint.origin = "joint" => wanted.browser \in {AnyOf, fprint.browser}
  /\ outcome = "refused" => fprint.screen.availHeight > fprint.screen.height
  /\ outcome = "unknown" => uaPref(wanted.browser, wanted.os) = {}
=============================================================================
