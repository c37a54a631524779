-------------------------- MODULE SessionIdentity --------------------------
(***************************************************************************)
(* Who a session says it is, and to whom (internal/sandbox/engine.go,      *)
(* browser_env.go, worker.go).  A session is created with a fingerprint,   *)
(* which goes into the globals of its page, into the closures that build   *)
(* the headers of its requests, into its workers, and, as a TLS target,    *)
(* into its network handler.  SwapFingerprint replaces the session's       *)
(* fingerprint and overwrites globals of the page while requests of the    *)
(* page are under way.                                                     *)
(*                                                                         *)
(* A User-Agent is the browser, version and system that it names: the      *)
(* consistency of a fingerprint with itself is the part of module          *)
(* Fingerprint.  Cookies and redirects are SessionNetwork's.               *)
(***************************************************************************)
EXTENDS ChromeHello

CONSTANTS
  Prints,       \* [browser, version, os, languages, cores]
  Options,      \* of sessions: [location, field, extra], see below
  Asks,         \* of scripts: [target, manual, reserved]
  Places,       \* locations and targets: [origin, path]
  Calls,        \* calls of fetch and XMLHttpRequest
  Journeys,     \* top-level navigations
  HopBound,     \* bound: redirects that a navigation follows
  SwapBound,    \* bound: calls of SwapFingerprint
  WorkerNames,
  Absent

ASSUME IdentityConstants ==
  /\ HopBound \in Nat /\ SwapBound \in Nat
  /\ Prints # {} /\ Absent \notin Prints      \* the tables of the generator are not empty
  /\ \A p \in Prints : p.cores \in 1..64 /\ p.version \in Nat \cup Texts

VARIABLES
  sprint,     \* s.fp; Absent before the session exists
  captured,   \* the fingerprint that the closures of the page hold
  options, client,    \* the SessionOptions and the profile of the TLS client
  page,       \* the fingerprint that each surface of the page shows
  workerNav,  \* navigator of the workers
  call,       \* of a call or a navigation: what is asked, or "idle", "over"
  sent,       \* what servers have seen
  swaps

identityVars == <<sprint, captured, options, client, page, workerNav, call, sent, swaps>>

Names == {"User-Agent", "Accept-Language", "Sec-CH-UA", "Sec-CH-UA-Mobile",
          "Sec-CH-UA-Platform", "Referer", "Origin", "X-Extra"}
Hints == {"Sec-CH-UA", "Sec-CH-UA-Mobile", "Sec-CH-UA-Platform"}

\* What a page shows of a fingerprint, by the function that puts it there: the templates of
\* its globals, the closures of its drawing contexts, window.__besFp, and the scripts of
\* injectComplexNavigator and injectTimezone.
FromTemplates == {"navigator", "screen", "window"}
FromContexts == {"webgl", "measureText"}
FromGlobals == {"canvas", "webgpu"}
FromNavigatorScript == {"languages", "userAgentData", "connection"}
FromTimezoneScript == {"intl", "date"}
Surfaces ==
  UNION {FromTemplates, FromContexts, FromGlobals, FromNavigatorScript, FromTimezoneScript}

\* What the script of a swap overwrites of them, in its order.
Overwritten == <<"navigator", "screen", "window", "languages", "userAgentData", "canvas", "intl">>

-----------------------------------------------------------------------------
(* What is derived from a fingerprint. *)

UserAgent(p) == [browser |-> p.browser, version |-> p.version, os |-> p.os]

\* "zh-CN,zh;q=0.9": weights in tenths, the first language without one.
AcceptLanguage(langs) ==
  IF langs = <<>> THEN Absent
  ELSE [i \in DOMAIN langs |-> <<langs[i], IF i = 1 THEN 10 ELSE 11 - i>>]

\* A fingerprint always names languages, as ValidateConsistency demands and the tables of
\* the generator provide.
ASSUME EveryPrintSpeaks == \A p \in Prints : AcceptLanguage(p.languages) # Absent

HintPlatform(os) == IF os \in {"windows", "macos", "linux", "android"} THEN os ELSE "windows"

\* Client hints are Chrome's only.
Hint(p) ==
  IF p.browser # "chrome" THEN [n \in Hints |-> Absent]
  ELSE [n \in Hints |->
         CASE n = "Sec-CH-UA" -> <<p.version>>
           [] n = "Sec-CH-UA-Mobile" -> <<p.os = "android">>
           [] n = "Sec-CH-UA-Platform" -> <<HintPlatform(p.os)>>]

\* injectWorkerEnv, from userAgent and hardwareConcurrency of the builder.
WorkerNavigator(p) ==
  [userAgent |-> UserAgent(p), cores |-> IF p.cores \in 1..64 THEN p.cores ELSE 8]

-----------------------------------------------------------------------------
(* The headers of requests.  Headers are functions from names to values, Absent where
   there is none; the first candidate that is set is taken. *)

FirstSet(candidates) ==
  LET given == {i \in DOMAIN candidates : candidates[i] # Absent}
  IN  IF given = {} THEN Absent ELSE candidates[Min(given)]

\* strict-origin-when-cross-origin, from the location that the closures hold.
DefaultReferer(target) ==
  IF options.location.origin = target.origin THEN options.location
  ELSE [options.location EXCEPT !.path = "/"]

\* What the fingerprint has to say under a name.
FromPrint(p, n) ==
  CASE n = "User-Agent" -> UserAgent(p)
    [] n = "Accept-Language" -> AcceptLanguage(p.languages)
    [] n \in Hints -> Hint(p)[n]
    [] OTHER -> Absent

\* "manually set (real) headers > request-level _bes_* override > session-level field >
\* derivation"; the session's extra headers fill what is left.
SubresourceHeaders(p, ask) ==
  [n \in Names |->
     FirstSet(<<ask.manual[n], ask.reserved[n], options.field[n],
                IF n = "Referer" THEN DefaultReferer(ask.target) ELSE FromPrint(p, n),
                options.extra[n]>>)]

\* navHeaderFactory, and the Referer of FollowRedirects: the session's own Referer and
\* Origin are not looked at, and each hop names the location of the session.
NavigationHeaders(p, target) ==
  [n \in Names |->
     FirstSet(<<IF n = "User-Agent" THEN options.field[n] ELSE Absent, FromPrint(p, n),
                options.extra[n],
                IF n = "Referer" /\ options.location # target THEN options.location
                ELSE Absent>>)]

\* orderHeadersChrome and fetchHTTP1 put a language of their own where there is none.
DefaultLanguage == <<<<"zh-CN", 10>>, <<"zh", 9>>>>

OnTheWire(headers) ==
  [headers EXCEPT !["Accept-Language"] = IF @ = Absent THEN DefaultLanguage ELSE @]

-----------------------------------------------------------------------------
IdentityInit ==
  /\ sprint = Absent /\ captured = Absent /\ client = Absent /\ options \in Options
  /\ page = [s \in Surfaces |-> Absent]
  /\ workerNav = [w \in WorkerNames |-> Absent]
  /\ call = [c \in Calls \cup Journeys |-> Absent]
  /\ sent = {} /\ swaps = 0

Live == sprint # Absent

(* CreateSession: the page is built, and the factory of the server makes the handler. *)
CreateWith(p) ==
  /\ ~Live
  /\ sprint' = p /\ captured' = p
  /\ client' = ClientProfile(TLSTarget(p.version))
  /\ page' = [s \in Surfaces |-> p]
  /\ UNCHANGED <<options, workerNav, call, sent, swaps>>

(* SwapFingerprint: s.fp is the new fingerprint at once; the script overwrites the
   surfaces one by one, and ends before its last one when it throws or is terminated
   ("fingerprint swap injection failed").  A generation that fails changes nothing. *)
Overwrite(p, done) ==
  page' = [s \in Surfaces |->
             IF \E i \in 1..done : Overwritten[i] = s THEN p ELSE page[s]]

\* Mutant of SwapFingerprint: the handler is given a client for the new fingerprint.
SwapClientToo(p, done) ==
  /\ Live /\ swaps < SwapBound
  /\ swaps' = swaps + 1
  /\ sprint' = p
  /\ client' = ClientProfile(TLSTarget(p.version))
  /\ Overwrite(p, done)
  /\ UNCHANGED <<captured, options, workerNav, call, sent>>

SwapFingerprint(p, done) ==
  /\ Live /\ swaps < SwapBound
  /\ swaps' = swaps + 1
  /\ sprint' = p
  /\ Overwrite(p, done)
  /\ UNCHANGED <<captured, options, client, workerNav, call, sent>>

(* new Worker(source) *)
CreateWorker(w) ==
  /\ Live /\ workerNav[w] = Absent
  /\ workerNav' = [workerNav EXCEPT ![w] = WorkerNavigator(captured)]
  /\ UNCHANGED <<sprint, captured, options, client, page, call, sent, swaps>>

Seen(ask, headers) ==
  sent' = sent \cup {[ask |-> ask, headers |-> OnTheWire(headers),
                      handshake |-> Handshake(client)]}

(* A synchronous XMLHttpRequest: __besNetRequest sends it before it returns. *)
SendNow(c, ask) ==
  /\ Live /\ c \in Calls /\ call[c] = Absent
  /\ call' = [call EXCEPT ![c] = [over |-> TRUE]]
  /\ Seen(ask, SubresourceHeaders(captured, ask))
  /\ UNCHANGED <<sprint, captured, options, client, page, workerNav, swaps>>

(* fetch and asynchronous XMLHttpRequest: the arguments are read, a goroutine starts ... *)
SendLater(c, ask) ==
  /\ Live /\ c \in Calls /\ call[c] = Absent
  /\ call' = [call EXCEPT ![c] = [over |-> FALSE, ask |-> ask]]
  /\ UNCHANGED <<sprint, captured, options, client, page, workerNav, sent, swaps>>

(* ... which derives the headers and sends the request. *)
Goroutine(c) ==
  /\ c \in Calls /\ call[c] # Absent /\ ~call[c].over
  /\ Seen(call[c].ask, SubresourceHeaders(captured, call[c].ask))
  /\ call' = [call EXCEPT ![c] = [over |-> TRUE]]
  /\ UNCHANGED <<sprint, captured, options, client, page, workerNav, swaps>>

(* A navigation, and a hop of it: it ends, or a redirect leads to the next one. *)
NoAsk(target) ==
  [target |-> target, manual |-> [n \in Names |-> Absent],
   reserved |-> [n \in Names |-> Absent]]

Depart(j, target) ==
  /\ Live /\ call[j] = Absent
  /\ call' = [call EXCEPT ![j] = [over |-> FALSE, ask |-> NoAsk(target), hop |-> 0]]
  /\ UNCHANGED <<sprint, captured, options, client, page, workerNav, sent, swaps>>

Hop(j) ==
  /\ call[j] # Absent /\ ~call[j].over
  /\ Seen(call[j].ask, NavigationHeaders(captured, call[j].ask.target))
  /\ \/ call' = [call EXCEPT ![j] = [over |-> TRUE]]
     \/ \E next \in Places :
          /\ call[j].hop < HopBound
          /\ call' = [call EXCEPT ![j].ask = NoAsk(next), ![j].hop = @ + 1]
  /\ UNCHANGED <<sprint, captured, options, client, page, workerNav, swaps>>

IdentityNext ==
  \/ \E p \in Prints : CreateWith(p)
  \/ \E p \in Prints, done \in 0..Len(Overwritten) : SwapFingerprint(p, done)
  \/ \E w \in WorkerNames : CreateWorker(w)
  \/ \E c \in Calls, ask \in Asks : SendNow(c, ask) \/ SendLater(c, ask)
  \/ \E c \in Calls : Goroutine(c)
  \/ \E j \in Journeys : (\E target \in Places : Depart(j, target)) \/ Hop(j)

IdentitySpec == IdentityInit /\ [][IdentityNext]_identityVars

-----------------------------------------------------------------------------
\* Request x has no value of its own under name n, nor has the session.
Derived(x, n) ==
  /\ x.ask.manual[n] = Absent /\ x.ask.reserved[n] = Absent
  /\ options.field[n] = Absent /\ options.extra[n] = Absent

\* A visitor with fingerprint p could have sent x.  Only Chrome's handshake is known.
Explains(p, x) ==
  /\ \A n \in Hints \cup {"User-Agent", "Accept-Language"} :
       Derived(x, n) => x.headers[n] = FromPrint(p, n)
  /\ p.browser = "chrome" /\ p.version > 0 => x.handshake = HandshakeOf(p.version)

(* "the TLS ClientHello (JA3/JA4), the HTTP/2 frame fingerprint, and the User-Agent must
   all resolve to the SAME Chrome version", and the client hints and languages with them,
   "so header and navigator.languages stay consistent": whatever single requests override,
   one visitor sends all that servers see of a session and runs all of its workers, and
   until a swap it is the visitor that every surface of the page shows.  A swap changes
   what the page shows and nothing that a server or a worker is told. *)
OneVisitor ==
  \E p \in Prints :
    /\ \A x \in sent : Explains(p, x)
    /\ \A w \in WorkerNames :
         workerNav[w] # Absent =>
           workerNav[w] = [userAgent |-> UserAgent(p), cores |-> p.cores]
    /\ Live /\ swaps = 0 => \A s \in Surfaces : page[s] = p

(* A new worker reports the User-Agent that the page reports: "worker injection uses it so
   worker-side navigator.userAgent matches the parent session". *)
WorkersMatchSession ==
  [][\A w \in WorkerNames : workerNav[w] # workerNav'[w] =>
       workerNav'[w].userAgent = UserAgent(page["navigator"])]_identityVars
=============================================================================
