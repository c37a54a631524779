------------------------- MODULE MCSessionIdentity -------------------------
(* Fingerprints of two browsers, one of a release older than any handshake    *)
(* known; a session with and one without values of its own.                   *)
EXTENDS SessionIdentity

CONSTANT Custom

APrint(browser, version, os, languages, cores) ==
  [browser |-> browser, version |-> version, os |-> os, languages |-> languages,
   cores |-> cores]

MCPrints ==
  {APrint("chrome", 147, "windows", <<"zh-CN", "zh", "en">>, 8),
   APrint("chrome", 41, "android", <<"en-US">>, 4),
   APrint("safari", Unreadable, "macos", <<"en-GB", "en">>, 16)}

Nothing == [n \in Names |-> Absent]

Home == [origin |-> "a", path |-> "/x"]
Elsewhere == [origin |-> "b", path |-> "/y"]
MCPlaces == {Home, Elsewhere}

MCOptions ==
  {[location |-> Home, field |-> Nothing, extra |-> Nothing],
   [location |-> Home, field |-> [Nothing EXCEPT !["User-Agent"] = Custom, !["Referer"] = Elsewhere],
    extra |-> [Nothing EXCEPT !["X-Extra"] = Custom, !["Accept-Language"] = Custom]]}

MCAsks ==
  {[target |-> Home, manual |-> Nothing, reserved |-> Nothing],
   [target |-> Elsewhere, manual |-> [Nothing EXCEPT !["Sec-CH-UA"] = Custom],
    reserved |-> [Nothing EXCEPT !["User-Agent"] = Custom]]}
=============================================================================
