---------------------------- MODULE MCDecisions ----------------------------
(***************************************************************************)
(* Small instances of the decisions about one request, each asked all the  *)
(* questions of a set: the identity behind a chain of proxies, the         *)
(* addresses of a route and a WebSocket, the other checks of a route, the  *)
(* dispatch of a request and its response, and the match of an address     *)
(* against the ranges of the clouds; the scan for threats, the values of a *)
(* body, what the bounds of the scan leave of a text, the views of a value *)
(* and their patterns, the pickle scanner, and the timing of a custom      *)
(* pattern; which paths are excluded, what becomes of a configuration when *)
(* it is validated, and the fetch of Azure's ranges.  A behaviour is one   *)
(* of any one of them.                                                     *)
(***************************************************************************)
EXTENDS ClientIdentity, AccessDecision, RouteGuards, Dispatch, CloudMatch, ThreatScan, TLC

VARIABLES
    component,                                              \* the one that runs
    question, verdict, todo,                                \* what most of them use
    site, excludePaths, source, prefixes, emittedPaths, hour, announced, early,
    lastAnswer                                              \* PathExclusion

decisionVars == <<question, verdict, todo>>
pathVars ==
    <<site, excludePaths, source, prefixes, emittedPaths, hour, announced, early, lastAnswer>>

----------------------------------------------------------------------------
\* Bodies: JSON with duplicate, excluded and operator keys, some of them below
\* the depth cap; forms with JSON in a field; all multiparts of four lines of
\* seven kinds after the first boundary, and some with an inner multipart.
Scalar(a)   == [kind |-> "scalar", atom |-> a, inner |-> Unset]
Json(a, v)  == [kind |-> "scalar", atom |-> a, inner |-> v]
Object(seq) == [kind |-> "object", pairs |-> seq]
Array(seq)  == [kind |-> "array", items |-> seq]
Key(k, v)   == [key |-> k, value |-> v]
Named(n, v) == [name |-> n, value |-> v]
Nested  == Object(<<Key("s", Scalar("1")), Key("pw", Scalar("2")), Key("s", Scalar("3"))>>)
Layered == Object(<<Key("o", Object(<<Key("$ne", Scalar("4")), Key("p", Array(<<Nested>>))>>)),
                    Key("t", Json("5", Object(<<Key("u", Scalar("6"))>>)))>>)
Jsons   == {Nested, Layered, Array(<<Object(<<Key("v", Nested)>>), Scalar("7")>>)}
Marked(kind, b) == [kind |-> kind, boundary |-> b, text |-> Scalar("--"), size |-> 1]
LineWith(kind, a, n) == [kind |-> kind, text |-> Scalar(a), size |-> n]
Header(name, field, file, inner, a) ==
    [kind |-> "header", name |-> name, field |-> field, file |-> file, inner |-> inner,
     text |-> Scalar(a), size |-> 2]
LineOf(kind, i) ==
    CASE kind \in {"delim", "final"} -> Marked(kind, "b")
      [] kind = "header" -> Header("disposition", "f", "n", "", "h" \o ToString(i))
      [] OTHER -> LineWith(kind, kind \o ToString(i), 2)
Lines == {<<Marked("delim", "b")>> \o [i \in 1..4 |-> LineOf(k[i], i)] :
            k \in [1..4 -> {"delim", "final", "blank", "header", "fold", "text", "binary"}]}
Multiparts ==
    LET Blank == LineWith("blank", "", 0)
    IN Lines \cup
       {<<LineWith("text", "w", 1), Marked("delim", "b"), Header("type", "", "", "c", "x"), Blank,
          LineWith("text", "y", 2), Marked("delim", "c"), Header("disposition", d, "", "", "z"),
          Blank, LineWith("text", "v", 1), Marked(k, "c"), Blank, LineWith("text", "l", 1),
          Marked("final", "b")>> : d \in {"f", "pw"}, k \in {"delim", "final"}}
       \cup {<<Marked("delim", "b"), Header("disposition", "f", "n", "", "h"),
               [Header("other", "", "", "", "z") EXCEPT !.text = Json("z", Nested)],
               LineOf(kind, 1), Blank, [LineWith("text", "y", 4) EXCEPT !.text = Json("y", Layered)],
               LineWith("binary", "x", 2), LineWith("text", "l", size)>> :
                 kind \in {"fold", "header"}, size \in 1..2}
V == INSTANCE BodyValues WITH
       Bodies <- [type: {"json"}, root: Jsons]
                 \cup {[type |-> "form", pairs |-> <<Named(n, Json("8", v)), Named("n", Scalar("9"))>>] :
                          n \in {"m", "pw"}, v \in Jsons}
                 \cup [type: {"multipart"}, lines: Multiparts, boundary: {"b"}]
                 \cup [type: {"other"}, atoms: {{"o"}}],
       Excluded <- {"pw"}, Operators <- {"$ne"}, DepthCap <- 3, MinRun <- 2,
       NoValue <- Unset, body <- question, values <- verdict

\* TimedTexts of nine characters with two indicators; windows over three characters
\* for all sets of matches; all densities of five characters.
Indicated == {<<>>, <<<<1, 2>>>>, <<<<6, 7>>>>, <<<<1, 2>>, <<6, 7>>>>, <<<<3, 4>>, <<8, 9>>>>}
Single(n) == {S \in SUBSET {m \in (0..n-1) \X (0..n) : m[1] <= m[2]} :
                \A a, b \in S : a[1] = b[1] => a = b}
C == INSTANCE ContentBounds WITH
       Questions <-
         [ask: {"truncate"}, n: {9}, max: 0..9, maxLength: {1, 2, 4, 6},
          preserve: BOOLEAN, hits: Indicated \X Indicated]
         \cup
         [ask: {"window"}, n: {3}, matches: Single(3), prefixes: Single(3),
          terminators: {{}, {<<0, 1>>}, {<<1, 2>>}, {<<0, 1>>, <<2, 3>>},
                        {<<0, 2>>, <<1, 3>>}, {<<0, 0>>, <<1, 2>>}}]
         \cup
         [ask: {"dense"}, n: {5}, artifacts: SUBSET (0..4),
          match: {m \in (0..4) \X (1..5) : m[1] < m[2]}],
       Margin <- 1, Unit <- 2, RegionCap <- 2, TailLength <- 2, Radius <- 1, Limit <- 2,
       Unanswered <- Unset

\* A pattern of every set; matches that are dropped before one that counts, and
\* the same text in two views; layers below and above what is decoded.
Pattern(set, contexts, weight, validated, optional, noisy, windowed) ==
    [set |-> set, contexts |-> contexts, weight |-> weight, validated |-> validated,
     optionalSeparator |-> optional, noisy |-> noisy, windowed |-> windowed]
PatternTable ==
    "shell" :> Pattern("both", {"query_param"}, 10, TRUE, FALSE, TRUE, TRUE)
    @@ "recon" :> Pattern("recon", {"url_path", "query_param"}, 5, FALSE, TRUE, FALSE, FALSE)
    @@ "crlf" :> Pattern("decoded", {"header"}, 10, FALSE, FALSE, FALSE, FALSE)
    @@ "bytes" :> Pattern("raw", {"query_param"}, 5, FALSE, FALSE, FALSE, FALSE)
Matching(text, ok, separated, dense) ==
    [text |-> text, accepted |-> ok, separated |-> separated, dense |-> dense]
OneMatch == {<<>>, <<Matching("x", TRUE, TRUE, FALSE)>>}
Seen == OneMatch \cup {<<Matching("x", FALSE, FALSE, FALSE), Matching("y", TRUE, TRUE, FALSE)>>,
                       <<Matching("x", TRUE, TRUE, TRUE), Matching("y", TRUE, FALSE, FALSE)>>}
Of(s, r, c, b) == "shell" :> s @@ "recon" :> r @@ "crlf" :> c @@ "bytes" :> b
W == INSTANCE PatternViews WITH
       Values <- [context: {"query_param", "header", "request_body"},
                  matches: {"main" :> Of(s, r, <<>>, <<>>) @@ "raw" :> Of(s, r2, <<>>, b)
                            @@ "url" :> Of(<<>>, <<>>, c, <<>>) @@ "short" :> Of(s, <<>>, <<>>, <<>>) :
                              s \in Seen, r \in Seen, r2 \in OneMatch, c \in OneMatch, b \in OneMatch},
                  slow: {{}, {<<"main", "recon">>, <<"raw", "recon">>, <<"main", "shell">>}},
                  shapes: {[main |-> 1, raw |-> 1], [main |-> 2, raw |-> 1]},
                  layers: {0, 2, 3}, short: BOOLEAN, binary: {FALSE},
                  semantic: {[score |-> 0, attacks |-> {}], [score |-> 8, attacks |-> {3}]}],
       Table <- <<"shell", "recon", "crlf", "bytes">>, PatternOf <- PatternTable,
       MaxIterations <- 2, SemanticThreshold <- 7,
       value <- question, views <- todo, threats <- verdict

\* All short pickles of sixteen bytes before and after a global, and longer
\* ones of those that move the stack, against a window of three.
Bytes == {"(", "N", "t", "e", "a", "S", "U", "c", "K", "p", "R", ".", "newline", "one",
          "wide", "protocol"}
UpTo(n) == UNION {[1..k -> Bytes] : k \in 0..n}
K == INSTANCE PickleScan WITH
       Candidates <-
         [before: {<<>>, <<"one", "N">>, <<"N", "newline">>}, after: UpTo(3)]
         \cup [before: UpTo(2), after: {<<>>, <<"R">>, <<"N", ".", "N", "N">>}]
         \cup [before: {<<>>, <<"N", "N", "N", "N">>},
               after: [1..4 -> {"S", "c", "U", "R", "newline", "one", "a", "N"}]],
       Budget <- 3, NoMachine <- Unset, NoVerdict <- Unset,
       candidate <- question, machine <- todo, injection <- verdict

\* Two providers, one with networks within each other, with and without regions.
Selector(p, r, carves) == [provider |-> p, region |-> r, carves |-> carves]
Ranged(nets, regions)  == [networks |-> nets, regions |-> regions]
AllMatches ==
    [ip: {"i", "j", "k"},
     selectors: SUBSET {Selector("aws", "", FALSE), Selector("aws", "us", TRUE),
                        Selector("aws", "", TRUE), Selector("gcp", "eu", TRUE),
                        Selector("", "us", TRUE)},
     ranges: [{"aws", "gcp"} ->
                {Unset, Ranged({}, <<>>), Ranged({{"i"}}, {"i"} :> "us"),
                 Ranged({{"i"}, {"i", "j"}}, {"i"} :> "us"),
                 Ranged({{"i"}, {"i", "j"}}, {"i"} :> "us" @@ {"i", "j"} :> "eu")}]]

\* Pages with up to three links, of the past, the future, undated or elsewhere;
\* a deadline that cuts the second attempt short.
Link(trusted, date, name) == [trusted |-> trusted, date |-> date, name |-> name]
Links == {Link(TRUE, -2, 1), Link(TRUE, -1, 2), Link(TRUE, 1, 3), Link(TRUE, Unset, 4),
          Link(FALSE, 0, 5)}
Z == INSTANCE AzureFetch WITH
       Pages <- [failover: {Unset, Link(TRUE, Unset, 6), Link(FALSE, 0, 7)},
                 tags: UNION {[1..n -> Links] : n \in 0..3},
                 generic: {Unset, Link(TRUE, Unset, 8)}],
       NoDate <- Unset, NoLink <- Unset, MaxElapsed <- 5, PageTimeout <- 2,
       AttemptTimeout <- 2, RetryDelay <- 1, MaxAttempts <- 3, Pending <- Unset,
       page <- question, fetch <- todo, result <- verdict

\* Four kinds of texts, one that is as dear as the budget allows; builders that
\* agree at the larger sizes, more of them than are timed; each test of a pattern.
TimedTexts ==
    "flat" :> <<0, 0, 1, 1>> @@ "linear" :> <<0, 1, 2, 4>> @@ "grows" :> <<0, 1, 4, 5>>
    @@ "hangs" :> <<1, 3, 8, 20>>
Builder(t) == [i \in 1..4 |-> <<t, i>>]
Twin == <<<<"flat", 1>>, <<"flat", 2>>, <<"linear", 3>>, <<"linear", 4>>>>
Costly ==
    [mode |-> "cost", dangerous |-> FALSE, parses |-> TRUE, findings |-> <<>>, covered |-> FALSE,
     reaches |-> TRUE, fails |-> FALSE, bounded |-> FALSE, compiles |-> {"cost", "strings"},
     doublings |-> 0, strings |-> <<>>, builders |-> <<Builder("linear")>>]
Flagged == {<<"nested", "terminator">>, <<"terminator", "absorb">>}
Timings ==
    {<<Builder("flat"), Builder("hangs")>>, <<Builder("linear"), Twin>>, <<Builder("grows")>>,
     <<Builder("flat"), Builder("linear"), Builder("hangs")>>, <<>>}
Q == INSTANCE PatternCost WITH
       Patterns <-
         {[Costly EXCEPT !.dangerous = d, !.parses = p, !.mode = m] :
            d \in BOOLEAN, p \in BOOLEAN, m \in {"cost", "strings"}}
         \cup {[Costly EXCEPT !.mode = "strings", !.findings = f, !.compiles = c, !.strings = s] :
                  f \in Flagged \cup {<<>>}, c \in {{}, {"strings"}},
                  s \in {<<>>, <<<<"flat", 4>>, <<"linear", 4>>>>, <<<<"hangs", 4>>>>}}
         \cup {[Costly EXCEPT !.findings = f, !.covered = c, !.reaches = r, !.fails = e] :
                  f \in Flagged \cup {<<>>}, c \in BOOLEAN, r \in BOOLEAN, e \in BOOLEAN}
         \cup {[Costly EXCEPT !.builders = b, !.doublings = d, !.bounded = l, !.compiles = c] :
                  b \in Timings, d \in {-1, 0, 2}, l \in BOOLEAN, c \in {{"cost"}, {"strings"}}},
       Cost <- [t \in (DOMAIN TimedTexts) \X (1..4) |-> TimedTexts[t[1]][t[2]]], Noise <- {0, 3},
       References <- {0, 1, 2, 20}, Loads <- {1, 4, 8}, Delays <- {0, 35, 200}, Reference <- 2,
       Floor <- 1, Ceiling <- 16, Combined <- 40, DeadlineCeiling <- 80, Kill <- 20, Large <- 6,
       NoiseFloor <- 1, Budget <- 4, PerString <- 4, Samples <- 2, MaxSets <- 2,
       Pending <- Unset, pattern <- question, probing <- todo, outcome <- verdict
----------------------------------------------------------------------------
\* Lists of all kinds around addresses that are on none, one, or both.
Or(s) == {{}, s}
Whoever == {"w", "b", "wb", "n", "lo", "junk", ""}
Addressed ==
    [ip: Whoever, banned: BOOLEAN, passive: BOOLEAN, failSecure: {TRUE},
     bypass: {{}, {"ip"}, {"ip_ban"}}, routeBypass: {{}}, scoped: BOOLEAN, emergency: BOOLEAN, emergencyWhite: {{"w"}},
     blockedAgent: {FALSE}, white: Or({"w", "wb"}), black: Or({"b", "wb"}),
     exempt: {{"n", "wb"}}, routeWhite: Or({"n", "wb"}), routeBlack: {{}},
     geo: {TRUE}, routeBlocked: Or({"A"}), routeAllowed: {{}},
     blocked: {{}, {"A"}, {"A", ""}}, allowed: Or({"B"}), clouds: Or({"aws"}), routeClouds: {{}}]
Clouded ==
    [ip: Whoever, banned: {FALSE}, passive: BOOLEAN, failSecure: {TRUE}, bypass: {{}},
     routeBypass: Or({"clouds"}), scoped: BOOLEAN, emergency: {FALSE},
     emergencyWhite: {{"w"}}, blockedAgent: BOOLEAN, white: Or({"w", "wb"}),
     black: Or({"b", "wb"}), exempt: {{"n", "wb"}}, routeWhite: {{}},
     routeBlack: Or({"w"}), geo: BOOLEAN, routeBlocked: {{}}, routeAllowed: Or({"B"}),
     blocked: {{}}, allowed: Or({"B"}), clouds: Or({"aws"}), routeClouds: Or({"gcp"})]
Countries ==
    "w" :> "A" @@ "b" :> "B" @@ "wb" :> "B" @@ "n" :> "" @@ "lo" :> "A"
    @@ "junk" :> "unresolved" @@ "" :> "unresolved"
Clouds ==
    "w" :> "gcp" @@ "b" :> "aws" @@ "wb" :> "aws" @@ "n" :> "gcp"
    @@ "lo" :> "unresolved" @@ "junk" :> "unresolved" @@ "" :> "unresolved"
\* Without fail-secure only the unknown address is judged differently.
Unsure == {[q EXCEPT !.failSecure = FALSE] : q \in {q \in Addressed : q.ip = "" /\ ~q.passive}}
AllAddressed == Addressed \cup Clouded \cup Unsure

\* One set of questions per check.
Checked ==
    [check: {"https"}, passive: BOOLEAN, route: BOOLEAN, routeRequires: BOOLEAN,
     enforced: BOOLEAN, scheme: {"http", "https"}, trustProto: BOOLEAN,
     peerTrusted: BOOLEAN, proto: {"", "https"}]
    \cup
    [check: {"size_content"}, passive: BOOLEAN, maxSize: {0, 2}, length: -2..3,
     types: Or({"json"}), type: {"", "json"}]
    \cup
    [check: {"headers"}, passive: BOOLEAN, headers: [{"a", "b"} -> {"", "v", "w"}],
     required: {<<>>, [a |-> "required"], [a |-> "v", b |-> "required"]}]
    \cup
    [check: {"authentication"}, passive: BOOLEAN, headerScheme: {"", "basic", "bearer"},
     auth: {"", "bearer", "digest"}, keyRequired: BOOLEAN, key: {"", "k"},
     header: {[text |-> "", scheme |-> "", credential |-> ""],
              [text |-> "Bearer t", scheme |-> "bearer", credential |-> "t"],
              [text |-> "Bearer ", scheme |-> "bearer", credential |-> ""],
              [text |-> "digest", scheme |-> "", credential |-> ""]},
     verifier: {"none", "accepts", "rejects"},
     globalVerifier: {"none", "accepts", "rejects"}]
    \cup
    [check: {"referrer"}, passive: BOOLEAN,
     domains: SUBSET {[port |-> 80, labels |-> <<"a", "com">>],
                      [port |-> 81, labels |-> <<"com">>]},
     referrer: {[kind |-> "none"]} \cup
               [kind: {"url"}, port: {80, 81},
                labels: {<<"a", "com">>, <<"x", "a", "com">>, <<"com">>, <<"xa", "com">>}]]
    \cup
    [check: {"time_window"}, passive: BOOLEAN, start: -1..5, end: -1..5, now: 0..5]
    \cup
    [check: {"user_agent"}, passive: BOOLEAN, routeAgents: SUBSET {"p", "q"},
     globalAgents: SUBSET {"p", "q"},
     agent: {<<>>, [p |-> 1], [p |-> 3], [p |-> 3, q |-> 2]}]
    \cup
    [check: {"custom"}, passive: BOOLEAN, answers: {<<>>, <<200>>, <<200, 403, 400>>}]

\* Proxies of which one is listed, one is in a listed range, one is unknown.
Routes  == {<<>>, <<"p1">>, <<"p2">>, <<"p1", "p2">>, <<"p2", "p1">>, <<"cdn", "p1">>,
            <<"p1", "p2", "p1">>}
Forged  == UNION {[1..n -> {[ip |-> x, mapped |-> FALSE] : x \in {"victim", "p1", "bad"}}] :
                    n \in 0..2}

\* Requests of up to ten values, some beyond one budget or both.
Value(place, name, at, size, threats, chained, forced) ==
    [place |-> place, name |-> name, at |-> at, size |-> size,
     threats |-> threats, chain |-> chained, forced |-> forced]
Carried ==
    {Value("param", "q", 0, 2, {}, FALSE, ""), Value("header", "accept", 0, 1, {}, FALSE, ""),
     Value("body", "a", 0, 3, {}, FALSE, ""), Value("path", "", 0, 1, {}, FALSE, ""),
     Value("param", "id", 0, 2, {"sqli"}, FALSE, ""),
     Value("header", "host", 0, 2, {"ssrf"}, FALSE, ""),
     Value("header", "via", 0, 1, {"ssrf", "xss"}, FALSE, ""),
     Value("header", "referer", 0, 1, {"ssrf"}, TRUE, ""),
     Value("body", "$ne", 1, 1, {}, FALSE, "nosql"),
     Value("body", "note", 2, 2, {"xss", ""}, FALSE, "")}
Settings(params, fields, headers, categories, body) ==
    [params |-> params, fields |-> fields, headers |-> headers,
     categories |-> categories, scanBody |-> body]
AllCarried == SUBSET Carried
Globally == {Settings({}, {}, {}, {"xss", "sqli", "ssrf"}, Unset),
             Settings({"id"}, {"note"}, {"via"}, {"sqli", "ssrf"}, FALSE)}
Overriding == {Settings(Unset, Unset, Unset, Unset, Unset),
               Settings({}, {}, {}, {"xss", "ssrf"}, TRUE),
               Settings(Unset, Unset, {"via"}, Unset, Unset)}

----------------------------------------------------------------------------
\* Every setting at and beyond its bounds, alone and with another it needs.
RuleOf(kind, window, pattern, action, threshold) ==
    [kind |-> kind, window |-> window, pattern |-> pattern, action |-> action,
     threshold |-> threshold, banDuration |-> 0]
OnBody == RuleOf("return_pattern", 0, "body", "", 1)
Numbers ==
    "interval" :> {0, 59} @@ "inspect" :> {0, 1, 1024} @@ "values" :> {0, 1, 2}
    @@ "chars" :> {0, 1023} @@ "depth" :> {0, -1} @@ "minRun" :> {3, 4} @@ "connect" :> {0, 1}
    @@ "socket" :> {0} @@ "healthCheck" :> {-1} @@ "connections" :> {-1} @@ "retries" :> {-1, 0}
    @@ "bodyTimeout" :> {0, -1, 31} @@ "bodyReads" :> {0, 10001} @@ "maxAge" :> {-1, 5}
    @@ "proxyDepth" :> {0} @@ "banThreshold" :> {0} @@ "banDuration" :> {0}
    @@ "rateLimit" :> {0} @@ "rateWindow" :> {0} @@ "compiler" :> {0} @@ "content" :> {-1}
    @@ "bodyBytes" :> {0} @@ "refresh" :> {0, 59, 86401}
Switches ==
    "agent" :> {TRUE} @@ "enrichment" :> {TRUE} @@ "dynamicRules" :> {TRUE}
    @@ "scanBody" :> {TRUE} @@ "token" :> {TRUE} @@ "db" :> {TRUE} @@ "detection" :> {FALSE}
Names ==
    "rules" :> {<<RuleOf("usage", 0, "", "", 1)>>, <<OnBody>>,
                <<RuleOf("usage", 0, "", "", 1), RuleOf("usage", 0, "", "drop", 1), OnBody>>,
                <<RuleOf("usage", 1, "", "", 0), RuleOf("usage", 1, "", "", 1)>>}
    @@ "white" :> {{"de", "DE"}} @@ "black" :> {{"de"}}
    @@ "handler" :> {<<[db |-> FALSE, token |-> FALSE, maxAge |-> 1]>>}
    @@ "clouds" :> {{"aws"}, {"nimbus"}} @@ "requestLevel" :> {"info", "loud"}
    @@ "suspiciousLevel" :> {"info", "loud"} @@ "format" :> {"", "xml"}
    @@ "agents" :> {{"broken"}} @@ "addresses" :> {{"junk"}}
    @@ "threatBans" :> {{[known |-> TRUE, threshold |-> 0, duration |-> 1]},
                        {[known |-> FALSE, threshold |-> 1, duration |-> 1]}}
    @@ "endpoints" :> {{[requests |-> 1, window |-> 0]}} @@ "categories" :> {{}, {"unknown"}}
    @@ "muted" :> {{"unknown"}} @@ "paths" :> {{"relative"}} @@ "headers" :> {"illegal"}
One ==
    LET all == Numbers @@ Switches @@ Names
    IN UNION {{field :> value : value \in all[field]} : field \in DOMAIN all}
Needed ==
    {"black" :> {"de"} @@ "db" :> TRUE, "white" :> {"de", "DE"} @@ "token" :> TRUE,
     "black" :> {"de"} @@ "maxAge" :> 5 @@ "db" :> TRUE, "rules" :> <<OnBody>> @@ "scanBody" :> TRUE,
     "enrichment" :> TRUE @@ "agent" :> TRUE, "dynamicRules" :> TRUE @@ "token" :> TRUE}
F == INSTANCE Configuration WITH
       Mutations <- One \cup {n @@ m : n \in Needed, m \in One}, Nil <- Unset,
       given <- question, config <- todo, outcome <- verdict

\* All ways around the pipeline with one policy, and all policies of two
\* origins, two methods and a header.
Around ==
    [cors: BOOLEAN, origins: {{"o"}}, methods: {{"GET"}}, headers: {{}}, credentials: {FALSE},
     passive: BOOLEAN, excluded: BOOLEAN, bypassAll: BOOLEAN,
     modifier: {"none", "panics", "nil", "replaces"}, preflight: BOOLEAN, origin: {"", "o"},
     method: {"GET"}, asked: {{}}, blocks: [BOOLEAN -> BOOLEAN]]
Crossing ==
    [cors: {TRUE}, origins: SUBSET {"o", "*"}, methods: {{}, {"GET"}, {"GET", "PUT"}},
     headers: {{}, {"h"}, {"*"}}, credentials: BOOLEAN, passive: {FALSE}, excluded: {FALSE},
     bypassAll: {FALSE}, modifier: {"none", "replaces"}, preflight: BOOLEAN,
     origin: {"", "o", "p"}, method: {"GET", "PUT"}, asked: SUBSET {"h"},
     blocks: {[scoped \in BOOLEAN |-> b] : b \in BOOLEAN}]
AllExchanges ==
    {x \in Around : x.passive => x.blocks = [scoped \in BOOLEAN |-> FALSE]} \cup Crossing

\* Paths of up to two pieces below "/" or "/s", alone; two that are both
\* excluded, and one more than are remembered.
Char(c, layers) == [c |-> c, layers |-> layers]
Slash  == <<Char("/", 0)>>
Dots   == <<Char("/", 2), Char(".", 0), Char(".", 4)>>
Shop   == Slash \o <<Char("s", 0)>>
PathPieces == {Shop, Slash, Dots, Dots \o <<Char(";", 1), Char("s", 0)>>,
           <<Char("\\", 0), Char(".", 1)>>, <<Char("t", 1)>>, <<Char(".", 5)>>,
           <<Char("bad", 0)>>, <<Char("bad", 1)>>}
P == INSTANCE PathExclusion WITH
       Sites <- {{h \o p \o q} : h \in {Slash, Shop}, p \in PathPieces \cup {<<>>}, q \in PathPieces \cup {<<>>}}
                \cup {{Shop, Shop \o Shop}, {Shop, Shop \o Shop, Shop \o Shop \o Shop, Shop \o Shop \o Dots}},
       Lists <- {{Shop}, {Shop \o Slash \o <<Char("t", 0)>>, Slash \o <<Char("t", 1), Char(".", 0)>>}},
       Rounds <- 4, Period <- 2, Cap <- 3, MaxClock <- 2, NoAnswer <- Unset,
       entries <- prefixes, clock <- hour, answer <- lastAnswer
----------------------------------------------------------------------------
NoDecision == question = Unset /\ verdict = Unset /\ todo = Unset
NoScan     == /\ scan = {} /\ global = Unset /\ scanRoute = Unset /\ left = {}
              /\ used = Unset /\ scanned = {} /\ found = Scanning
NoPath     == /\ site = Unset /\ excludePaths = Unset /\ source = Unset /\ prefixes = Unset
              /\ emittedPaths = Unset /\ hour = Unset /\ announced = Unset /\ early = Unset
              /\ lastAnswer = Unset
NoIdentity == /\ path = Unset /\ route = Unset /\ depth = Unset /\ chain = Unset
              /\ peer = Unset /\ identity = Pending
NoAccess   == accessQuestion = Unset /\ accessVerdict = Unjudged
NoGuard    == guardQuestion = Unset /\ guardVerdict = Unguarded
NoExchange == exchange = Unset /\ checked = NotYet /\ response = NotYet
NoMatch    == cloudQuestion = Unset /\ cloudVerdict = Unmatched

\* Decisions that share their variables.
CommonInit ==
    \/ component = "body" /\ V!ValuesInit
    \/ component = "bounds" /\ C!BoundsInit /\ todo = Unset
    \/ component = "views" /\ W!ViewsInit
    \/ component = "pickle" /\ K!PickleInit
    \/ component = "cost" /\ Q!CostInit
    \/ component = "azure" /\ Z!FetchInit
    \/ component = "configuration" /\ F!ConfigInit

CommonNext ==
    \/ component = "body" /\ V!ValuesNext
    \/ component = "bounds" /\ C!Answer /\ UNCHANGED todo
    \/ component = "views" /\ W!ViewsNext
    \/ component = "pickle" /\ K!PickleNext
    \/ component = "cost" /\ Q!CostNext
    \/ component = "azure" /\ Z!FetchNext
    \/ component = "configuration" /\ F!ConfigNext

DecisionsInit ==
    /\ CommonInit \/ (NoDecision /\ component \in
                        {"identity", "access", "guards", "dispatch", "ranges", "scan", "exclusion"})
    /\ IF component = "identity" THEN IdentityInit ELSE NoIdentity
    /\ IF component = "access" THEN AccessInit ELSE NoAccess
    /\ IF component = "guards" THEN GuardsInit ELSE NoGuard
    /\ IF component = "dispatch" THEN DispatchInit ELSE NoExchange
    /\ IF component = "ranges" THEN MatchInit ELSE NoMatch
    /\ IF component = "scan" THEN ScanInit ELSE NoScan
    /\ IF component = "exclusion" THEN P!ExclusionInit ELSE NoPath

questionVars == <<identityVars, accessVars, guardVars, dispatchVars, matchVars>>

DecisionsNext ==
    /\ \/ CommonNext /\ UNCHANGED <<questionVars, scanVars, pathVars>>
       \/ /\ component = "identity" /\ IdentityNext
          /\ UNCHANGED <<decisionVars, accessVars, guardVars, dispatchVars, matchVars,
                         scanVars, pathVars>>
       \/ /\ component = "access" /\ Judge
          /\ UNCHANGED <<decisionVars, identityVars, guardVars, dispatchVars, matchVars,
                         scanVars, pathVars>>
       \/ /\ component = "guards" /\ Guard
          /\ UNCHANGED <<decisionVars, identityVars, accessVars, dispatchVars, matchVars,
                         scanVars, pathVars>>
       \/ /\ component = "dispatch" /\ DispatchNext
          /\ UNCHANGED <<decisionVars, identityVars, accessVars, guardVars, matchVars,
                         scanVars, pathVars>>
       \/ /\ component = "ranges" /\ Match
          /\ UNCHANGED <<decisionVars, identityVars, accessVars, guardVars, dispatchVars,
                         scanVars, pathVars>>
       \/ /\ component = "scan" /\ ScanNext
          /\ UNCHANGED <<decisionVars, questionVars, pathVars>>
       \/ /\ component = "exclusion" /\ P!ExclusionNext
          /\ UNCHANGED <<decisionVars, questionVars, scanVars>>
    /\ UNCHANGED component

DecisionsSpec ==
    DecisionsInit
    /\ [][DecisionsNext]_<<component, decisionVars, questionVars, scanVars, pathVars>>

----------------------------------------------------------------------------
(* The components' properties, stated in their modules.                    *)

\* The values a scan is given cover the body: JSON, form fields, lines between
\* boundaries; and the bounds on the work lose nothing: a truncated text has the
\* length that is allowed and keeps what indicates an attack, the search through
\* windows finds what the search of the whole text finds, sums over prefixes
\* count right.
\* The verdict on a value rests on each piece of evidence once, on none that a
\* rule drops and on all others, and takes what it could not see for a threat.
\* A custom pattern whose searches cost too much is refused on a noisy host, one
\* disturbed measurement costs a cheap one nothing, and the timing ends in time.
VerdictsAreSound ==
    /\ component = "body" => V!JsonIsCovered /\ V!FieldsAreScannedWhole /\ V!LinesAreScanned
    /\ component = "bounds" => C!TruncationFits /\ C!HitsSurvive
                               /\ C!WindowsMissNothing /\ C!DenseIsCounted
    /\ component = "views" => W!EvidenceCountsOnce /\ W!AcceptedIsReported
                              /\ W!UndecodedIsThreat /\ W!ScoreAgrees
    /\ component = "pickle" => K!OnlyReduceConvicts /\ K!UnseenIsSuspect
    /\ component = "cost" => Q!HostileIsRefused /\ Q!SpikeIsForgiven /\ Q!TimingIsBounded

\* A configuration that was accepted is accepted unchanged by the next engine,
\* one that was refused and corrected is as if it had never been refused, and
\* nothing that is turned on is without what it needs.  A path is excluded
\* exactly by the list in force, and announced once per period; and Azure's
\* newest file is fetched before the deadline.
ConfiguredIsInForce ==
    /\ component = "configuration" => F!AcceptedAgain /\ F!CorrectedIsAsFresh /\ F!NothingIsInert
    /\ component = "exclusion" => P!ScopedIsBelow /\ P!AnnouncedOnce
    /\ component = "azure" => Z!NewestIsDownloaded /\ Z!FetchMeetsDeadline
=============================================================================
