------------------------------ MODULE Dispatch ------------------------------
(***************************************************************************)
(* What an engine does around its pipeline (composition.go, cors.go,       *)
(* response_modifier.go): answering preflights, scoping requests of        *)
(* excluded paths, passing routes that bypass everything, counting what is *)
(* served, and the CORS headers and the modifier of every response.        *)
(*                                                                         *)
(* An exchange is a configuration and a request of it.  Whether the        *)
(* pipeline refuses the request is part of it: blocks[scoped].  Methods    *)
(* and header names are as Validate leaves them, in one case.              *)
(***************************************************************************)
EXTENDS Integers, FiniteSets

CONSTANTS
    Exchanges,    \* [cors, origins, methods, headers, credentials, passive, excluded, bypassAll,
                  \*  modifier, preflight, origin, method, asked, blocks]
    NoOrigin, NoResponse, NotYet

\* What may stand in a response.
Origins      == {NoOrigin, "*"} \cup {x.origin : x \in Exchanges}
Methods      == {"GET"} \cup UNION {x.methods : x \in Exchanges}
Headers      == {"*"} \cup UNION {x.headers \cup x.asked : x \in Exchanges}
AllResponses ==
    [by: {"preflight", "block", "app", "modifier"}, ok: BOOLEAN, origin: Origins,
     credentials: BOOLEAN, methods: SUBSET Methods, headers: SUBSET Headers]
ASSUME DispatchAssumption ==
    /\ NoResponse \notin AllResponses
    /\ \A x \in Exchanges :
         /\ {x.cors, x.credentials, x.excluded, x.preflight} \subseteq BOOLEAN
         /\ x.blocks \in [BOOLEAN -> BOOLEAN]

VARIABLES
    exchange,
    checked,      \* what Check leaves: [answer, scoped, route, usage]
    response      \* what the client gets, and what return rules count
dispatchVars == <<exchange, checked, response>>

----------------------------------------------------------------------------
(* Responses                                                               *)

Response(by, ok) ==
    [by |-> by, ok |-> ok, origin |-> NoOrigin, credentials |-> FALSE,
     methods |-> {}, headers |-> {}]

Configured(x) ==
    [all |-> "*" \in x.origins, listed |-> x.origins,
     methods |-> IF x.methods = {} THEN {"GET"} ELSE x.methods,
     headers |-> x.headers, credentials |-> x.credentials]

\* Credentials are dropped where all origins are allowed.
Policy(x) == [Configured(x) EXCEPT !.credentials = x.credentials /\ "*" \notin x.origins]

Allowed(p, origin) == p.all \/ origin \in p.listed
NamedOrigin(p, origin) == IF p.all /\ ~p.credentials THEN "*" ELSE origin

PreflightAnswer(x) ==
    LET p == Policy(x)
    IN [by |-> "preflight",
        ok |-> /\ Allowed(p, x.origin) /\ x.method \in p.methods
               /\ "*" \in p.headers \/ x.asked \subseteq p.headers,
        origin |-> IF Allowed(p, x.origin) THEN NamedOrigin(p, x.origin) ELSE NoOrigin,
        credentials |-> p.credentials, methods |-> p.methods,
        headers |-> IF "*" \in p.headers THEN x.asked ELSE {}]

\* The headers of a response that is no answer to a preflight.
WithCors(r, x) ==
    LET p == Policy(x)
    IN IF ~x.cors \/ x.origin = NoOrigin \/ ~Allowed(p, x.origin) THEN r
       ELSE [r EXCEPT !.origin = NamedOrigin(p, x.origin), !.credentials = p.credentials,
                      !.methods = p.methods,
                      !.headers = IF "*" \in p.headers THEN {"*"} ELSE p.headers]

\* Mutation of Modified: no result takes a refusal back.
ModifiedByAll(r, x) ==
    CASE x.modifier = "nil" /\ ~r.ok -> NoResponse
      [] x.modifier = "replaces"     -> Response("modifier", TRUE)
      [] OTHER                       -> r

\* A callback that panics or returns nothing leaves the response.
Modified(r, x) == IF x.modifier = "replaces" THEN Response("modifier", TRUE) ELSE r

----------------------------------------------------------------------------
(* Check                                                                   *)

Preflight(x) == x.cors /\ x.preflight

Scoped(x) == x.excluded /\ ~Preflight(x)
BypassesAll(x) == x.bypassAll /\ ~x.passive /\ ~Preflight(x)

Refusal(x) == IF ~BypassesAll(x) /\ x.blocks[Scoped(x)] THEN Modified(Response("block", FALSE), x)
              ELSE NoResponse

Counts(x) == ~Preflight(x) /\ ~BypassesAll(x) /\ ~Scoped(x) /\ Refusal(x) = NoResponse

DispatchInit == exchange \in Exchanges /\ checked = NotYet /\ response = NotYet

Check ==
    /\ checked = NotYet
    /\ checked' =
         [answer |-> IF Refusal(exchange) # NoResponse THEN WithCors(Refusal(exchange), exchange)
                     ELSE IF Preflight(exchange) THEN PreflightAnswer(exchange) ELSE NoResponse,
          scoped |-> Scoped(exchange), route |-> ~BypassesAll(exchange), usage |-> Counts(exchange)]
    /\ UNCHANGED <<exchange, response>>

\* The adapter sends the answer of Check, or that of the application, which
\* ProcessResponse sees first and ModifyResponse last.
ProcessResponse ==
    /\ checked # NotYet /\ response = NotYet
    /\ response' =
         IF checked.answer # NoResponse
         THEN [sent |-> checked.answer, returns |-> FALSE, globalReturns |-> FALSE]
         ELSE [sent |-> Modified(WithCors(Response("app", TRUE), exchange), exchange),
               returns |-> ~checked.scoped /\ checked.route, globalReturns |-> ~checked.scoped]
    /\ UNCHANGED <<exchange, checked>>

DispatchNext == Check \/ ProcessResponse

----------------------------------------------------------------------------
(* Properties                                                              *)

Answered == response # NotYet

(* A request the pipeline refuses when it runs all its checks is served only *)
(* if an excluded path or a bypass of its route explains it: neither         *)
(* explains the answer to a preflight (Check).                               *)
ServedIsExplained ==
    Answered /\ checked.answer \in {NoResponse, PreflightAnswer(exchange)} /\ exchange.blocks[FALSE] =>
      /\ ~Preflight(exchange)
      /\ \/ exchange.excluded /\ ~exchange.blocks[TRUE]
         \/ exchange.bypassAll /\ ~exchange.passive

(* A callback that panics or returns nothing does not take a refusal back    *)
(* (applyModifier, createErrorResponse).                                     *)
RefusalsStay ==
    Answered /\ response.sent.by = "app" /\ exchange.modifier # "replaces" =>
      BypassesAll(exchange) \/ ~exchange.blocks[exchange.excluded]

(* A response that allows credentials to an origin names one, and it is one  *)
(* that is listed, whatever the configuration (newCORSPolicy).               *)
CredentialsAreOfListed ==
    Answered /\ response.sent.credentials /\ response.sent.origin # NoOrigin =>
      response.sent.origin \in exchange.origins \ {"*"} /\ response.sent.origin = exchange.origin

(* What a preflight allows is what the request it asks for gets, refused or  *)
(* served: its origin, its method and its credentials; and a preflight that  *)
(* is refused for its origin stands for a response without these             *)
(* (buildPreflightResponse, buildResponseHeaders).                           *)
PreflightForetells ==
    LET told == PreflightAnswer(exchange)
        got  == response.sent
    IN Answered /\ exchange.cors /\ exchange.origin # NoOrigin /\ got.by \in {"block", "app"} =>
         /\ told.origin = got.origin
         /\ told.ok => /\ got.origin \in {"*", exchange.origin} /\ exchange.method \in got.methods
                       /\ got.credentials = told.credentials

(* A request counts towards the usage of its route only if it is served and  *)
(* its response counts too; a refused one counts nowhere (ProcessUsageRules, *)
(* ProcessReturnRules).                                                      *)
CountedIsServed ==
    Answered /\ checked.usage =>
      response.returns /\ response.globalReturns /\ checked.answer = NoResponse

(* What the pipeline refuses is not served around it, and what is sent, by   *)
(* whom, is what the configuration says.                                     *)
DispatchHolds ==
    ServedIsExplained /\ RefusalsStay /\ CredentialsAreOfListed /\ PreflightForetells
    /\ CountedIsServed
=============================================================================
