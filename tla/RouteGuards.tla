----------------------------- MODULE RouteGuards -----------------------------
(***************************************************************************)
(* The checks a route can switch on (checks_routeguards.go,                *)
(* checks_custom.go, checks_route.go): HTTPS, size and type of the         *)
(* content, required headers, authentication, referrer, time window, user  *)
(* agent, validators of the application.  Each is a decision on one        *)
(* request: the question names the check and fixes what it reads, one step *)
(* answers with the status, 200 for "the request goes on".                 *)
(*                                                                         *)
(* A text is a model value where only equality counts; a domain is the     *)
(* sequence of its labels with its port, a time the minute of the day.     *)
(***************************************************************************)
EXTENDS Integers, Sequences, FiniteSets, FiniteSetsExt, SequencesExt

CONSTANTS
    GuardQuestions,   \* records with a check, a mode and what the check reads
    Minutes,          \* minutes of a day
    AgentLength       \* characters of a user agent that are matched

Proceed   == 200
Panicked  == 0       \* a panic, which the pipeline turns into its own answer
Absent    == -1      \* a header or a time that is not there
Junk      == -2      \* a number that does not parse
Unguarded == [status |-> -1]

ASSUME GuardsAssumption ==
    /\ Minutes \in Nat \ {0}
    /\ \A q \in GuardQuestions :
         /\ q.passive \in BOOLEAN
         /\ q.check \in {"https", "size_content", "headers", "authentication", "referrer",
                        "time_window", "user_agent", "custom"}
         /\ q.check = "time_window" =>
              {q.start, q.end} \subseteq {Absent} \cup 0..(Minutes - 1) /\ q.now \in 0..(Minutes - 1)

VARIABLES guardQuestion, guardVerdict
guardVars == <<guardQuestion, guardVerdict>>

\* In passive mode a violation is logged and reported, and the request goes on.
Refused(q, status) == IF q.passive THEN Proceed ELSE status

----------------------------------------------------------------------------
\* httpsEnforcementCheck: a route decides alone; only a trusted proxy is
\* believed about the scheme the client used.
BelievesProto(q) == q.trustProto /\ q.peerTrusted
Secure(q) == q.scheme = "https" \/ (BelievesProto(q) /\ q.proto = "https")
Https(q) ==
    LET required == IF q.route THEN q.routeRequires ELSE q.enforced
    IN IF required /\ ~Secure(q) THEN Refused(q, 301) ELSE Proceed

\* requestSizeContentCheck: a request without a length is not limited, one
\* with a length that is no number panics; in passive mode the type of an
\* oversized request is not looked at.
SizeContent(q) ==
    IF q.maxSize > 0 /\ q.length = Junk THEN Panicked
    ELSE IF q.maxSize > 0 /\ q.length > q.maxSize THEN Refused(q, 413)
    ELSE IF q.types # {} /\ q.type \notin q.types THEN Refused(q, 415)
    ELSE Proceed

\* requiredHeadersCheck: "required" asks for any value.
RequiredHeaders(q) ==
    IF \E name \in DOMAIN q.required :
          \/ q.headers[name] = ""
          \/ q.required[name] \notin {"required", q.headers[name]}
    THEN Refused(q, 400) ELSE Proceed

----------------------------------------------------------------------------
(* authenticationCheck                                                     *)

\* extractCredential: the credential of a scheme that the header has, the
\* whole header for another kind of authentication.
Credential(header, type) ==
    IF type \notin {"bearer", "basic"} THEN header.text
    ELSE IF header.scheme = type THEN header.credential
    ELSE ""

\* Mutation of Verifier: without a verifier of its own a route accepts everything.
VerifierOfRoute(q) == IF q.verifier # "none" THEN q.verifier ELSE "accepts"

\* The route's verifier, else the configuration's.
Verifier(q) == IF q.verifier # "none" THEN q.verifier ELSE q.globalVerifier

Authentication(q) ==
    LET verified == IF q.auth # "" THEN Credential(q.header, q.auth) ELSE q.key
    IN IF q.headerScheme # ""
       THEN IF Credential(q.header, q.headerScheme) = "" THEN Refused(q, 401) ELSE Proceed
       ELSE IF q.auth = "" /\ ~q.keyRequired THEN Proceed
       ELSE IF verified # "" /\ Verifier(q) = "accepts" THEN Proceed
       ELSE Refused(q, 401)

\* The principal is left in the state of the request.
Principal(q) == /\ q.headerScheme = "" /\ (q.auth # "" \/ q.keyRequired)
                /\ (IF q.auth # "" THEN Credential(q.header, q.auth) ELSE q.key) # ""
                /\ Verifier(q) = "accepts"

----------------------------------------------------------------------------
\* referrerCheck: the domain itself or a domain below it, on the same port.
Below(domain, allowed) ==
    /\ domain.port = allowed.port
    /\ IsSuffix(allowed.labels, domain.labels)
Referrer(q) ==
    IF q.domains = {} THEN Proceed
    ELSE IF q.referrer.kind = "url" /\ \E d \in q.domains : Below(q.referrer, d)
    THEN Proceed
    ELSE Refused(q, 403)

\* timeWindowCheck: both ends belong to the window, which may pass midnight.
Inside(start, end, now) ==
    IF start > end THEN now >= start \/ now <= end
    ELSE start <= now /\ now <= end
TimeWindow(q) ==
    IF q.start = Absent \/ q.end = Absent \/ Inside(q.start, q.end, q.now)
    THEN Proceed ELSE Refused(q, 403)

\* userAgentCheck: agent[p] is where the pattern p first matches to, in the
\* agent; one that does not compile matches nothing.
AgentMatches(q, patterns) ==
    \E p \in patterns : /\ p \in DOMAIN q.agent
                        /\ q.agent[p] <= AgentLength
UserAgent(q) ==
    IF AgentMatches(q, q.routeAgents) \/ AgentMatches(q, q.globalAgents)
    THEN Refused(q, 403) ELSE Proceed

\* customValidatorsCheck and customRequestCheck: the first answer that is one.
Custom(q) ==
    LET answered == {i \in DOMAIN q.answers : q.answers[i] # Proceed}
    IN IF answered = {} THEN Proceed ELSE Refused(q, q.answers[Min(answered)])

----------------------------------------------------------------------------
Answer(q) ==
    CASE q.check = "https"          -> Https(q)
      [] q.check = "size_content"   -> SizeContent(q)
      [] q.check = "headers"        -> RequiredHeaders(q)
      [] q.check = "authentication" -> Authentication(q)
      [] q.check = "referrer"       -> Referrer(q)
      [] q.check = "time_window"    -> TimeWindow(q)
      [] q.check = "user_agent"     -> UserAgent(q)
      [] q.check = "custom"         -> Custom(q)

GuardsInit == guardQuestion \in GuardQuestions /\ guardVerdict = Unguarded
Guard ==
    /\ guardVerdict = Unguarded
    /\ guardVerdict' =
         [status    |-> Answer(guardQuestion),
          principal |-> guardQuestion.check = "authentication" /\ Principal(guardQuestion)]
    /\ UNCHANGED guardQuestion

----------------------------------------------------------------------------
(* Properties                                                              *)

Guarded     == guardVerdict # Unguarded
LetThrough  == guardVerdict.status = Proceed
Asked(name) == Guarded /\ guardQuestion.check = name

(* A request is served on a route that asks for authentication or for a key  *)
(* only with a credential that a verifier, the route's or the common one,    *)
(* accepted, and then the principal is set: a missing verifier refuses.  A   *)
(* route that asks for the mere presence of an authorization header is not   *)
(* authenticated by it, whatever else it asks for.                           *)
ServedIsVerified ==
    Asked("authentication") /\ LetThrough /\ ~guardQuestion.passive
      /\ guardQuestion.headerScheme = "" /\ (guardQuestion.auth # "" \/ guardQuestion.keyRequired) =>
      /\ guardVerdict.principal
      /\ "accepts" \in {guardQuestion.verifier, guardQuestion.globalVerifier}

(* The time window is the arc of the clock from its start to its end, both   *)
(* included, on either side of midnight.                                     *)
WindowIsAnArc ==
    LET q == guardQuestion
    IN Asked("time_window") /\ ~q.passive /\ q.start # Absent /\ q.end # Absent =>
         (LetThrough <=> (q.now - q.start) % Minutes <= (q.end - q.start) % Minutes)

(* A request that came over plain HTTP is served where HTTPS is required     *)
(* only on the word of a trusted proxy.                                      *)
PlainOnlyBehindProxy ==
    LET q == guardQuestion
    IN /\ Asked("https") /\ LetThrough /\ ~q.passive /\ q.scheme # "https"
       /\ (IF q.route THEN q.routeRequires ELSE q.enforced)
       => q.peerTrusted /\ q.proto = "https"

(* The passive mode refuses nothing.                                         *)
PassiveRefusesNothing ==
    Guarded /\ guardQuestion.passive => guardVerdict.status \in {Proceed, Panicked}

(* What a route asks for holds of each request it serves, and the mode too.  *)
GuardsHold ==
    ServedIsVerified /\ WindowIsAnArc /\ PlainOnlyBehindProxy /\ PassiveRefusesNothing
==============================================================================
