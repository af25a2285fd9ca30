--------------------------- MODULE AccessDecision ---------------------------
(***************************************************************************)
(* Who is let in, by address: the checks of the pipeline that decide on    *)
(* the client's address and the flags they leave for later checks          *)
(* (pipeline.go, checks_route.go, checks_cloud.go), and the same decision  *)
(* as taken a second time, in other words, for a WebSocket handshake       *)
(* (websocket.go).                                                         *)
(*                                                                         *)
(* A question fixes everything a decision reads; an address list is the    *)
(* set of the addresses its entries match, "" is an unknown client and     *)
(* "junk" one that does not parse (both match no list).  One step answers. *)
(***************************************************************************)
EXTENDS Integers, Sequences, FiniteSets

CONSTANTS
    AccessQuestions,   \* records with the fields named below
    CountryOf,         \* country of an address, or Unresolved
    CloudOf,           \* cloud provider of an address, or Unresolved
    Loopback           \* addresses exempt from the global country rules

VARIABLES accessQuestion, accessVerdict
accessVars == <<accessQuestion, accessVerdict>>

Unresolved == "unresolved"
Unjudged   == [asked |-> FALSE]

\* A code may be any text, also the empty one: nothing validates it.  The mark of
\* an address that the database does not know is no code.
Codes   == STRING \ {Unresolved}
Nowhere == {Unresolved, ""}
AllQuestions ==
    [ip: STRING, banned: BOOLEAN, passive: BOOLEAN, failSecure: BOOLEAN, scoped: BOOLEAN,
     emergency: BOOLEAN, blockedAgent: BOOLEAN, geo: BOOLEAN, bypass: SUBSET STRING,
     routeBypass: SUBSET STRING, white: SUBSET STRING, black: SUBSET STRING,
     emergencyWhite: SUBSET STRING, exempt: SUBSET STRING, routeWhite: SUBSET STRING,
     routeBlack: SUBSET STRING, routeBlocked: SUBSET Codes, routeAllowed: SUBSET Codes,
     blocked: SUBSET Codes, allowed: SUBSET Codes, clouds: SUBSET STRING, routeClouds: SUBSET STRING]
ASSUME AccessAssumption == AccessQuestions \subseteq AllQuestions

----------------------------------------------------------------------------
(* ip_security: the address rules of a route                               *)

\* routeCountryAccessDetail: a blocked country, else membership in the
\* allowed ones; the loopback addresses are not exempt.
RouteCountry(q) ==
    LET c == CountryOf[q.ip]
    IN IF ~q.geo \/ (q.routeBlocked = {} /\ q.routeAllowed = {}) THEN "no rules"
       ELSE IF c \in q.routeBlocked \ Nowhere THEN "denied"
       ELSE IF q.routeAllowed = {} THEN "no rules"
       ELSE IF c \in q.routeAllowed \ Nowhere THEN "allowed"
       ELSE "denied"

\* checkRouteIPAccess: the route's blacklist, then its whitelist.
RouteDenies(q) ==
    \/ q.ip \in q.routeBlack
    \/ q.routeWhite # {} /\ q.ip \notin q.routeWhite
    \/ RouteCountry(q) = "denied"

(* ip_security: the global rules                                           *)

\* globalCountryVerdict: allowed countries take precedence over blocked ones; an
\* address with the empty country is looked for in them, unlike elsewhere.
CountryDenies(q) ==
    LET c == CountryOf[q.ip]
    IN /\ q.geo /\ q.ip \notin Loopback
       /\ IF q.allowed # {} THEN c \notin q.allowed ELSE c \in q.blocked

\* checkGlobal: a whitelist match skips the countries, not the blacklist.
GlobalDenies(q, skipCountries) ==
    \/ q.white # {} /\ q.ip \notin q.white
    \/ q.ip \in q.black
    \/ q.white = {} /\ ~skipCountries /\ CountryDenies(q)

\* The flags of a whitelist match are set before the blacklist is consulted;
\* a route with a whitelist of its own leaves both flags unset.
Flags(q, denied) ==
    LET mine    == ~q.scoped /\ q.routeWhite # {}
        matched == q.white # {} /\ q.ip \in q.white
    IN [whitelisted |-> matched /\ ~mine,
        exempt      |-> (matched \/ ~denied) /\ ~mine /\ q.ip \in q.exempt]

NoFlags == [whitelisted |-> FALSE, exempt |-> FALSE]
Finds(denies, flags) ==
    [denies |-> denies, whitelisted |-> flags.whitelisted, exempt |-> flags.exempt]

\* ipSecurityCheck.Check, as what it denies and the flags it leaves.
BanApplies(q) == q.banned /\ q.bypass \cap {"ip_ban", "all"} = {}

Bypassed(q) == q.bypass \cap {"ip", "all"} # {}

\* A denial by the route ends the check only outside the passive mode.
IPSecurity(q) ==
    IF q.ip = "" THEN Finds(FALSE, NoFlags)
    ELSE IF BanApplies(q) THEN Finds(TRUE, NoFlags)
    ELSE IF ~q.scoped /\ Bypassed(q) THEN Finds(FALSE, NoFlags)
    ELSE LET byRoute == ~q.scoped /\ RouteDenies(q)
             skip    == ~q.scoped /\ RouteCountry(q) = "allowed"
             denied  == GlobalDenies(q, skip)
         IN IF byRoute /\ ~q.passive THEN Finds(TRUE, NoFlags)
            ELSE Finds(byRoute \/ denied, Flags(q, denied))

----------------------------------------------------------------------------
(* The other checks that look at the address or at the flags               *)

EmergencyDenies(q) == q.emergency /\ ~q.scoped /\ q.ip \notin q.emergencyWhite

\* cloudProviderCheck: the providers of the route replace the global ones.
Providers(q) == IF q.routeClouds # {} THEN q.routeClouds ELSE q.clouds
CloudDenies(q, flags) ==
    /\ ~q.scoped /\ q.ip # ""
    /\ ~flags.whitelisted
    /\ ~(flags.exempt /\ q.routeClouds # {})
    /\ q.routeBypass \cap {"clouds", "all"} = {}
    /\ CloudOf[q.ip] \in Providers(q)

\* userAgentCheck, for an agent that matches a blocked pattern.
AgentDenies(q, flags) == /\ q.blockedAgent /\ ~q.scoped
                         /\ ~flags.whitelisted /\ ~flags.exempt

\* The checks in the pipeline's order; outside the passive mode the first
\* that finds a violation ends the request.
Order == <<"emergency_mode", "ip_security", "cloud_provider", "user_agent">>
Violates(q, sec, i) ==
    \/ Order[i] = "emergency_mode" /\ EmergencyDenies(q)
    \/ Order[i] = "ip_security" /\ sec.denies
    \/ Order[i] = "cloud_provider" /\ CloudDenies(q, sec)
    \/ Order[i] = "user_agent" /\ AgentDenies(q, sec)
Http(q) ==
    LET sec    == IPSecurity(q)
        all    == {i \in DOMAIN Order : Violates(q, sec, i)}
        first  == CHOOSE i \in all : \A j \in all : i <= j
        ended  == all # {} /\ ~q.passive
        flags  == IF ended /\ first = 1 THEN NoFlags ELSE sec
    IN [denied |-> IF ended THEN Order[first] ELSE "none",
        found  |-> {Order[i] : i \in IF ended THEN {first} ELSE all},
        whitelisted |-> flags.whitelisted, exempt |-> flags.exempt]

----------------------------------------------------------------------------
(* GuardWebSocket, up to the rate limit                                    *)

\* Mutation of SocketCountryDenies: an address without a country is admitted.
SocketCountryDeniesKnown(q) ==
    LET c == CountryOf[q.ip]
    IN /\ q.geo /\ q.ip \notin Loopback /\ c \notin Nowhere
       /\ IF q.allowed # {} THEN c \notin q.allowed ELSE c \in q.blocked

SocketCountryDenies(q) ==
    LET c == CountryOf[q.ip]
    IN /\ q.geo /\ q.ip \notin Loopback
       /\ IF c \in Nowhere THEN q.allowed # {}
          ELSE IF q.allowed # {} THEN c \notin q.allowed
          ELSE c \in q.blocked

SocketAllows(q) ==
    IF q.ip = "" THEN q.white = {} /\ q.allowed = {}
    ELSE IF q.ip = "junk" THEN FALSE
    ELSE IF q.white # {} THEN q.ip \in q.white
    ELSE /\ q.ip \notin q.black
         /\ ~SocketCountryDenies(q)
         /\ CloudOf[q.ip] \notin q.clouds

\* An address nobody could determine is refused before its ban is looked up.
Nameless(q) == q.ip = "" /\ q.failSecure
Socket(q)   == IF Nameless(q) \/ q.banned \/ ~SocketAllows(q) THEN "closed" ELSE "open"

----------------------------------------------------------------------------
AccessInit == accessQuestion \in AccessQuestions /\ accessVerdict = Unjudged
Judge ==
    /\ accessVerdict = Unjudged
    /\ accessVerdict' = [http |-> Http(accessQuestion), socket |-> Socket(accessQuestion)]
    /\ UNCHANGED accessQuestion

----------------------------------------------------------------------------
(* Properties                                                              *)

Judged   == accessVerdict # Unjudged
Admitted == accessVerdict.http.denied = "none"

(* Outside the passive mode nothing but its own bypass opens the door to a   *)
(* banned address: not a whitelist, an exemption, a bypass of the address    *)
(* rules or an excluded path (ipSecurityCheck.Check asks for bans first and  *)
(* runs on excluded paths); a handshake knows no bypass at all.              *)
BanHolds ==
    Judged /\ accessQuestion.banned /\ accessQuestion.ip # "" =>
      /\ Admitted => accessQuestion.passive \/ accessQuestion.bypass \cap {"ip_ban", "all"} # {}
      /\ accessVerdict.socket = "closed"

(* Adding the client to the blacklist never admits a client that was kept    *)
(* out, and keeps out every client whose address rules are consulted: the    *)
(* whitelist does not win over the blacklist (checkGlobal).                  *)
BlacklistWins ==
    Judged /\ accessQuestion.ip \notin {"", "junk"} =>
      LET listed == Http([accessQuestion EXCEPT !.black = @ \cup {accessQuestion.ip}])
      IN /\ ~Admitted => listed.denied # "none"
         /\ ~accessQuestion.passive /\ (accessQuestion.scoped \/ ~Bypassed(accessQuestion))
              => listed.denied # "none"

(* Without a route, a bypass, an emergency or a blocked agent, an address    *)
(* that is not both whitelisted and blacklisted gets the same answer for a   *)
(* request as for a handshake, unless the lists hold the empty country: the  *)
(* two implementations of the address rules agree, also on unresolved        *)
(* countries and cloud providers.                                            *)
SocketAgreesWithHttp ==
    /\ Judged /\ accessQuestion.ip \notin {"", "junk"}
    /\ ~accessQuestion.passive /\ ~accessQuestion.scoped /\ ~accessQuestion.blockedAgent
    /\ ~accessQuestion.emergency /\ accessQuestion.bypass = {} /\ accessQuestion.routeBypass = {}
    /\ accessQuestion.routeWhite = {} /\ accessQuestion.routeBlack = {}
    /\ accessQuestion.routeBlocked = {} /\ accessQuestion.routeAllowed = {}
    /\ accessQuestion.routeClouds = {}
    /\ ~(accessQuestion.ip \in accessQuestion.white /\ accessQuestion.ip \in accessQuestion.black)
    /\ "" \notin accessQuestion.blocked \cup accessQuestion.allowed
    => (Admitted <=> accessVerdict.socket = "open")

(* A request that is served outside the passive mode with a flag that spares *)
(* it later checks passed the global lists: it is whitelisted or there is no *)
(* whitelist, it is not blacklisted, and its route keeps no whitelist.       *)
FlagsAreEarned ==
    Judged /\ Admitted /\ ~accessQuestion.passive
      /\ (accessVerdict.http.whitelisted \/ accessVerdict.http.exempt) =>
      /\ accessQuestion.white = {} \/ accessQuestion.ip \in accessQuestion.white
      /\ accessQuestion.ip \notin accessQuestion.black
      /\ accessQuestion.scoped \/ accessQuestion.routeWhite = {}

(* The decision on an address, whichever of its implementations takes it.    *)
AccessHolds == BanHolds /\ BlacklistWins /\ FlagsAreEarned /\ SocketAgreesWithHttp
=============================================================================
