--------------------------- MODULE DecisionsProofs ---------------------------
(***************************************************************************)
(* Proofs about decisions on one request, for any values of their          *)
(* constants: the identity behind a chain of proxies (ClientIdentity), the *)
(* address rules of a request and of a handshake (AccessDecision), the     *)
(* checks a route can switch on (RouteGuards), what is served around the   *)
(* pipeline (Dispatch), the ranges of the clouds (CloudMatch), and what    *)
(* the scan for threats leaves out (ThreatScan).                           *)
(***************************************************************************)
EXTENDS ClientIdentity, AccessDecision, RouteGuards, Dispatch, CloudMatch,
        ThreatScan, FiniteSetTheorems, SequenceTheorems, WellFoundedInduction, TLAPS

----------------------------------------------------------------------------
(* AccessDecision                                                          *)

\* Outside the passive mode a request is admitted if none of the checks finds
\* a violation.
Spotless(q, sec) == /\ ~EmergencyDenies(q) /\ ~sec.denies
                    /\ ~CloudDenies(q, sec) /\ ~AgentDenies(q, sec)

\* What the checks find and which flags they leave.
LEMMA HttpAnswers ==
    ASSUME NEW q \in AllQuestions
    PROVE  /\ Http(q).denied = "none" <=> q.passive \/ Spotless(q, IPSecurity(q))
           /\ Http(q).denied = "none" =>
                /\ Http(q).whitelisted = IPSecurity(q).whitelisted
                /\ Http(q).exempt = IPSecurity(q).exempt
<1> DEFINE sec   == IPSecurity(q)
           all   == {i \in DOMAIN Order : Violates(q, sec, i)}
           first == CHOOSE i \in all : \A j \in all : i <= j
           ended == all # {} /\ ~q.passive
           flags == IF ended /\ first = 1 THEN NoFlags ELSE sec
<1>1. Http(q) = [denied |-> IF ended THEN Order[first] ELSE "none",
                 found  |-> {Order[i] : i \in IF ended THEN {first} ELSE all},
                 whitelisted |-> flags.whitelisted, exempt |-> flags.exempt]
  BY Zenon DEF Http
<1>2. DOMAIN Order = 1..4
  BY DEF Order
<1>3. ASSUME all # {} PROVE first \in all
  <2>1. all \subseteq 1..4
    BY <1>2
  <2> HIDE DEF all
  <2>2. \E i \in all : \A j \in all : i <= j
    <3>1. CASE 1 \in all
      BY <2>1, <3>1
    <3>2. CASE 1 \notin all /\ 2 \in all
      BY <2>1, <3>2
    <3>3. CASE 1 \notin all /\ 2 \notin all /\ 3 \in all
      BY <2>1, <3>3
    <3>4. CASE 1 \notin all /\ 2 \notin all /\ 3 \notin all
      <4>1. PICK x : x \in all
        BY <1>3
      <4>2. \A j \in all : j = 4
        BY <2>1, <3>4
      <4> QED
        BY <4>1, <4>2
    <3> QED
      BY <3>1, <3>2, <3>3, <3>4
  <2> QED
    BY <2>2
<1>4. all = {} <=> Spotless(q, sec)
  <2>1. Order[1] = "emergency_mode" /\ Order[2] = "ip_security"
        /\ Order[3] = "cloud_provider" /\ Order[4] = "user_agent"
    BY DEF Order
  <2>2. /\ Violates(q, sec, 1) <=> EmergencyDenies(q)
        /\ Violates(q, sec, 2) <=> sec.denies
        /\ Violates(q, sec, 3) <=> CloudDenies(q, sec)
        /\ Violates(q, sec, 4) <=> AgentDenies(q, sec)
    <3> HIDE DEF sec
    <3> QED
      BY <2>1, Zenon DEF Violates
  <2>3. \A i \in 1..4 : i = 1 \/ i = 2 \/ i = 3 \/ i = 4
    OBVIOUS
  <2>4. {1, 2, 3, 4} = 1..4
    OBVIOUS
  <2>5. Spotless(q, sec) <=> ~Violates(q, sec, 1) /\ ~Violates(q, sec, 2)
                             /\ ~Violates(q, sec, 3) /\ ~Violates(q, sec, 4)
    <3> HIDE DEF sec
    <3> QED
      BY <2>2, Zenon DEF Spotless
  <2>6. all = {} <=> \A i \in 1..4 : ~Violates(q, sec, i)
    <3> HIDE DEF sec
    <3> QED
      BY <1>2
  <2> HIDE DEF sec, all
  <2> QED
    BY <2>3, <2>4, <2>5, <2>6
<1>5. \A i \in 1..4 : Order[i] # "none"
  BY DEF Order
<1>6. Http(q).denied = "none" <=> ~ended
  <2> HIDE DEF all, first, flags
  <2> QED
    BY <1>1, <1>2, <1>3, <1>5 DEF all
<1>7. ~ended <=> q.passive \/ Spotless(q, sec)
  <2> HIDE DEF all, sec
  <2> QED
    BY <1>4 DEF AllQuestions
<1>8. ~ended => Http(q).whitelisted = sec.whitelisted /\ Http(q).exempt = sec.exempt
  <2> HIDE DEF all, first, sec
  <2> QED
    BY <1>1
<1> QED
  <2> HIDE DEF ended, all, first, flags
  <2> QED
    BY <1>6, <1>7, <1>8

\* The address rules of a request, where they are consulted.
Consulted(q)  == q.ip # "" /\ ~BanApplies(q) /\ (q.scoped \/ ~Bypassed(q))
ByRoute(q)    == ~q.scoped /\ RouteDenies(q)
ByLists(q)    == GlobalDenies(q, ~q.scoped /\ RouteCountry(q) = "allowed")
Flagging(q)   == Consulted(q) /\ ~(ByRoute(q) /\ ~q.passive)
Whitelists(q) == q.white # {} /\ q.ip \in q.white
Mine(q)       == ~q.scoped /\ q.routeWhite # {}

LEMMA SecurityFinds ==
    ASSUME NEW q \in AllQuestions
    PROVE  /\ IPSecurity(q).denies <=>
                q.ip # "" /\ (BanApplies(q) \/ (Consulted(q) /\ (ByRoute(q) \/ ByLists(q))))
           /\ IPSecurity(q).whitelisted <=> Flagging(q) /\ Whitelists(q) /\ ~Mine(q)
           /\ IPSecurity(q).exempt <=>
                /\ Flagging(q) /\ ~Mine(q) /\ q.ip \in q.exempt
                /\ Whitelists(q) \/ ~ByLists(q)
<1> DEFINE none == Finds(FALSE, NoFlags)
           flat == Finds(TRUE, NoFlags)
           full == Finds(ByRoute(q) \/ ByLists(q), Flags(q, ByLists(q)))
<1>1. IPSecurity(q) =
        IF q.ip = "" THEN none
        ELSE IF BanApplies(q) THEN flat
        ELSE IF ~q.scoped /\ Bypassed(q) THEN none
        ELSE IF ByRoute(q) /\ ~q.passive THEN flat
        ELSE full
  BY Zenon DEF IPSecurity, ByRoute, ByLists
<1>2. none.denies = FALSE /\ none.whitelisted = FALSE /\ none.exempt = FALSE
  BY DEF Finds, NoFlags
<1>3. flat.denies = TRUE /\ flat.whitelisted = FALSE /\ flat.exempt = FALSE
  BY DEF Finds, NoFlags
<1>4. /\ full.denies = (ByRoute(q) \/ ByLists(q))
      /\ full.whitelisted = (Whitelists(q) /\ ~Mine(q))
      /\ full.exempt = ((Whitelists(q) \/ ~ByLists(q)) /\ ~Mine(q) /\ q.ip \in q.exempt)
  BY DEF Finds, Flags, Whitelists, Mine
<1> HIDE DEF none, flat, full
<1>5. CASE q.ip = "" \/ (~BanApplies(q) /\ ~q.scoped /\ Bypassed(q))
  <2>1. IPSecurity(q) = none
    BY <1>1, <1>5
  <2>2. ~Consulted(q) /\ ~Flagging(q)
    BY <1>5, Zenon DEF Consulted, Flagging
  <2> QED
    BY <1>5, <2>1, <2>2, <1>2
<1>6. CASE q.ip # "" /\ BanApplies(q)
  <2>1. IPSecurity(q) = flat
    BY <1>1, <1>6
  <2>2. ~Consulted(q) /\ ~Flagging(q)
    BY <1>6, Zenon DEF Consulted, Flagging
  <2>3. (IPSecurity(q).denies <=> TRUE) /\ ~IPSecurity(q).whitelisted /\ ~IPSecurity(q).exempt
    BY <2>1, <1>3
  <2> QED
    BY <1>6, <2>2, <2>3, Zenon
<1>7. CASE Consulted(q) /\ ByRoute(q) /\ ~q.passive
  <2>1. IPSecurity(q) = flat
    BY <1>1, <1>7 DEF Consulted
  <2>2. q.ip # "" /\ ~Flagging(q)
    BY <1>7, Zenon DEF Consulted, Flagging
  <2> QED
    BY <1>7, <2>1, <2>2, <1>3
<1>8. CASE Consulted(q) /\ ~(ByRoute(q) /\ ~q.passive)
  <2>1. IPSecurity(q) = full
    BY <1>1, <1>8 DEF Consulted
  <2>2. q.ip # "" /\ ~BanApplies(q) /\ Flagging(q)
    BY <1>8, Zenon DEF Consulted, Flagging
  <2> QED
    BY <1>8, <2>1, <2>2, <1>4
<1> QED
  BY <1>5, <1>6, <1>7, <1>8, Zenon DEF Consulted

AccessInv ==
    /\ accessQuestion \in AllQuestions
    /\ Judged => accessVerdict = [http |-> Http(accessQuestion), socket |-> Socket(accessQuestion)]

LEMMA AccessStarts == AccessInit => AccessInv
  BY AccessAssumption DEF AccessInit, AccessInv, Judged

LEMMA AccessGoesOn == AccessInv /\ [Judge]_accessVars => AccessInv'
<1> SUFFICES ASSUME AccessInv, [Judge]_accessVars PROVE AccessInv'
  OBVIOUS
<1>1. CASE Judge
  <2>1. accessQuestion' = accessQuestion
    BY <1>1 DEF Judge
  <2>2. accessVerdict' = [http |-> Http(accessQuestion), socket |-> Socket(accessQuestion)]
    BY <1>1 DEF Judge
  <2> QED
    BY <2>1, <2>2, Zenon DEF AccessInv
<1>2. CASE UNCHANGED accessVars
  <2>1. accessQuestion' = accessQuestion /\ accessVerdict' = accessVerdict
    BY <1>2 DEF accessVars
  <2> QED
    BY <2>1, Zenon DEF AccessInv, Judged
<1> QED
  BY <1>1, <1>2

LEMMA BansHold == AccessInv => BanHolds
<1> SUFFICES ASSUME AccessInv, Judged, accessQuestion.banned, accessQuestion.ip # ""
             PROVE  /\ Admitted =>
                         accessQuestion.passive \/ accessQuestion.bypass \cap {"ip_ban", "all"} # {}
                    /\ accessVerdict.socket = "closed"
  BY DEF BanHolds
<1> DEFINE q == accessQuestion
<1>1. q \in AllQuestions /\ accessVerdict = [http |-> Http(q), socket |-> Socket(q)]
  BY DEF AccessInv
<1>2. accessVerdict.http = Http(q) /\ accessVerdict.socket = Socket(q)
  BY <1>1
<1>3. accessVerdict.socket = "closed"
  BY <1>2 DEF Socket
<1>4. ASSUME Admitted, ~q.passive PROVE q.bypass \cap {"ip_ban", "all"} # {}
  <2>1. Http(q).denied = "none"
    BY <1>2, <1>4 DEF Admitted
  <2>2. Spotless(q, IPSecurity(q))
    BY <1>1, <1>4, <2>1, HttpAnswers
  <2>3. ~IPSecurity(q).denies
    BY <2>2 DEF Spotless
  <2>4. ~BanApplies(q)
    BY <1>1, <2>3, SecurityFinds
  <2> QED
    BY <2>4 DEF BanApplies
<1> QED
  BY <1>3, <1>4

LEMMA FlagsEarned == AccessInv => FlagsAreEarned
<1> SUFFICES ASSUME AccessInv, Judged, Admitted, ~accessQuestion.passive,
                    accessVerdict.http.whitelisted \/ accessVerdict.http.exempt
             PROVE  /\ accessQuestion.white = {} \/ accessQuestion.ip \in accessQuestion.white
                    /\ accessQuestion.ip \notin accessQuestion.black
                    /\ accessQuestion.scoped \/ accessQuestion.routeWhite = {}
  BY DEF FlagsAreEarned
<1> DEFINE q == accessQuestion
<1>1. q \in AllQuestions /\ accessVerdict = [http |-> Http(q), socket |-> Socket(q)]
  BY DEF AccessInv
<1>2. accessVerdict.http = Http(q)
  BY <1>1
<1>3. Http(q).denied = "none"
  BY <1>2 DEF Admitted
<1>4. Spotless(q, IPSecurity(q))
  BY <1>1, <1>3, HttpAnswers
<1>5. ~IPSecurity(q).denies
  BY <1>4 DEF Spotless
<1>6. IPSecurity(q).whitelisted \/ IPSecurity(q).exempt
  BY <1>1, <1>2, <1>3, HttpAnswers
<1>7. Flagging(q) /\ ~Mine(q)
  BY <1>1, <1>6, SecurityFinds
<1>8. ~ByLists(q)
  BY <1>1, <1>5, <1>7, SecurityFinds DEF Flagging, Consulted
<1> QED
  BY <1>7, <1>8 DEF Mine, ByLists, GlobalDenies

\* Adding q's address to the blacklist.
LEMMA ListedStays ==
    ASSUME NEW q \in AllQuestions, NEW b, b = [q EXCEPT !.black = @ \cup {q.ip}], q.ip # ""
    PROVE  /\ b \in AllQuestions
           /\ ~Spotless(q, IPSecurity(q)) => ~Spotless(b, IPSecurity(b))
           /\ q.scoped \/ ~Bypassed(q) => ~Spotless(b, IPSecurity(b))
           /\ b.passive = q.passive
<1>1. b \in AllQuestions
  <2>1. q.black \cup {q.ip} \in SUBSET STRING
    BY DEF AllQuestions
  <2> HIDE DEF AllQuestions
  <2> QED
    BY <2>1 DEF AllQuestions
<1>2. /\ b.ip = q.ip /\ b.banned = q.banned /\ b.passive = q.passive /\ b.scoped = q.scoped
      /\ b.emergency = q.emergency /\ b.blockedAgent = q.blockedAgent /\ b.geo = q.geo
      /\ b.bypass = q.bypass /\ b.routeBypass = q.routeBypass /\ b.white = q.white
      /\ b.emergencyWhite = q.emergencyWhite /\ b.exempt = q.exempt
      /\ b.routeWhite = q.routeWhite /\ b.routeBlack = q.routeBlack
      /\ b.routeBlocked = q.routeBlocked /\ b.routeAllowed = q.routeAllowed
      /\ b.clouds = q.clouds /\ b.routeClouds = q.routeClouds
  BY DEF AllQuestions
<1>3. q.ip \in b.black
  BY DEF AllQuestions
<1>4. ByLists(b)
  BY <1>2, <1>3 DEF ByLists, GlobalDenies
<1>5. /\ ByRoute(b) = ByRoute(q) /\ Consulted(b) = Consulted(q) /\ BanApplies(b) = BanApplies(q)
      /\ Flagging(b) = Flagging(q) /\ Whitelists(b) = Whitelists(q) /\ Mine(b) = Mine(q)
  BY <1>2 DEF ByRoute, RouteDenies, RouteCountry, Consulted, BanApplies, Bypassed, Flagging,
              Whitelists, Mine
<1>6. EmergencyDenies(b) = EmergencyDenies(q)
  BY <1>2 DEF EmergencyDenies
<1> DEFINE s == IPSecurity(q)
           t == IPSecurity(b)
<1>7. (s.denies => t.denies) /\ (t.whitelisted => s.whitelisted) /\ (t.exempt => s.exempt)
  <2>1. s.denies => t.denies
    BY <1>1, <1>2, <1>4, <1>5, SecurityFinds
  <2>2. t.whitelisted => s.whitelisted
    BY <1>1, <1>5, SecurityFinds
  <2>3. t.exempt => s.exempt
    BY <1>1, <1>2, <1>4, <1>5, SecurityFinds
  <2> QED
    BY <2>1, <2>2, <2>3
<1> HIDE DEF s, t
<1>8. CloudDenies(q, s) => CloudDenies(b, t)
  BY <1>2, <1>7 DEF CloudDenies, Providers
<1>9. AgentDenies(q, s) => AgentDenies(b, t)
  BY <1>2, <1>7 DEF AgentDenies
<1>10. ~Spotless(q, s) => ~Spotless(b, t)
  BY <1>6, <1>7, <1>8, <1>9 DEF Spotless
<1>11. ASSUME q.scoped \/ ~Bypassed(q) PROVE t.denies
  <2>1. BanApplies(b) \/ Consulted(b)
    BY <1>2, <1>5, <1>11 DEF Consulted
  <2> QED
    BY <1>1, <1>2, <1>4, <2>1, SecurityFinds DEF t
<1> QED
  BY <1>1, <1>2, <1>10, <1>11 DEF Spotless, s, t

LEMMA Blacklisted == AccessInv => BlacklistWins
<1> SUFFICES ASSUME AccessInv, Judged, accessQuestion.ip \notin {"", "junk"},
                    NEW b, b = [accessQuestion EXCEPT !.black = @ \cup {accessQuestion.ip}]
             PROVE  /\ ~Admitted => Http(b).denied # "none"
                    /\ /\ ~accessQuestion.passive
                       /\ accessQuestion.scoped \/ ~Bypassed(accessQuestion)
                       => Http(b).denied # "none"
  BY Zenon DEF BlacklistWins
<1> DEFINE q == accessQuestion
<1>1. q \in AllQuestions /\ accessVerdict = [http |-> Http(q), socket |-> Socket(q)]
  BY DEF AccessInv
<1>2. /\ b \in AllQuestions
      /\ ~Spotless(q, IPSecurity(q)) => ~Spotless(b, IPSecurity(b))
      /\ q.scoped \/ ~Bypassed(q) => ~Spotless(b, IPSecurity(b))
      /\ b.passive = q.passive
  BY <1>1, ListedStays
<1>3. /\ Http(q).denied = "none" <=> q.passive \/ Spotless(q, IPSecurity(q))
      /\ Http(b).denied = "none" <=> b.passive \/ Spotless(b, IPSecurity(b))
  BY <1>1, <1>2, HttpAnswers
<1>4. Admitted <=> Http(q).denied = "none"
  BY <1>1 DEF Admitted
<1> QED
  BY <1>2, <1>3, <1>4

\* An address that no route judges, in both implementations.
LEMMA ListsAgree ==
    ASSUME NEW q \in AllQuestions, q.ip \notin {"", "junk"}, ~q.banned,
           ~q.scoped, q.bypass = {}, q.routeWhite = {}, q.routeBlack = {},
           q.routeBlocked = {}, q.routeAllowed = {}, ~(q.ip \in q.white /\ q.ip \in q.black),
           "" \notin q.blocked \cup q.allowed
    PROVE  /\ Consulted(q) /\ ~ByRoute(q) /\ ~BanApplies(q)
           /\ SocketAllows(q) <=> /\ ~ByLists(q)
                                  /\ Whitelists(q) \/ CloudOf[q.ip] \notin q.clouds
<1>1. Consulted(q) /\ ~BanApplies(q)
  BY DEF Consulted, BanApplies, Bypassed
<1>2. RouteCountry(q) = "no rules"
  BY DEF RouteCountry
<1>3. ~ByRoute(q)
  BY <1>2 DEF ByRoute, RouteDenies
<1>4. ByLists(q) <=> \/ q.white # {} /\ q.ip \notin q.white
                     \/ q.ip \in q.black
                     \/ q.white = {} /\ CountryDenies(q)
  BY <1>2 DEF ByLists, GlobalDenies
<1>5. CountryDenies(q) <=> SocketCountryDenies(q)
  <2>1. Nowhere \cap q.blocked = {} /\ Nowhere \cap q.allowed = {}
    <3>1. q.blocked \in SUBSET Codes /\ q.allowed \in SUBSET Codes
      BY DEF AllQuestions
    <3> QED
      BY <3>1 DEF Codes, Nowhere
  <2> QED
    BY <2>1 DEF CountryDenies, SocketCountryDenies
<1>6. SocketAllows(q) <=> IF q.white # {} THEN q.ip \in q.white
                          ELSE /\ q.ip \notin q.black /\ ~SocketCountryDenies(q)
                               /\ CloudOf[q.ip] \notin q.clouds
  BY DEF SocketAllows
<1> QED
  BY <1>1, <1>3, <1>4, <1>5, <1>6 DEF Whitelists

LEMMA SocketAgrees == AccessInv => SocketAgreesWithHttp
<1> DEFINE q == accessQuestion
           s == IPSecurity(q)
<1> SUFFICES ASSUME AccessInv, Judged, q.ip \notin {"", "junk"},
                    ~q.passive, ~q.scoped, ~q.blockedAgent, ~q.emergency, q.bypass = {},
                    q.routeBypass = {}, q.routeWhite = {}, q.routeBlack = {},
                    q.routeBlocked = {}, q.routeAllowed = {}, q.routeClouds = {},
                    ~(q.ip \in q.white /\ q.ip \in q.black),
                    "" \notin q.blocked \cup q.allowed
             PROVE  Admitted <=> accessVerdict.socket = "open"
  BY DEF SocketAgreesWithHttp
<1>1. q \in AllQuestions /\ accessVerdict = [http |-> Http(q), socket |-> Socket(q)]
  BY DEF AccessInv
<1>2. accessVerdict.socket = "open" <=> ~q.banned /\ SocketAllows(q)
  BY <1>1 DEF Socket, Nameless
<1>3. Admitted <=> Spotless(q, s)
  <2>1. Admitted <=> Http(q).denied = "none"
    BY <1>1 DEF Admitted
  <2> QED
    BY <1>1, <2>1, HttpAnswers
<1>4. CASE q.banned
  <2>1. BanApplies(q)
    BY <1>4 DEF BanApplies
  <2>2. s.denies
    BY <1>1, <2>1, SecurityFinds
  <2> QED
    BY <1>2, <1>3, <1>4, <2>2 DEF Spotless
<1>5. CASE ~q.banned
  <2>1. /\ Consulted(q) /\ ~ByRoute(q) /\ ~BanApplies(q)
        /\ SocketAllows(q) <=> /\ ~ByLists(q)
                               /\ Whitelists(q) \/ CloudOf[q.ip] \notin q.clouds
    BY <1>1, <1>5, ListsAgree
  <2>2. s.denies <=> ByLists(q)
    BY <1>1, <2>1, SecurityFinds
  <2>3. s.whitelisted <=> Whitelists(q)
    <3>1. Flagging(q) /\ ~Mine(q)
      BY <2>1 DEF Flagging, Mine
    <3> QED
      BY <1>1, <3>1, SecurityFinds
  <2> HIDE DEF s
  <2>4. CloudDenies(q, s) <=> ~s.whitelisted /\ CloudOf[q.ip] \in q.clouds
    BY DEF CloudDenies, Providers
  <2>5. ~AgentDenies(q, s) /\ ~EmergencyDenies(q)
    BY DEF AgentDenies, EmergencyDenies
  <2> QED
    BY <1>2, <1>3, <1>5, <2>1, <2>2, <2>3, <2>4, <2>5 DEF Spotless
<1> QED
  BY <1>4, <1>5

(* Bans, blacklists and flags decide as they should, and a handshake gets    *)
(* the answer a request gets, whatever lists and countries an engine has     *)
(* (ipSecurityCheck.Check and the checks around it, GuardWebSocket).         *)
THEOREM AccessIsDecided == AccessInit /\ [][Judge]_accessVars => []AccessHolds
<1>1. AccessInv => AccessHolds
  BY BansHold, Blacklisted, FlagsEarned, SocketAgrees DEF AccessHolds
<1> QED
  BY <1>1, AccessStarts, AccessGoesOn, PTL

----------------------------------------------------------------------------
(* CloudMatch                                                              *)

\* A network keeps its region in the store.
LEMMA RegionsSurvive ==
    ASSUME NEW set, NEW n \in set.networks
    PROVE  RegionOf(Decoded(Encoded(set)), n) = RegionOf(set, n)
<1> DEFINE entries  == Encoded(set)
           regional == {e \in entries : e.region # NoRegion}
           back     == Decoded(entries)
           entry    == [network |-> n, region |-> RegionOf(set, n)]
<1>1. entry \in entries
  BY DEF Encoded
<1>2. \A e \in entries : e.network = n => e = entry
  BY DEF Encoded
<1>3. back.regions = [m \in {e.network : e \in regional} |->
                        (CHOOSE e \in regional : e.network = m).region]
  BY DEF Decoded
<1> HIDE DEF entries, back
<1>4. entry.network = n /\ entry.region = RegionOf(set, n)
  OBVIOUS
<1> HIDE DEF entry
<1>5. CASE RegionOf(set, n) = NoRegion
  <2>1. n \notin {e.network : e \in regional}
    BY <1>2, <1>4, <1>5
  <2> HIDE DEF regional
  <2>2. n \notin DOMAIN back.regions
    BY <1>3, <2>1
  <2> QED
    BY <1>5, <2>2 DEF RegionOf, entries, back
<1>6. CASE RegionOf(set, n) # NoRegion
  <2>1. entry \in regional
    BY <1>1, <1>4, <1>6
  <2>2. \A e \in regional : e.network = n => e = entry
    BY <1>2
  <2> HIDE DEF regional
  <2>3. (CHOOSE e \in regional : e.network = n) = entry
    BY <1>4, <2>1, <2>2
  <2>4. n \in {e.network : e \in regional}
    BY <1>4, <2>1
  <2>5. n \in DOMAIN back.regions /\ back.regions[n] = entry.region
    BY <1>3, <2>3, <2>4
  <2> QED
    BY <1>4, <2>5 DEF RegionOf, entries, back
<1> QED
  BY <1>5, <1>6

LEMMA NetworksSurvive ==
    ASSUME NEW set
    PROVE  Decoded(Encoded(set)).networks = set.networks
<1>1. Decoded(Encoded(set)).networks = {e.network : e \in Encoded(set)}
  BY DEF Decoded
<1>2. ASSUME NEW n \in set.networks PROVE \E e \in Encoded(set) : e.network = n
  <2> DEFINE entry == [network |-> n, region |-> RegionOf(set, n)]
  <2>1. entry \in Encoded(set) /\ entry.network = n
    BY DEF Encoded
  <2> QED
    BY <2>1
<1>3. \A e \in Encoded(set) : e.network \in set.networks
  BY DEF Encoded
<1> QED
  BY <1>1, <1>2, <1>3

LEMMA HitsSurviveStore ==
    ASSUME NEW set, NEW ip, NEW allowed
    PROVE  Hits(Decoded(Encoded(set)), ip, allowed) <=> Hits(set, ip, allowed)
<1>1. Decoded(Encoded(set)).networks = set.networks
  BY NetworksSurvive
<1>2. \A n \in set.networks : RegionOf(Decoded(Encoded(set)), n) = RegionOf(set, n)
  BY RegionsSurvive
<1> QED
  BY <1>1, <1>2 DEF Hits

\* The match of a question, against ranges as fetched and as restored.
LEMMA MatchesAlike ==
    ASSUME NEW q \in CloudQuestions
    PROVE  IsCloudIP(q.ip, q.selectors, Restored(q.ranges)) <=> IsCloudIP(q.ip, q.selectors, q.ranges)
<1> DEFINE ranges == q.ranges
           back   == Restored(ranges)
<1>1. DOMAIN back = DOMAIN ranges
  BY DEF Restored
<1>2. ASSUME NEW p \in DOMAIN ranges
      PROVE  /\ back[p] # NoRanges <=> ranges[p] # NoRanges
             /\ ranges[p] # NoRanges => back[p] = Decoded(Encoded(ranges[p]))
  BY CloudAssumption DEF Restored
<1>3. ASSUME NEW p \in DOMAIN ranges, NEW allowed, ranges[p] # NoRanges
      PROVE  Hits(back[p], q.ip, allowed) <=> Hits(ranges[p], q.ip, allowed)
  BY <1>2, <1>3, HitsSurviveStore
<1> HIDE DEF back
<1> QED
  BY <1>1, <1>2, <1>3 DEF IsCloudIP, back

MatchInv ==
    /\ cloudQuestion \in CloudQuestions
    /\ cloudVerdict # Unmatched =>
         LET q == cloudQuestion IN
         cloudVerdict = [fetched  |-> IsCloudIP(q.ip, q.selectors, q.ranges),
                         restored |-> IsCloudIP(q.ip, q.selectors, Restored(q.ranges)),
                         details  |-> Details(q.ip, q.selectors, q.ranges)]

LEMMA MatchStarts == MatchInit => MatchInv
  BY DEF MatchInit, MatchInv

LEMMA MatchGoesOn == MatchInv /\ [Match]_matchVars => MatchInv'
<1> SUFFICES ASSUME MatchInv, [Match]_matchVars PROVE MatchInv'
  OBVIOUS
<1>1. CASE Match
  BY <1>1, Zenon DEF Match, MatchInv
<1>2. CASE UNCHANGED matchVars
  <2>1. cloudQuestion' = cloudQuestion /\ cloudVerdict' = cloudVerdict
    BY <1>2 DEF matchVars
  <2> QED
    BY <2>1, Zenon DEF MatchInv
<1> QED
  BY <1>1, <1>2

LEMMA StoredAlike == MatchInv => StoredAnswersAlike
<1> SUFFICES ASSUME MatchInv, cloudVerdict # Unmatched
             PROVE  cloudVerdict.fetched = cloudVerdict.restored
  BY DEF StoredAnswersAlike
<1> DEFINE q == cloudQuestion
           fetched  == IsCloudIP(q.ip, q.selectors, q.ranges)
           restored == IsCloudIP(q.ip, q.selectors, Restored(q.ranges))
<1>1. q \in CloudQuestions
      /\ cloudVerdict = [fetched |-> fetched, restored |-> restored,
                         details |-> Details(q.ip, q.selectors, q.ranges)]
  BY Zenon DEF MatchInv
<1>2. fetched <=> restored
  BY <1>1, MatchesAlike
<1> HIDE DEF fetched, restored, q
<1> QED
  BY <1>1, <1>2

LEMMA CarvedRegionally == MatchInv => CarveOutsAreRegional
<1> DEFINE q == cloudQuestion
           Known == {p \in DOMAIN q.ranges : q.ranges[p] # NoRanges}
           Holding == UNION {{<<p, n>> : n \in {m \in q.ranges[p].networks : q.ip \in m}} :
                               p \in Known}
           Free(p, n) == \/ \A s \in q.selectors : s.provider # p
                         \/ /\ n \in DOMAIN q.ranges[p].regions
                            /\ q.ranges[p].regions[n] # NoRegion
                            /\ \E s \in q.selectors :
                                 s.provider = p /\ s.carves
                                 /\ s.region = q.ranges[p].regions[n]
           fetched == IsCloudIP(q.ip, q.selectors, q.ranges)
           details == Details(q.ip, q.selectors, q.ranges)
           named   == Blocked(q.selectors) \cap DOMAIN q.ranges
<1> SUFFICES ASSUME MatchInv, cloudVerdict # Unmatched
             PROVE  /\ cloudVerdict.fetched = (\E h \in Holding : ~Free(h[1], h[2]))
                    /\ cloudVerdict.fetched => cloudVerdict.details # {}
  BY Zenon DEF CarveOutsAreRegional
<1>1. q \in CloudQuestions
      /\ cloudVerdict = [fetched |-> fetched,
                         restored |-> IsCloudIP(q.ip, q.selectors, Restored(q.ranges)),
                         details |-> details]
  BY Zenon DEF MatchInv
<1>2. cloudVerdict.fetched = fetched /\ cloudVerdict.details = details
  <2> HIDE DEF fetched, details, q
  <2> QED
    BY <1>1
<1>3. \A h \in Holding : \E p \in Known : \E n \in q.ranges[p].networks :
         h = <<p, n>> /\ q.ip \in n
  OBVIOUS
<1>4. \A p \in Known : \A n \in q.ranges[p].networks : q.ip \in n => <<p, n>> \in Holding
  OBVIOUS
<1>5. ASSUME NEW p \in Known, NEW n \in q.ranges[p].networks
      PROVE  ~Free(p, n) <=> /\ p \in named
                             /\ RegionOf(q.ranges[p], n) \notin CarvedOut(q.selectors, p)
  <2>1. p # "" /\ p \in DOMAIN q.ranges
    BY <1>1, CloudAssumption
  <2>2. p \in named <=> \E s \in q.selectors : s.provider = p
    BY <2>1 DEF Blocked
  <2>3. RegionOf(q.ranges[p], n) \in CarvedOut(q.selectors, p) <=>
          /\ n \in DOMAIN q.ranges[p].regions /\ q.ranges[p].regions[n] # NoRegion
          /\ \E s \in q.selectors :
               s.provider = p /\ s.carves /\ s.region = q.ranges[p].regions[n]
    BY DEF CarvedOut, RegionOf
  <2> QED
    BY <2>2, <2>3
<1>6. fetched <=> \E p \in named : \E n \in q.ranges[p].networks :
                     /\ q.ranges[p] # NoRanges /\ q.ip \in n
                     /\ RegionOf(q.ranges[p], n) \notin CarvedOut(q.selectors, p)
  BY DEF IsCloudIP, Hits
<1>7. fetched => details # {}
  <2>1. ASSUME fetched PROVE details # {}
    <3>1. PICK p \in named : q.ranges[p] # NoRanges /\ \E n \in q.ranges[p].networks : q.ip \in n
      BY <1>6, <2>1
    <3> QED
      BY <3>1 DEF Details
  <2> QED
    BY <2>1
<1>8. ASSUME fetched PROVE \E h \in Holding : ~Free(h[1], h[2])
  <2>1. PICK p \in named : \E n \in q.ranges[p].networks :
                     /\ q.ranges[p] # NoRanges /\ q.ip \in n
                     /\ RegionOf(q.ranges[p], n) \notin CarvedOut(q.selectors, p)
    BY <1>6, <1>8
  <2>2. PICK n \in q.ranges[p].networks :
                     /\ q.ranges[p] # NoRanges /\ q.ip \in n
                     /\ RegionOf(q.ranges[p], n) \notin CarvedOut(q.selectors, p)
    BY <2>1
  <2>3. p \in Known
    BY <2>2
  <2>4. <<p, n>> \in Holding
    BY <1>4, <2>2, <2>3
  <2>5. ~Free(p, n)
    BY <1>5, <2>2, <2>3
  <2> HIDE DEF Holding, Free
  <2> QED
    BY <2>4, <2>5
<1>9. ASSUME NEW h \in Holding, ~Free(h[1], h[2]) PROVE fetched
  <2>1. PICK p \in Known : \E n \in q.ranges[p].networks : h = <<p, n>> /\ q.ip \in n
    BY <1>3, <1>9
  <2>2. PICK n \in q.ranges[p].networks : h = <<p, n>> /\ q.ip \in n
    BY <2>1
  <2>3. ~Free(p, n)
    BY <1>9, <2>2
  <2>4. p \in named /\ RegionOf(q.ranges[p], n) \notin CarvedOut(q.selectors, p)
    BY <1>5, <2>3
  <2> QED
    BY <1>6, <2>2, <2>4
<1> DEFINE unfreed == \E h \in Holding : ~Free(h[1], h[2])
<1>10. fetched <=> unfreed
  BY <1>8, <1>9, Zenon
<1>11. fetched \in BOOLEAN /\ unfreed \in BOOLEAN
  BY Zenon DEF IsCloudIP
<1> HIDE DEF fetched, unfreed, details
<1>12. cloudVerdict.fetched = unfreed /\ (cloudVerdict.fetched => cloudVerdict.details # {})
  BY <1>2, <1>7, <1>10, <1>11
<1> QED
  BY <1>12, Zenon DEF unfreed

(* An address is blocked exactly by the networks of blocked providers that   *)
(* are carved out by no selector, with the ranges a worker fetched as with   *)
(* those it took from the store (IsCloudIP, encodeCachedRanges,              *)
(* decodeCachedEntries), whatever the ranges and the selectors are.          *)
THEOREM MatchIsRight == MatchInit /\ [][Match]_matchVars => []MatchHolds
<1>1. MatchInv => MatchHolds
  BY StoredAlike, CarvedRegionally DEF MatchHolds
<1> QED
  BY <1>1, MatchStarts, MatchGoesOn, PTL

----------------------------------------------------------------------------
(* Dispatch                                                                *)

Checks(x) ==
    [answer |-> IF Refusal(x) # NoResponse THEN WithCors(Refusal(x), x)
                ELSE IF Preflight(x) THEN PreflightAnswer(x) ELSE NoResponse,
     scoped |-> Scoped(x), route |-> ~BypassesAll(x), usage |-> Counts(x)]
Sends(x, c) ==
    IF c.answer # NoResponse
    THEN [sent |-> c.answer, returns |-> FALSE, globalReturns |-> FALSE]
    ELSE [sent |-> Modified(WithCors(Response("app", TRUE), x), x),
          returns |-> ~c.scoped /\ c.route, globalReturns |-> ~c.scoped]

\* What stood in the response before the headers and the modifier.
Bare(r) == r.credentials = FALSE /\ r.origin = NoOrigin

LEMMA ResponsesAreBare ==
    ASSUME NEW by \in {"preflight", "block", "app", "modifier"}, NEW ok \in BOOLEAN
    PROVE  /\ Response(by, ok) \in AllResponses /\ Bare(Response(by, ok))
           /\ Response(by, ok).by = by
  BY DEF Response, AllResponses, Bare, Origins, Methods, Headers

LEMMA PolicyOf ==
    ASSUME NEW x \in Exchanges
    PROVE  LET p == Policy(x) IN
           /\ p.all = ("*" \in x.origins) /\ p.listed = x.origins
           /\ p.credentials = (x.credentials /\ "*" \notin x.origins)
           /\ p.credentials \in BOOLEAN /\ p.methods \in SUBSET Methods
           /\ p.headers \in SUBSET Headers /\ NamedOrigin(p, x.origin) \in Origins
<1> DEFINE conf  == Configured(x)
           creds == x.credentials /\ "*" \notin x.origins
           p     == Policy(x)
<1>1. /\ {"GET"} \in SUBSET Methods /\ "*" \in Origins /\ x.methods \in SUBSET Methods
      /\ x.headers \in SUBSET Headers /\ x.credentials \in BOOLEAN /\ x.origin \in Origins
  BY DispatchAssumption DEF Methods, Headers, Origins
<1> DEFINE methods == IF x.methods = {} THEN {"GET"} ELSE x.methods
           all     == "*" \in x.origins
<1>2. conf = [all |-> all, listed |-> x.origins, methods |-> methods,
              headers |-> x.headers, credentials |-> x.credentials]
  BY Zenon DEF Configured
<1>3. p = [conf EXCEPT !.credentials = creds]
  BY Zenon DEF Policy
<1>4. methods \in SUBSET Methods /\ creds \in BOOLEAN
  <2>1. methods \in SUBSET Methods
    BY <1>1
  <2>2. creds \in BOOLEAN
    BY Zenon
  <2> QED
    BY <2>1, <2>2
<1> HIDE DEF p, conf, methods, creds, all
<1>5. /\ p.all = all /\ p.listed = x.origins /\ p.credentials = creds
      /\ p.methods = methods /\ p.headers = x.headers
  BY <1>2, <1>3
<1>6. NamedOrigin(p, x.origin) \in Origins
  <2>1. NamedOrigin(p, x.origin) = "*" \/ NamedOrigin(p, x.origin) = x.origin
    BY Zenon DEF NamedOrigin
  <2> QED
    BY <1>1, <2>1
<1> QED
  BY <1>1, <1>4, <1>5, <1>6 DEF p, all, creds

\* What the policy of x adds to a response.
LEMMA CorsAdds ==
    ASSUME NEW x \in Exchanges, NEW r \in AllResponses, Bare(r)
    PROVE  LET p == Policy(x) c == WithCors(r, x) IN
           /\ c \in AllResponses /\ c.by = r.by
           /\ IF ~x.cors \/ x.origin = NoOrigin \/ ~Allowed(p, x.origin) THEN Bare(c)
              ELSE /\ c.origin = NamedOrigin(p, x.origin)
                   /\ c.credentials = p.credentials /\ c.methods = p.methods
<1> DEFINE p == Policy(x)
           c == WithCors(r, x)
           headers == IF "*" \in p.headers THEN {"*"} ELSE p.headers
           named == [r EXCEPT !.origin = NamedOrigin(p, x.origin), !.credentials = p.credentials,
                              !.methods = p.methods, !.headers = headers]
<1>1. c = IF ~x.cors \/ x.origin = NoOrigin \/ ~Allowed(p, x.origin) THEN r ELSE named
  BY Zenon DEF WithCors
<1>2. /\ p.credentials \in BOOLEAN /\ p.methods \in SUBSET Methods /\ p.headers \in SUBSET Headers
      /\ NamedOrigin(p, x.origin) \in Origins
  BY PolicyOf
<1>3. headers \in SUBSET Headers
  BY <1>2 DEF Headers
<1> HIDE DEF p, headers
<1>4. /\ named \in AllResponses /\ named.by = r.by
      /\ named.origin = NamedOrigin(p, x.origin)
      /\ named.credentials = p.credentials /\ named.methods = p.methods
  BY <1>2, <1>3 DEF AllResponses
<1> HIDE DEF named, c
<1> QED
  BY <1>1, <1>4 DEF p, c

LEMMA PreflightAnswers ==
    ASSUME NEW x \in Exchanges
    PROVE  LET p == Policy(x) a == PreflightAnswer(x) IN
           /\ a \in AllResponses /\ a.by = "preflight"
           /\ a.ok => Allowed(p, x.origin) /\ x.method \in p.methods
           /\ a.origin = IF Allowed(p, x.origin) THEN NamedOrigin(p, x.origin) ELSE NoOrigin
           /\ a.credentials = p.credentials
<1> DEFINE p == Policy(x)
           a == PreflightAnswer(x)
           fine == /\ Allowed(p, x.origin) /\ x.method \in p.methods
                   /\ "*" \in p.headers \/ x.asked \subseteq p.headers
           origin == IF Allowed(p, x.origin) THEN NamedOrigin(p, x.origin) ELSE NoOrigin
           headers == IF "*" \in p.headers THEN x.asked ELSE {}
<1>1. a = [by |-> "preflight", ok |-> fine, origin |-> origin, credentials |-> p.credentials,
           methods |-> p.methods, headers |-> headers]
  BY Zenon DEF PreflightAnswer
<1>2. /\ p.credentials \in BOOLEAN /\ p.methods \in SUBSET Methods
      /\ headers \in SUBSET Headers /\ origin \in Origins
  <2>1. x.asked \in SUBSET Headers /\ NoOrigin \in Origins
    BY DEF Headers, Origins
  <2> QED
    BY <2>1, PolicyOf
<1>3. fine \in BOOLEAN /\ (fine => Allowed(p, x.origin) /\ x.method \in p.methods)
  OBVIOUS
<1> HIDE DEF p, fine, origin, headers
<1>4. /\ a \in AllResponses /\ a.by = "preflight" /\ a.ok = fine /\ a.origin = origin
      /\ a.credentials = p.credentials
  <2>1. /\ a.by = "preflight" /\ a.ok = fine /\ a.origin = origin
        /\ a.credentials = p.credentials
    BY <1>1
  <2>2. a \in AllResponses
    BY <1>1, <1>2, <1>3 DEF AllResponses
  <2> QED
    BY <2>1, <2>2
<1> HIDE DEF a
<1> QED
  BY <1>3, <1>4 DEF p, a, origin

LEMMA RefusalIs ==
    ASSUME NEW x \in Exchanges
    PROVE  /\ Refusal(x) = NoResponse <=> BypassesAll(x) \/ ~x.blocks[Scoped(x)]
           /\ Refusal(x) # NoResponse =>
                /\ Refusal(x) \in AllResponses /\ Bare(Refusal(x))
                /\ Refusal(x).by = IF x.modifier = "replaces" THEN "modifier" ELSE "block"
<1> DEFINE r == Modified(Response("block", FALSE), x)
<1>1. r \in AllResponses /\ Bare(r)
      /\ r.by = IF x.modifier = "replaces" THEN "modifier" ELSE "block"
  <2>1. /\ Response("block", FALSE) \in AllResponses /\ Bare(Response("block", FALSE))
        /\ Response("block", FALSE).by = "block"
    BY ResponsesAreBare
  <2>2. /\ Response("modifier", TRUE) \in AllResponses /\ Bare(Response("modifier", TRUE))
        /\ Response("modifier", TRUE).by = "modifier"
    BY ResponsesAreBare
  <2>3. r = IF x.modifier = "replaces" THEN Response("modifier", TRUE) ELSE Response("block", FALSE)
    BY DEF Modified
  <2> HIDE DEF r
  <2> QED
    BY <2>1, <2>2, <2>3
<1>2. r # NoResponse
  BY <1>1, DispatchAssumption
<1>3. Refusal(x) = IF ~BypassesAll(x) /\ x.blocks[Scoped(x)] THEN r ELSE NoResponse
  BY Zenon DEF Refusal
<1> HIDE DEF r
<1> QED
  BY <1>1, <1>2, <1>3

DispatchInv ==
    /\ exchange \in Exchanges
    /\ checked # NotYet => checked = Checks(exchange)
    /\ response # NotYet => checked # NotYet /\ response = Sends(exchange, Checks(exchange))

LEMMA DispatchStarts == DispatchInit => DispatchInv
  BY DEF DispatchInit, DispatchInv

LEMMA DispatchGoesOn == DispatchInv /\ [DispatchNext]_dispatchVars => DispatchInv'
<1> SUFFICES ASSUME DispatchInv, [DispatchNext]_dispatchVars PROVE DispatchInv'
  OBVIOUS
<1>1. CASE Check
  <2>1. /\ checked = NotYet /\ checked' = Checks(exchange)
        /\ exchange' = exchange /\ response' = response
    BY <1>1, Zenon DEF Check, Checks
  <2> QED
    BY <2>1, Zenon DEF DispatchInv
<1>2. CASE ProcessResponse
  <2>1. /\ checked # NotYet /\ response' = Sends(exchange, checked)
        /\ exchange' = exchange /\ checked' = checked
    BY <1>2, Zenon DEF ProcessResponse, Sends
  <2> QED
    BY <2>1, Zenon DEF DispatchInv
<1>3. CASE UNCHANGED dispatchVars
  <2>1. exchange' = exchange /\ checked' = checked /\ response' = response
    BY <1>3 DEF dispatchVars
  <2> QED
    BY <2>1, Zenon DEF DispatchInv
<1> QED
  BY <1>1, <1>2, <1>3 DEF DispatchNext

\* What is sent when the pipeline refuses, when it does not and the request is
\* a preflight, and when the application answers.
LEMMA Sent ==
    ASSUME NEW x \in Exchanges
    PROVE  LET a == Checks(x).answer s == Sends(x, Checks(x)) IN
           /\ Refusal(x) # NoResponse => a = WithCors(Refusal(x), x) /\ a # NoResponse
           /\ Refusal(x) = NoResponse /\ Preflight(x) => a = PreflightAnswer(x) /\ a # NoResponse
           /\ Refusal(x) = NoResponse /\ ~Preflight(x) => a = NoResponse
           /\ a # NoResponse => s.sent = a
           /\ a = NoResponse => s.sent = Modified(WithCors(Response("app", TRUE), x), x)
<1> DEFINE a == Checks(x).answer
           s == Sends(x, Checks(x))
<1>1. a = IF Refusal(x) # NoResponse THEN WithCors(Refusal(x), x)
          ELSE IF Preflight(x) THEN PreflightAnswer(x) ELSE NoResponse
  BY DEF Checks
<1>2. Refusal(x) # NoResponse => WithCors(Refusal(x), x) \in AllResponses
  BY RefusalIs, CorsAdds
<1>3. PreflightAnswer(x) \in AllResponses
  BY PreflightAnswers
<1>4. /\ a # NoResponse => s.sent = a
      /\ a = NoResponse => s.sent = Modified(WithCors(Response("app", TRUE), x), x)
  BY DEF Sends
<1> HIDE DEF a, s
<1>5. /\ Refusal(x) # NoResponse => a = WithCors(Refusal(x), x) /\ a # NoResponse
      /\ Refusal(x) = NoResponse /\ Preflight(x) => a = PreflightAnswer(x) /\ a # NoResponse
      /\ Refusal(x) = NoResponse /\ ~Preflight(x) => a = NoResponse
  BY <1>1, <1>2, <1>3, DispatchAssumption
<1> QED
  BY <1>4, <1>5 DEF a, s

\* An answer that is not the modifier's is that of a preflight, or it is bare
\* with the policy's headers.
LEMMA SentBy ==
    ASSUME NEW x \in Exchanges
    PROVE  LET g == Sends(x, Checks(x)).sent p == Policy(x) IN
           \/ g.by = "modifier" /\ Refusal(x) = NoResponse /\ ~Preflight(x) /\ Bare(g)
           \/ g.by = "preflight" /\ Refusal(x) = NoResponse /\ Preflight(x) /\ g = PreflightAnswer(x)
           \/ /\ \/ g.by \in {"block", "modifier"} /\ Refusal(x) # NoResponse
                 \/ g.by = "app" /\ Refusal(x) = NoResponse /\ ~Preflight(x)
              /\ IF ~x.cors \/ x.origin = NoOrigin \/ ~Allowed(p, x.origin) THEN Bare(g)
                 ELSE /\ g.origin = NamedOrigin(p, x.origin)
                      /\ g.credentials = p.credentials /\ g.methods = p.methods
<1> DEFINE a == Checks(x).answer
           g == Sends(x, Checks(x)).sent
           p == Policy(x)
           With(r) == WithCors(r, x)
           Dressed(c) == IF ~x.cors \/ x.origin = NoOrigin \/ ~Allowed(p, x.origin) THEN Bare(c)
                         ELSE /\ c.origin = NamedOrigin(p, x.origin)
                              /\ c.credentials = p.credentials /\ c.methods = p.methods
<1>1. ASSUME NEW r \in AllResponses, Bare(r)
      PROVE  With(r).by = r.by /\ Dressed(With(r))
  BY <1>1, CorsAdds
<1>2. CASE Refusal(x) # NoResponse
  <2>1. g = With(Refusal(x))
    BY <1>2, Sent
  <2>2. Refusal(x) \in AllResponses /\ Bare(Refusal(x)) /\ Refusal(x).by \in {"block", "modifier"}
    BY <1>2, RefusalIs
  <2>3. g.by \in {"block", "modifier"} /\ Dressed(g)
    <3> HIDE DEF g, With, Dressed
    <3> QED
      BY <1>1, <2>1, <2>2
  <2> QED
    BY <1>2, <2>3
<1>3. CASE Refusal(x) = NoResponse /\ Preflight(x)
  <2>1. g = PreflightAnswer(x)
    BY <1>3, Sent
  <2>2. PreflightAnswer(x).by = "preflight"
    BY PreflightAnswers
  <2> HIDE DEF g
  <2> QED
    BY <1>3, <2>1, <2>2 DEF g
<1>4. CASE Refusal(x) = NoResponse /\ ~Preflight(x)
  <2> DEFINE r == Response("app", TRUE)
             m == Response("modifier", TRUE)
  <2>1. g = Modified(With(r), x)
    BY <1>4, Sent
  <2>2. r \in AllResponses /\ Bare(r) /\ r.by = "app"
    BY ResponsesAreBare
  <2>3. Bare(m) /\ m.by = "modifier"
    BY ResponsesAreBare
  <2>4. g = m \/ g = With(r)
    <3> HIDE DEF g, With, r
    <3> QED
      BY <2>1, Zenon DEF Modified
  <2> HIDE DEF g, With, r, m
  <2>5. CASE g = m
    BY <1>4, <2>3, <2>5 DEF g
  <2>6. CASE g = With(r)
    <3>1. g.by = "app" /\ Dressed(g)
      <4> HIDE DEF Dressed
      <4> QED
        BY <1>1, <2>2, <2>6
    <3> QED
      BY <1>4, <3>1 DEF g
  <2> QED
    BY <2>4, <2>5, <2>6
<1> QED
  BY <1>2, <1>3, <1>4

\* What an answered exchange has.
LEMMA AnsweredHas ==
    ASSUME DispatchInv, Answered
    PROVE  /\ exchange \in Exchanges
           /\ checked.answer = Checks(exchange).answer /\ checked.usage = Counts(exchange)
           /\ response = Sends(exchange, Checks(exchange))
  BY DEF DispatchInv, Answered, Checks

LEMMA Explained == DispatchInv => ServedIsExplained
<1> DEFINE x == exchange
<1> SUFFICES ASSUME DispatchInv, Answered, x.blocks[FALSE],
                    checked.answer \in {NoResponse, PreflightAnswer(x)}
             PROVE  /\ ~Preflight(x)
                    /\ \/ x.excluded /\ ~x.blocks[TRUE]
                       \/ x.bypassAll /\ ~x.passive
  BY DEF ServedIsExplained
<1>1. x \in Exchanges /\ checked.answer = Checks(x).answer
  BY AnsweredHas
<1> HIDE DEF x
<1>2. x.excluded \in BOOLEAN /\ x.preflight \in BOOLEAN /\ x.cors \in BOOLEAN
  BY <1>1, DispatchAssumption
<1>3. Refusal(x) = NoResponse
  <2>1. SUFFICES ASSUME Refusal(x) # NoResponse PROVE FALSE
    OBVIOUS
  <2>2. checked.answer = WithCors(Refusal(x), x) /\ checked.answer # NoResponse
    BY <1>1, <2>1, Sent
  <2>3. Refusal(x) \in AllResponses /\ Bare(Refusal(x)) /\ Refusal(x).by # "preflight"
    BY <1>1, <2>1, RefusalIs
  <2>4. WithCors(Refusal(x), x).by # "preflight"
    BY <1>1, <2>3, CorsAdds
  <2>5. PreflightAnswer(x).by = "preflight"
    BY <1>1, PreflightAnswers
  <2> QED
    BY <2>2, <2>4, <2>5
<1>4. BypassesAll(x) \/ ~x.blocks[Scoped(x)]
  BY <1>1, <1>3, RefusalIs
<1>5. ~Preflight(x)
  <2>1. Preflight(x) => ~BypassesAll(x) /\ Scoped(x) = FALSE
    BY DEF BypassesAll, Scoped
  <2> QED
    BY <1>4, <2>1
<1>6. Scoped(x) = x.excluded
  BY <1>2, <1>5 DEF Scoped
<1> QED
  BY <1>2, <1>4, <1>5, <1>6 DEF BypassesAll

LEMMA RefusalsRemain == DispatchInv => RefusalsStay
<1> DEFINE x == exchange
<1> SUFFICES ASSUME DispatchInv, Answered, response.sent.by = "app"
             PROVE  BypassesAll(x) \/ ~x.blocks[x.excluded]
  BY DEF RefusalsStay
<1>1. x \in Exchanges /\ response = Sends(x, Checks(x))
  BY AnsweredHas
<1> HIDE DEF x
<1>2. Refusal(x) = NoResponse /\ ~Preflight(x)
  BY <1>1, SentBy
<1>3. BypassesAll(x) \/ ~x.blocks[Scoped(x)]
  BY <1>1, <1>2, RefusalIs
<1>4. Scoped(x) = x.excluded
  <2>1. x.excluded \in BOOLEAN
    BY <1>1, DispatchAssumption
  <2> QED
    BY <1>2, <2>1 DEF Scoped
<1> QED
  BY <1>3, <1>4

LEMMA CredentialsListed == DispatchInv => CredentialsAreOfListed
<1> DEFINE x == exchange
           g == response.sent
           p == Policy(x)
<1> SUFFICES ASSUME DispatchInv, Answered, g.credentials, g.origin # NoOrigin
             PROVE  g.origin \in x.origins \ {"*"} /\ g.origin = x.origin
  BY DEF CredentialsAreOfListed
<1>1. x \in Exchanges /\ g = Sends(x, Checks(x)).sent
  BY AnsweredHas
<1> HIDE DEF x, g
<1>2. ~Bare(g)
  BY DEF Bare
<1>3. g.credentials = p.credentials /\ Allowed(p, x.origin) /\ g.origin = NamedOrigin(p, x.origin)
  <2>1. CASE g = PreflightAnswer(x)
    BY <1>1, <2>1, PreflightAnswers
  <2>2. CASE g # PreflightAnswer(x)
    BY <1>1, <1>2, <2>2, SentBy
  <2> QED
    BY <2>1, <2>2
<1>4. p.all = ("*" \in x.origins) /\ p.listed = x.origins
      /\ p.credentials = (x.credentials /\ "*" \notin x.origins)
  BY <1>1, PolicyOf
<1>5. ~p.all /\ "*" \notin x.origins
  BY <1>3, <1>4
<1>6. x.origin \in x.origins
  BY <1>3, <1>4, <1>5 DEF Allowed
<1> HIDE DEF p
<1>7. g.origin = x.origin
  BY <1>3, <1>5 DEF NamedOrigin
<1> QED
  BY <1>5, <1>6, <1>7

LEMMA Foretold == DispatchInv => PreflightForetells
<1> DEFINE x == exchange
           g == response.sent
           p == Policy(x)
           told == PreflightAnswer(x)
<1> SUFFICES ASSUME DispatchInv, Answered, x.cors, x.origin # NoOrigin, g.by \in {"block", "app"}
             PROVE  /\ told.origin = g.origin
                    /\ told.ok => /\ g.origin \in {"*", x.origin} /\ x.method \in g.methods
                                  /\ g.credentials = told.credentials
  BY Zenon DEF PreflightForetells
<1>1. x \in Exchanges /\ g = Sends(x, Checks(x)).sent
  BY AnsweredHas
<1> HIDE DEF x, g
<1>2. IF ~Allowed(p, x.origin) THEN Bare(g)
      ELSE /\ g.origin = NamedOrigin(p, x.origin)
           /\ g.credentials = p.credentials /\ g.methods = p.methods
  BY <1>1, SentBy
<1>3. /\ told.ok => Allowed(p, x.origin) /\ x.method \in p.methods
      /\ told.origin = IF Allowed(p, x.origin) THEN NamedOrigin(p, x.origin) ELSE NoOrigin
      /\ told.credentials = p.credentials
  BY <1>1, PreflightAnswers
<1>4. NamedOrigin(p, x.origin) \in {"*", x.origin}
  BY Zenon DEF NamedOrigin
<1> HIDE DEF p, told
<1>5. CASE Allowed(p, x.origin)
  BY <1>2, <1>3, <1>4, <1>5
<1>6. CASE ~Allowed(p, x.origin)
  BY <1>2, <1>3, <1>6 DEF Bare
<1> QED
  BY <1>5, <1>6

LEMMA CountedServed == DispatchInv => CountedIsServed
<1> DEFINE x == exchange
<1> SUFFICES ASSUME DispatchInv, Answered, checked.usage
             PROVE  response.returns /\ response.globalReturns /\ checked.answer = NoResponse
  BY DEF CountedIsServed
<1>1. x \in Exchanges /\ checked.answer = Checks(x).answer /\ checked.usage = Counts(x)
      /\ response = Sends(x, Checks(x))
  BY AnsweredHas
<1> HIDE DEF x
<1>2. ~Preflight(x) /\ ~BypassesAll(x) /\ ~Scoped(x) /\ Refusal(x) = NoResponse
  BY <1>1 DEF Counts
<1>3. Checks(x).answer = NoResponse
  BY <1>1, <1>2, Sent
<1>4. ~Checks(x).scoped /\ Checks(x).route
  <2>1. Checks(x).scoped = Scoped(x) /\ Checks(x).route = ~BypassesAll(x)
    BY DEF Checks
  <2> QED
    BY <1>2, <2>1, Zenon
<1>5. Sends(x, Checks(x)).returns /\ Sends(x, Checks(x)).globalReturns
  BY <1>3, <1>4 DEF Sends
<1> QED
  BY <1>1, <1>3, <1>5

(* For any configuration and request: only an excluded path or a bypass      *)
(* gets a refused request served, no modifier takes a refusal back, and the  *)
(* headers of a preflight, of a refusal and of a served response are of one  *)
(* policy (Engine.Check, ProcessResponse, newCORSPolicy, applyModifier).     *)
THEOREM DispatchIsRight == DispatchInit /\ [][DispatchNext]_dispatchVars => []DispatchHolds
<1>1. DispatchInv => DispatchHolds
  BY Explained, RefusalsRemain, CredentialsListed, Foretold, CountedServed DEF DispatchHolds
<1> QED
  BY <1>1, DispatchStarts, DispatchGoesOn, PTL

----------------------------------------------------------------------------
(* RouteGuards                                                             *)

GuardsInv ==
    /\ guardQuestion \in GuardQuestions
    /\ Guarded => /\ guardVerdict.status = Answer(guardQuestion)
                  /\ guardVerdict.principal =
                       (guardQuestion.check = "authentication" /\ Principal(guardQuestion))

LEMMA GuardsStart == GuardsInit => GuardsInv
  BY DEF GuardsInit, GuardsInv, Guarded

LEMMA GuardsGoOn == GuardsInv /\ [Guard]_guardVars => GuardsInv'
<1> SUFFICES ASSUME GuardsInv, [Guard]_guardVars PROVE GuardsInv'
  OBVIOUS
<1>1. CASE Guard
  <2> DEFINE q == guardQuestion
             principal == q.check = "authentication" /\ Principal(q)
  <2>1. guardVerdict' = [status |-> Answer(q), principal |-> principal] /\ guardQuestion' = q
    BY <1>1, Zenon DEF Guard
  <2> HIDE DEF principal
  <2>2. guardVerdict'.status = Answer(q) /\ guardVerdict'.principal = principal
    BY <2>1
  <2> QED
    BY <2>1, <2>2, Zenon DEF GuardsInv, principal
<1>2. CASE UNCHANGED guardVars
  <2>1. guardQuestion' = guardQuestion /\ guardVerdict' = guardVerdict
    BY <1>2 DEF guardVars
  <2> QED
    BY <2>1, Zenon DEF GuardsInv, Guarded
<1> QED
  BY <1>1, <1>2

\* The check that a question names is the one that answers it.
LEMMA AnswerOf ==
    ASSUME NEW q
    PROVE  /\ q.check = "https"          => Answer(q) = Https(q)
           /\ q.check = "size_content"   => Answer(q) = SizeContent(q)
           /\ q.check = "headers"        => Answer(q) = RequiredHeaders(q)
           /\ q.check = "authentication" => Answer(q) = Authentication(q)
           /\ q.check = "referrer"       => Answer(q) = Referrer(q)
           /\ q.check = "time_window"    => Answer(q) = TimeWindow(q)
           /\ q.check = "user_agent"     => Answer(q) = UserAgent(q)
           /\ q.check = "custom"         => Answer(q) = Custom(q)
  BY DEF Answer

\* Outside the passive mode a refusal is one.
LEMMA RefusalsRefuse ==
    ASSUME NEW q, ~q.passive
    PROVE  Refused(q, 401) # Proceed /\ Refused(q, 403) # Proceed /\ Refused(q, 301) # Proceed
  BY DEF Refused, Proceed

LEMMA ServedVerified == GuardsInv => ServedIsVerified
<1> DEFINE q == guardQuestion
<1>0. ~q.passive => Refused(q, 401) # Proceed
  BY RefusalsRefuse
<1> SUFFICES ASSUME GuardsInv, Asked("authentication"), LetThrough, ~q.passive,
                    q.headerScheme = "", q.auth # "" \/ q.keyRequired
             PROVE  /\ guardVerdict.principal
                    /\ "accepts" \in {q.verifier, q.globalVerifier}
  BY DEF ServedIsVerified
<1> DEFINE verified == IF q.auth # "" THEN Credential(q.header, q.auth) ELSE q.key
<1>1. q.check = "authentication" /\ Answer(q) = Proceed
      /\ guardVerdict.principal = (q.check = "authentication" /\ Principal(q))
  BY DEF GuardsInv, Asked, LetThrough
<1>2. Authentication(q) = Proceed
  BY <1>1, AnswerOf
<1>3. Authentication(q) = IF verified # "" /\ Verifier(q) = "accepts" THEN Proceed
                          ELSE Refused(q, 401)
  <2> HIDE DEF verified
  <2> QED
    BY Zenon DEF Authentication, verified
<1> HIDE DEF verified
<1>4. verified # "" /\ Verifier(q) = "accepts"
  BY <1>0, <1>2, <1>3
<1>5. Principal(q)
  BY <1>4, Zenon DEF Principal, verified
<1>6. "accepts" \in {q.verifier, q.globalVerifier}
  BY <1>4 DEF Verifier
<1> QED
  BY <1>1, <1>5, <1>6, Zenon

\* The clock, modulo a day.
LEMMA ArcOf ==
    ASSUME NEW m \in Nat \ {0}, NEW a \in 0..(m - 1), NEW b \in 0..(m - 1)
    PROVE  (a - b) % m = IF a >= b THEN a - b ELSE a - b + m
<1>1. CASE a >= b
  <2> DEFINE d == a - b
  <2>1. d \in 0..(m - 1)
    BY <1>1
  <2> HIDE DEF d
  <2>2. d % m = d
    BY <2>1, Z3
  <2> QED
    BY <1>1, <2>2 DEF d
<1>2. CASE a < b
  <2> DEFINE d == a - b
  <2>1. d \in Int /\ -m <= d /\ d < 0
    BY <1>2
  <2> HIDE DEF d
  <2>2. d % m = d + m
    BY <2>1, Z3
  <2> QED
    BY <1>2, <2>2 DEF d
<1> QED
  BY <1>1, <1>2

LEMMA WindowArc == GuardsInv => WindowIsAnArc
<1> DEFINE q == guardQuestion
<1> SUFFICES ASSUME GuardsInv, Asked("time_window"), ~q.passive, q.start # Absent, q.end # Absent
             PROVE  LetThrough <=> (q.now - q.start) % Minutes <= (q.end - q.start) % Minutes
  BY Zenon DEF WindowIsAnArc
<1>1. q \in GuardQuestions /\ q.check = "time_window" /\ guardVerdict.status = Answer(q)
  BY DEF GuardsInv, Asked
<1>2. /\ Minutes \in Nat \ {0} /\ q.start \in 0..(Minutes - 1)
      /\ q.end \in 0..(Minutes - 1) /\ q.now \in 0..(Minutes - 1)
  BY <1>1, GuardsAssumption
<1>3. LetThrough <=> Inside(q.start, q.end, q.now)
  <2>1. Refused(q, 403) # Proceed
    BY RefusalsRefuse
  <2>2. TimeWindow(q) = IF Inside(q.start, q.end, q.now) THEN Proceed ELSE Refused(q, 403)
    BY Zenon DEF TimeWindow
  <2>3. Answer(q) = TimeWindow(q)
    BY <1>1, AnswerOf
  <2> QED
    BY <1>1, <2>1, <2>2, <2>3 DEF LetThrough
<1> DEFINE start == q.start
           end   == q.end
           now   == q.now
<1> HIDE DEF start, end, now
<1>4. Inside(start, end, now) <=> (now - start) % Minutes <= (end - start) % Minutes
  <2>1. /\ (now - start) % Minutes = IF now >= start THEN now - start ELSE now - start + Minutes
        /\ (end - start) % Minutes = IF end >= start THEN end - start ELSE end - start + Minutes
    BY <1>2, ArcOf DEF start, end, now
  <2>2. Minutes \in Nat /\ start \in 0..(Minutes - 1) /\ end \in 0..(Minutes - 1)
        /\ now \in 0..(Minutes - 1)
    BY <1>2 DEF start, end, now
  <2> QED
    BY <2>1, <2>2 DEF Inside
<1> QED
  BY <1>3, <1>4 DEF start, end, now

LEMMA PlainBehindProxy == GuardsInv => PlainOnlyBehindProxy
<1> DEFINE q == guardQuestion
<1> SUFFICES ASSUME GuardsInv, Asked("https"), LetThrough, ~q.passive, q.scheme # "https",
                    IF q.route THEN q.routeRequires ELSE q.enforced
             PROVE  q.peerTrusted /\ q.proto = "https"
  BY Zenon DEF PlainOnlyBehindProxy
<1>1. q.check = "https" /\ Answer(q) = Proceed
  BY DEF GuardsInv, Asked, LetThrough
<1>2. Https(q) = Proceed
  BY <1>1, AnswerOf
<1>3. Refused(q, 301) # Proceed
  BY RefusalsRefuse
<1>4. Https(q) = IF ~Secure(q) THEN Refused(q, 301) ELSE Proceed
  BY Zenon DEF Https
<1>5. Secure(q)
  BY <1>2, <1>3, <1>4
<1> QED
  BY <1>5 DEF Secure, BelievesProto

LEMMA PassiveServes == GuardsInv => PassiveRefusesNothing
<1> DEFINE q == guardQuestion
<1> SUFFICES ASSUME GuardsInv, Guarded, q.passive PROVE guardVerdict.status \in {Proceed, Panicked}
  BY DEF PassiveRefusesNothing
<1>1. q \in GuardQuestions /\ guardVerdict.status = Answer(q)
  BY DEF GuardsInv
<1>2. \A status : Refused(q, status) = Proceed
  BY DEF Refused
<1>3. /\ Https(q) = Proceed /\ RequiredHeaders(q) = Proceed /\ Authentication(q) = Proceed
      /\ Referrer(q) = Proceed /\ TimeWindow(q) = Proceed /\ UserAgent(q) = Proceed
      /\ Custom(q) = Proceed /\ SizeContent(q) \in {Proceed, Panicked}
  <2> HIDE DEF q
  <2>1. Https(q) = Proceed /\ RequiredHeaders(q) = Proceed
    BY <1>2, Zenon DEF Https, RequiredHeaders
  <2>2. Authentication(q) = Proceed /\ Referrer(q) = Proceed
    BY <1>2, Zenon DEF Authentication, Referrer
  <2>3. TimeWindow(q) = Proceed /\ UserAgent(q) = Proceed /\ Custom(q) = Proceed
    BY <1>2, Zenon DEF TimeWindow, UserAgent, Custom
  <2>4. SizeContent(q) \in {Proceed, Panicked}
    BY <1>2 DEF SizeContent
  <2> QED
    BY <2>1, <2>2, <2>3, <2>4
<1>4. q.check \in {"https", "size_content", "headers", "authentication", "referrer",
                  "time_window", "user_agent", "custom"}
  BY <1>1, GuardsAssumption
<1> QED
  BY <1>1, <1>3, <1>4, AnswerOf

(* What a route asks for holds of every request it serves, at any minute of  *)
(* a day of any length, and the passive mode refuses nothing                 *)
(* (authenticationCheck, timeWindowCheck, httpsEnforcementCheck and the      *)
(* other checks of a route).                                                 *)
THEOREM GuardsAreRight == GuardsInit /\ [][Guard]_guardVars => []GuardsHold
<1>1. GuardsInv => GuardsHold
  BY ServedVerified, WindowArc, PlainBehindProxy, PassiveServes DEF GuardsHold
<1> QED
  BY <1>1, GuardsStart, GuardsGoOn, PTL

----------------------------------------------------------------------------
(* ClientIdentity                                                          *)

\* The hops the request has passed, and the entry the first of them appended.
Passed == Hops - Len(path)
Own    == Len(chain) - Passed + 1

Entry == [ip : STRING, mapped : BOOLEAN]

PathTyped ==
    /\ route \in Seq(STRING) /\ path \in Seq(STRING) /\ Len(path) <= Hops
    /\ \A i \in 1..Hops : route[i] # NoAddress
    /\ \A i \in 1..Len(path) : path[i] = route[Passed + i]
    /\ depth \in Nat \ {0} /\ chain \in Seq(Entry) /\ Passed <= Len(chain)

\* The header ends in what the hops appended: the client and then every hop
\* but the last, which is the peer.
ChainIsOfTheWay ==
    /\ Passed > 0 => chain[Own].ip = Client
    /\ \A j \in 1..Passed - 1 : chain[Own + j].ip = route[j]
    /\ \/ peer = NoPeer /\ path = <<>> /\ Passed > 0
       \/ /\ peer \in Entry
          /\ peer.ip = IF Passed = 0 THEN Client ELSE route[Passed]

IdentityInv ==
    /\ PathTyped /\ ChainIsOfTheWay
    /\ Resolved => path = <<>> /\ identity = ExtractClientIP

LEMMA IdentityStarts ==
    ASSUME IdentityInit
    PROVE  IdentityInv
<1> USE IdentityAssumption
<1>1. NoAddress = ""
  BY Zenon DEF NoAddress
<1>2. Client \in STRING /\ Client # NoAddress
  BY <1>1, Zenon
<1>3. route \in Seq(STRING \ {"", "bad"})
  BY Zenon DEF IdentityInit
<1> HIDE IdentityAssumption
<1>4. route \in Seq(STRING) /\ \A i \in 1..Len(route) : route[i] # NoAddress
  <2> DEFINE T == STRING \ {"", "bad"}
  <2>1. \A x \in T : x \in STRING /\ x # NoAddress
    BY <1>1, Zenon
  <2>2. route \in Seq(T)
    BY <1>3, Zenon
  <2> HIDE DEF T
  <2>3. Len(route) \in Nat /\ \A i \in 1..Len(route) : route[i] \in T
    BY <2>2
  <2>4. route \in [1..Len(route) -> STRING]
    BY <2>1, <2>2, <2>3
  <2> HIDE DEF NoAddress
  <2> QED
    BY <2>1, <2>3, <2>4
<1>5. chain \in Seq(Entry)
  BY IdentityAssumption, Zenon DEF IdentityInit, Entry
<1>6. depth \in Nat \ {0}
  BY IdentityAssumption, Zenon DEF IdentityInit
<1>7. path = route /\ ~Resolved
  BY Zenon DEF IdentityInit, Resolved
<1>8. peer \in Entry /\ peer.ip = Client
  BY <1>2 DEF IdentityInit, Entry
<1>9. Passed = 0 /\ Hops = Len(route) /\ Len(route) \in Nat
  BY <1>4, <1>7 DEF Passed, Hops
<1>10. PathTyped
  BY <1>4, <1>5, <1>6, <1>7, <1>9 DEF PathTyped
<1>11. ChainIsOfTheWay
  BY <1>8, <1>9 DEF ChainIsOfTheWay
<1> QED
  BY <1>7, <1>10, <1>11 DEF IdentityInv

LEMMA NoneLeft ==
    ASSUME NEW S, NEW s \in Seq(S), Len(s) = 0
    PROVE  s = <<>>
  OBVIOUS

LEMMA EntryOf ==
    ASSUME NEW ip \in STRING, NEW mapped \in BOOLEAN, NEW e,
           e = [ip |-> ip, mapped |-> mapped]
    PROVE  e \in Entry /\ e.ip = ip
  BY DEF Entry

LEMMA IdentityRelays ==
    ASSUME IdentityInv, Relay
    PROVE  IdentityInv'
<1>1. /\ path # <<>> /\ chain' = Append(chain, peer) /\ path' = Tail(path)
      /\ route' = route /\ depth' = depth /\ identity' = identity
  BY DEF Relay
<1>2. /\ route \in Seq(STRING) /\ path \in Seq(STRING) /\ Len(path) <= Hops
      /\ depth \in Nat \ {0} /\ chain \in Seq(Entry) /\ Passed <= Len(chain)
      /\ Hops = Len(route) /\ Passed = Hops - Len(path) /\ Own = Len(chain) - Passed + 1
  BY DEF IdentityInv, PathTyped, Passed, Hops, Own
<1>3. /\ Len(path) \in Nat /\ Len(path) > 0 /\ Hops \in Nat /\ Len(chain) \in Nat
      /\ Head(path) = path[1] /\ Tail(path) \in Seq(STRING)
      /\ Len(Tail(path)) = Len(path) - 1
      /\ \A i \in 1..Len(path) - 1 : Tail(path)[i] = path[i + 1]
  BY <1>1, <1>2
<1>4. Hops' = Hops /\ Passed' = Passed + 1 /\ Passed \in Nat
  BY <1>1, <1>2, <1>3 DEF Hops, Passed
<1>5. peer \in Entry /\ peer.ip = IF Passed = 0 THEN Client ELSE route[Passed]
  BY <1>1 DEF IdentityInv, ChainIsOfTheWay
<1>6. /\ chain' \in Seq(Entry) /\ Len(chain') = Len(chain) + 1
      /\ \A i \in 1..Len(chain) : chain'[i] = chain[i]
      /\ chain'[Len(chain) + 1] = peer
  <2> HIDE DEF Entry
  <2> QED
    BY <1>1, <1>2, <1>5, AppendProperties
<1>7. Own' = Own /\ Own \in 1..Len(chain) + 1
  <2>1. Own' = Len(chain') - Passed' + 1
    BY DEF Own
  <2> QED
    BY <2>1, <1>2, <1>3, <1>4, <1>6
<1>12. \A L, n \in Nat : n <= L =>
          /\ L - n + 1 \in 1..L + 1
          /\ n > 0 => L - n + 1 \in 1..L
          /\ L - n + 1 + n = L + 1
          /\ \A j \in 1..n - 1 : L - n + 1 + j \in 1..L
  OBVIOUS
<1>13. /\ Passed > 0 => Own \in 1..Len(chain)
       /\ Own + Passed = Len(chain) + 1
       /\ \A j \in 1..Passed - 1 : Own + j \in 1..Len(chain)
  BY <1>2, <1>3, <1>4, <1>12
<1>8. path[1] = route[Passed + 1]
  BY <1>3 DEF IdentityInv, PathTyped
<1>9. PathTyped'
  <2>1. Passed' <= Len(chain')
    BY <1>2, <1>3, <1>4, <1>6
  <2>2. path' \in Seq(STRING) /\ Len(path') <= Hops
    BY <1>1, <1>2, <1>3
  <2>3. ASSUME NEW i \in 1..Len(path') PROVE path'[i] = route[Passed' + i]
    <3>1. i \in 1..Len(path) - 1 /\ i + 1 \in 1..Len(path)
      BY <1>1, <1>3
    <3>2. path'[i] = path[i + 1]
      BY <1>1, <1>3, <3>1
    <3>3. path[i + 1] = route[Passed + (i + 1)]
      BY <3>1 DEF IdentityInv, PathTyped
    <3>4. Passed + (i + 1) = Passed' + i
      BY <1>4, <3>1
    <3> QED
      BY <3>2, <3>3, <3>4
  <2>4. \A i \in 1..Hops' : route'[i] # NoAddress
    BY <1>1, <1>4 DEF IdentityInv, PathTyped
  <2> QED
    BY <1>1, <1>2, <1>4, <1>6, <2>1, <2>2, <2>3, <2>4 DEF PathTyped
<1>10. ChainIsOfTheWay'
  <2>1. chain'[Own].ip = Client
    <3>1. CASE Passed = 0
      BY <3>1, <1>2, <1>3, <1>5, <1>6
    <3>2. CASE Passed > 0
      <4>1. Own \in 1..Len(chain) /\ chain[Own].ip = Client
        BY <3>2, <1>13 DEF IdentityInv, ChainIsOfTheWay
      <4> QED
        BY <4>1, <1>6
    <3> QED
      BY <3>1, <3>2, <1>4
  <2>2. ASSUME NEW j \in 1..Passed' - 1 PROVE chain'[Own + j].ip = route[j]
    <3>1. CASE j = Passed
      <4>1. Own + j = Len(chain) + 1 /\ Passed # 0
        BY <3>1, <1>4, <1>13
      <4> QED
        BY <3>1, <4>1, <1>5, <1>6
    <3>2. CASE j # Passed
      <4>1. j \in 1..Passed - 1
        BY <3>2, <1>4
      <4>3. Own + j \in 1..Len(chain)
        BY <4>1, <1>13
      <4>2. chain[Own + j].ip = route[j]
        BY <4>1 DEF IdentityInv, ChainIsOfTheWay
      <4> QED
        BY <4>2, <4>3, <1>6
    <3> QED
      BY <3>1, <3>2
  <2>3. \/ peer' = NoPeer /\ path' = <<>>
        \/ peer' \in Entry /\ peer'.ip = route[Passed']
    <3>1. Head(path) \in STRING /\ Head(path) = route[Passed']
      BY <1>2, <1>3, <1>4, <1>8
    <3>2. CASE Len(path) = 1 /\ peer' = NoPeer
      <4>1. Tail(path) = <<>>
        <5>1. Len(Tail(path)) = 0
          BY <1>3, <3>2
        <5> QED
          BY <1>3, <5>1, NoneLeft, Zenon
      <4> QED
        BY <4>1, <3>2, <1>1
    <3>3. CASE peer' = Plain(Head(path)) \/ peer' = [ip |-> Head(path), mapped |-> TRUE]
      <4>1. peer' = [ip |-> Head(path), mapped |-> FALSE]
            \/ peer' = [ip |-> Head(path), mapped |-> TRUE]
        BY <3>3, Zenon DEF Plain
      <4> QED
        BY <3>1, <4>1, EntryOf
    <3> QED
      BY <3>2, <3>3 DEF Relay
  <2>4. Passed' > 0 /\ Passed' # 0
    BY <1>4
  <2> QED
    BY <2>1, <2>2, <2>3, <2>4, <1>1, <1>7 DEF ChainIsOfTheWay
<1>11. ~Resolved'
  BY <1>1 DEF IdentityInv, Resolved
<1> QED
  BY <1>9, <1>10, <1>11 DEF IdentityInv

LEMMA IdentityResolves ==
    ASSUME IdentityInv, Resolve
    PROVE  IdentityInv'
<1>1. /\ path' = path /\ route' = route /\ depth' = depth /\ chain' = chain /\ peer' = peer
      /\ path = <<>> /\ identity' = ExtractClientIP
  BY DEF Resolve
<1>2. PathTyped'
  BY <1>1 DEF IdentityInv, PathTyped, Passed, Hops
<1>3. ChainIsOfTheWay'
  BY <1>1 DEF IdentityInv, ChainIsOfTheWay, Passed, Hops, Own
<1>4. ExtractClientIP' = ExtractClientIP
  BY <1>1 DEF ExtractClientIP
<1> QED
  BY <1>1, <1>2, <1>3, <1>4 DEF IdentityInv

LEMMA IdentityGoesOn ==
    ASSUME IdentityInv, [IdentityNext]_identityVars
    PROVE  IdentityInv'
<1>1. CASE UNCHANGED identityVars
  <2>1. /\ path' = path /\ route' = route /\ depth' = depth /\ chain' = chain /\ peer' = peer
        /\ identity' = identity
    BY <1>1 DEF identityVars
  <2>2. PathTyped'
    BY <2>1 DEF IdentityInv, PathTyped, Passed, Hops
  <2>3. ChainIsOfTheWay'
    BY <2>1 DEF IdentityInv, ChainIsOfTheWay, Passed, Hops, Own
  <2>4. ExtractClientIP' = ExtractClientIP /\ (Resolved' <=> Resolved)
    BY <2>1 DEF ExtractClientIP, Resolved
  <2> QED
    BY <2>1, <2>2, <2>3, <2>4 DEF IdentityInv
<1> QED
  BY <1>1, IdentityRelays, IdentityResolves DEF IdentityNext

\* The greatest of some indices is one of them.
LEMMA GreatestIndex ==
    ASSUME NEW L \in Nat, NEW S, S \subseteq 1..L, S # {}
    PROVE  Max(S) \in S /\ \A x \in S : x <= Max(S)
<1> DEFINE R == OpToRel(<, Nat)
           T == {L - x : x \in S}
<1>1. IsWellFoundedOn(R, Nat)
  BY NatLessThanWellFounded
<1>2. T \subseteq Nat /\ T # {}
  <2>1. \A x \in 1..L : L - x \in Nat
    OBVIOUS
  <2>2. \A x \in S : L - x \in Nat
    BY <2>1
  <2> QED
    BY <2>2, Zenon
<1>3. \A a \in T, b \in T : b < a => <<b, a>> \in R
  BY <1>2 DEF OpToRel
<1>4. \E a \in T : \A b \in T : ~(<<b, a>> \in R)
  <2> HIDE DEF R, T
  <2> QED
    BY <1>1, <1>2, WFMin
<1>5. PICK a \in T : \A b \in T : ~(b < a)
  <2> HIDE DEF R, T
  <2> QED
    BY <1>3, <1>4, Zenon
<1>6. PICK x \in S : a = L - x
  OBVIOUS
<1>7. \A y \in S : x >= y
  <2> TAKE y \in S
  <2>1. ~(L - y < L - x)
    BY <1>5, <1>6
  <2> QED
    BY <2>1
<1>8. Max(S) \in S /\ \A y \in S : Max(S) >= y
  BY <1>7, Zenon DEF Max
<1>9. \A y \in S : y \in Int
  OBVIOUS
<1> QED
  BY <1>8, <1>9

LEMMA GreaterOf ==
    ASSUME NEW a \in Int, NEW b \in Int
    PROVE  Max({a, b}) = IF a >= b THEN a ELSE b
<1>1. \A x \in {a, b} : (\A y \in {a, b} : x >= y) <=> x = IF a >= b THEN a ELSE b
  OBVIOUS
<1> DEFINE v == IF a >= b THEN a ELSE b
<1>2. v \in {a, b}
  OBVIOUS
<1> HIDE DEF v
<1>3. \A x \in {a, b} : (\A y \in {a, b} : x >= y) <=> x = v
  BY <1>1 DEF v
<1>4. Max({a, b}) = v
  BY <1>2, <1>3, Zenon DEF Max
<1> QED
  BY <1>4 DEF v

\* An entry of the chain that is no trusted proxy, by its index.
Outside == {i \in 1..Len(chain) : ~Trusts(Canonicalised(chain[i]))}

\* What the engine knows once the request has passed all hops.
LEMMA Arrived ==
    ASSUME IdentityInv, path = <<>>, Hops > 0, Client \notin Listed \cup Ranges
    PROVE  /\ Len(chain) \in Nat /\ Hops \in Nat /\ depth \in Nat \ {0}
           /\ Own = Len(chain) - Hops + 1 /\ Own \in 1..Len(chain)
           /\ chain[Own].ip = Client /\ Own \in Outside
           /\ \A j \in 1..Hops - 1 : chain[Own + j].ip = route[j]
<1>1. Passed = Hops /\ Hops \in Nat
  <2>1. Hops = Len(route) /\ Passed = Hops - Len(path) /\ route \in Seq(STRING)
    BY DEF IdentityInv, PathTyped, Hops, Passed
  <2>2. Len(path) = 0 /\ Len(route) \in Nat
    BY <2>1, EmptySeq
  <2> QED
    BY <2>1, <2>2
<1>2. /\ Len(chain) \in Nat /\ depth \in Nat \ {0} /\ Hops <= Len(chain)
      /\ Own = Len(chain) - Hops + 1
  BY <1>1 DEF IdentityInv, PathTyped, Own
<1>3. chain[Own].ip = Client /\ \A j \in 1..Hops - 1 : chain[Own + j].ip = route[j]
  BY <1>1 DEF IdentityInv, ChainIsOfTheWay
<1>4. Own \in 1..Len(chain)
  BY <1>1, <1>2
<1>5. ~Trusts(Canonicalised(chain[Own]))
  BY <1>3 DEF Trusts, Canonicalised, Plain
<1> QED
  BY <1>1, <1>2, <1>3, <1>4, <1>5 DEF Outside

\* An entry at the client's or to its right is the client or a hop.
LEMMA OfTheWay ==
    ASSUME IdentityInv, path = <<>>, Hops > 0, Client \notin Listed \cup Ranges,
           NEW i \in Own..Len(chain)
    PROVE  /\ i = Own => chain[i].ip = Client
           /\ i # Own => \E j \in 1..Hops : chain[i].ip = route[j]
<1>1. /\ Len(chain) \in Nat /\ Hops \in Nat /\ Own = Len(chain) - Hops + 1
      /\ chain[Own].ip = Client
      /\ \A j \in 1..Hops - 1 : chain[Own + j].ip = route[j]
  BY Arrived
<1>2. CASE i # Own
  <2>1. i - Own \in 1..Hops - 1 /\ i - Own \in 1..Hops /\ Own + (i - Own) = i
    BY <1>1, <1>2
  <2> QED
    BY <1>1, <1>2, <2>1
<1> QED
  BY <1>1, <1>2

\* The walk from the right ends at the client or at a hop before it.
LEMMA WalkStopsInTime ==
    ASSUME IdentityInv, path = <<>>, Hops > 0, Client \notin Listed \cup Ranges
    PROVE  /\ FirstUnlisted(chain) \in {Client} \cup {route[i] : i \in 1..Hops}
           /\ Honest => FirstUnlisted(chain) = Client
<1>1. /\ Len(chain) \in Nat /\ Own \in Outside /\ Own \in 1..Len(chain)
  BY Arrived
<1>2. Outside \subseteq 1..Len(chain) /\ Outside # {}
  BY <1>1 DEF Outside
<1>3. Max(Outside) \in Outside /\ Own <= Max(Outside)
  <2>1. Max(Outside) \in Outside /\ \A x \in Outside : x <= Max(Outside)
    BY <1>1, <1>2, GreatestIndex
  <2> QED
    BY <1>1, <2>1
<1> DEFINE m == Max(Outside)
<1>4. FirstUnlisted(chain) = chain[m].ip
  BY <1>2, Zenon DEF FirstUnlisted, Outside
<1>5. m \in Own..Len(chain)
  <2>1. m \in 1..Len(chain) /\ Own <= m
    BY <1>2, <1>3, Zenon
  <2> HIDE DEF m
  <2> QED
    BY <1>1, <2>1
<1>6. ~Trusts(Canonicalised(chain[m]))
  BY <1>3 DEF Outside
<1> HIDE DEF m
<1>7. /\ m = Own => chain[m].ip = Client
      /\ m # Own => \E j \in 1..Hops : chain[m].ip = route[j]
  BY <1>5, OfTheWay
<1>8. ASSUME Honest PROVE m = Own
  <2>1. ASSUME NEW j \in 1..Hops, chain[m].ip = route[j] PROVE FALSE
    <3>1. chain[m].ip \in Listed \cup Ranges
      BY <1>8, <2>1 DEF Honest
    <3> QED
      BY <3>1, <1>6 DEF Trusts, Canonicalised, Plain
  <2> QED
    BY <1>7, <2>1
<1> QED
  BY <1>4, <1>7, <1>8

\* Nothing unlisted to the right of the selected entry puts it at the client's
\* or to its right.
LEMMA SelectedInTime ==
    ASSUME IdentityInv, path = <<>>, Hops > 0, Client \notin Listed \cup Ranges,
           Len(chain) >= depth, UnlistedOnTheRight(chain, depth) = {}
    PROVE  /\ Len(chain) - depth + 1 \in Own..Len(chain) /\ depth <= Hops
           /\ Selected(chain, depth) \in {Client} \cup {route[i] : i \in 1..Hops}
           /\ depth = Hops => Selected(chain, depth) = Client
<1>1. /\ Len(chain) \in Nat /\ Hops \in Nat /\ depth \in Nat \ {0}
      /\ Own = Len(chain) - Hops + 1 /\ Own \in 1..Len(chain) /\ Own \in Outside
  BY Arrived
<1>2. Max({1, Len(chain) - depth + 2}) = Len(chain) - depth + 2
  <2>1. /\ 1 \in Int /\ Len(chain) - depth + 2 \in Int
        /\ ~(1 >= Len(chain) - depth + 2)
    BY <1>1
  <2> QED
    BY <2>1, GreaterOf
<1>3. Own \notin (Len(chain) - depth + 2)..Len(chain)
  <2>1. ~Trusts(Canonicalised(chain[Own]))
    BY <1>1 DEF Outside
  <2>2. \A i \in (Len(chain) - depth + 2)..Len(chain) : Trusts(Canonicalised(chain[i]))
    BY <1>2, Zenon DEF UnlistedOnTheRight
  <2> QED
    BY <2>1, <2>2
<1>4. Len(chain) - depth + 1 \in Own..Len(chain) /\ depth <= Hops
      /\ (depth = Hops => Len(chain) - depth + 1 = Own)
  BY <1>1, <1>3
<1> DEFINE s == Len(chain) - depth + 1
<1>5. Selected(chain, depth) = chain[s].ip /\ s \in Own..Len(chain)
      /\ (depth = Hops => s = Own)
  BY <1>4 DEF Selected
<1> HIDE DEF s
<1>6. /\ s = Own => chain[s].ip = Client
      /\ s # Own => \E j \in 1..Hops : chain[s].ip = route[j]
  BY <1>5, OfTheWay
<1> QED
  BY <1>4, <1>5, <1>6

\* With the declared depth, or a larger one, the chain leads to the client.
LEMMA DepthFinds ==
    ASSUME IdentityInv, path = <<>>, Hops > 0, Client \notin Listed \cup Ranges,
           Honest, depth >= Hops, Len(chain) >= depth, NEW base
    PROVE  FromChain(base, chain, depth) = Client
<1>1. Client # "bad"
  BY IdentityAssumption, Zenon
<1>2. chain # <<>>
  <2>1. depth \in Nat \ {0} /\ Len(chain) \in Nat /\ Hops \in Nat
    BY Arrived
  <2>2. Len(chain) # 0
    BY <2>1
  <2> QED
    BY <2>2, EmptySeq
<1>3. ~(Len(chain) < depth)
  <2>1. depth \in Nat \ {0} /\ Len(chain) \in Nat
    BY Arrived
  <2> QED
    BY <2>1
<1>4. FirstUnlisted(chain) = Client
  BY WalkStopsInTime
<1>5. UnlistedOnTheRight(chain, depth) = {} => Selected(chain, depth) = Client
  <2> SUFFICES ASSUME UnlistedOnTheRight(chain, depth) = {}
               PROVE  Selected(chain, depth) = Client
    OBVIOUS
  <2>1. /\ depth \in Nat \ {0} /\ Hops \in Nat
    BY Arrived
  <2>2. /\ depth <= Hops
        /\ depth = Hops => Selected(chain, depth) = Client
    BY SelectedInTime
  <2> QED
    BY <2>1, <2>2
<1> QED
  BY <1>1, <1>2, <1>3, <1>4, <1>5, Zenon DEF FromChain

\* Whatever it falls back to, the chain leads to the client or to a hop.
LEMMA ChainKeepsToTheWay ==
    ASSUME IdentityInv, path = <<>>, Hops > 0, Client \notin Listed \cup Ranges, NEW base
    PROVE  FromChain(base, chain, depth) \in {base, Client} \cup {route[i] : i \in 1..Hops}
<1> DEFINE way == {Client} \cup {route[i] : i \in 1..Hops}
<1>1. FirstUnlisted(chain) \in way
  BY WalkStopsInTime
<1>2. Len(chain) < depth \/ Len(chain) >= depth
  <2>1. depth \in Nat \ {0} /\ Len(chain) \in Nat
    BY Arrived
  <2> QED
    BY <2>1
<1>3. ASSUME Len(chain) >= depth, UnlistedOnTheRight(chain, depth) = {}
      PROVE  Selected(chain, depth) \in way
  BY <1>3, SelectedInTime
<1> HIDE DEF way
<1>4. FromChain(base, chain, depth) \in {base} \cup way
  BY <1>1, <1>2, <1>3, Zenon DEF FromChain
<1> QED
  BY <1>4 DEF way

LEMMA PeerIsOfTheWay ==
    ASSUME IdentityInv, path = <<>>
    PROVE  /\ Hops \in Nat
           /\ Hops = 0 => peer # NoPeer /\ peer.ip = Client
           /\ Hops > 0 /\ peer # NoPeer => \E i \in 1..Hops : peer.ip = route[i]
<1>1. Passed = Hops /\ Hops \in Nat
  <2>1. Hops = Len(route) /\ Passed = Hops - Len(path) /\ route \in Seq(STRING)
    BY DEF IdentityInv, PathTyped, Hops, Passed
  <2>2. Len(path) = 0 /\ Len(route) \in Nat
    BY <2>1, EmptySeq
  <2> QED
    BY <2>1, <2>2
<1>2. ASSUME Hops = 0 PROVE peer # NoPeer /\ peer.ip = Client
  <2>1. peer.ip = Client
    BY <1>1, <1>2 DEF IdentityInv, ChainIsOfTheWay
  <2>2. Client # NoAddress
    BY IdentityAssumption, Zenon DEF NoAddress
  <2> QED
    BY <2>1, <2>2 DEF NoPeer, Plain
<1>3. ASSUME Hops > 0, peer # NoPeer PROVE \E i \in 1..Hops : peer.ip = route[i]
  <2>1. peer.ip = route[Hops] /\ Hops \in 1..Hops
    BY <1>1, <1>3 DEF IdentityInv, ChainIsOfTheWay
  <2> QED
    BY <2>1
<1> QED
  BY <1>1, <1>2, <1>3

LEMMA IdentityIsOfTheWay ==
    ASSUME IdentityInv
    PROVE  IdentityIsNotForged
<1> SUFFICES ASSUME Resolved, Client \notin Listed \cup Ranges
             PROVE  identity \in {Client, Unknown, NoAddress} \cup {route[i] : i \in 1..Hops}
  BY Zenon DEF IdentityIsNotForged
<1>1. path = <<>> /\ identity = ExtractClientIP
  BY DEF IdentityInv
<1> DEFINE hops == {route[i] : i \in 1..Hops}
<1>2. Hops \in Nat /\ (Hops = 0 => peer # NoPeer /\ peer.ip = Client)
      /\ (Hops > 0 /\ peer # NoPeer => peer.ip \in hops)
  BY <1>1, PeerIsOfTheWay
<1>3. CASE Hops = 0
  <2>1. ~Believes(peer)
    BY <1>2, <1>3 DEF Believes, Trusts
  <2>2. identity = Client
    BY <1>1, <1>2, <1>3, <2>1, Zenon DEF ExtractClientIP
  <2> QED
    BY <2>2
<1>4. CASE Hops > 0
  <2>1. /\ FromChain(Unknown, chain, depth) \in {Unknown, Client} \cup hops
        /\ FromChain(peer.ip, chain, depth) \in {peer.ip, Client} \cup hops
    BY <1>1, <1>4, ChainKeepsToTheWay
  <2> HIDE DEF hops
  <2>2. identity \in {Client, Unknown, NoAddress} \cup hops
    BY <1>1, <1>2, <1>4, <2>1, Zenon DEF ExtractClientIP
  <2> QED
    BY <2>2 DEF hops
<1> QED
  BY <1>2, <1>3, <1>4

LEMMA DepthIsEnough ==
    ASSUME IdentityInv
    PROVE  DeclaredDepthFindsClient
<1> SUFFICES ASSUME Resolved, Honest, Client \notin Listed \cup Ranges,
                    IF peer = NoPeer THEN UnixSocket ELSE Trusts(peer),
                    Hops > 0, depth >= Hops, Len(chain) >= depth
             PROVE  identity = Client
  BY Zenon DEF DeclaredDepthFindsClient
<1>1. path = <<>> /\ identity = ExtractClientIP
  BY DEF IdentityInv
<1>2. FromChain(Unknown, chain, depth) = Client /\ FromChain(peer.ip, chain, depth) = Client
  BY <1>1, DepthFinds
<1> QED
  BY <1>1, <1>2, Zenon DEF ExtractClientIP, Believes

(* Whatever the client sends and however many proxies pass the request on,   *)
(* the identity is of the way the request came, and the client's own if the  *)
(* depth covers the proxies (extractClientIP).                               *)
THEOREM IdentityIsOfTheRequest ==
    IdentityInit /\ [][IdentityNext]_identityVars => []IdentityHolds
<1>1. IdentityInv => IdentityHolds
  BY IdentityIsOfTheWay, DepthIsEnough DEF IdentityHolds
<1> QED
  BY <1>1, IdentityStarts, IdentityGoesOn, PTL

----------------------------------------------------------------------------
(* ThreatScan                                                              *)

\* The pieces of values that Sizes counts.
Pieces(values) == UNION {{v} \X (1..v.size) : v \in values}

Sized(values) == IsFiniteSet(values) /\ \A v \in values : v.size \in Nat

LEMMA PiecesOf ==
    ASSUME NEW v, NEW n \in Nat
    PROVE  IsFiniteSet({v} \X (1..n)) /\ Cardinality({v} \X (1..n)) = n
<1> DEFINE S == {v}
           T == 1..n
<1>1. IsFiniteSet(S) /\ Cardinality(S) = 1
  BY FS_Singleton
<1>2. IsFiniteSet(T) /\ Cardinality(T) = n
  BY FS_Interval
<1> HIDE DEF S, T
<1>3. IsFiniteSet(S \X T) /\ Cardinality(S \X T) = Cardinality(S) * Cardinality(T)
  BY <1>1, <1>2, FS_Product
<1>4. Cardinality(S \X T) = n
  BY <1>1, <1>2, <1>3
<1> QED
  BY <1>3, <1>4 DEF S, T

LEMMA PiecesAreFinite ==
    ASSUME NEW S, Sized(S)
    PROVE  IsFiniteSet(Pieces(S)) /\ Sizes(S) \in Nat
<1> DEFINE T == {{v} \X (1..v.size) : v \in S}
           f == [v \in S |-> {v} \X (1..v.size)]
<1>1. f \in Surjection(S, T)
  BY DEF Surjection
<1>2. \A x \in T : IsFiniteSet(x)
  <2>1. ASSUME NEW v \in S PROVE IsFiniteSet({v} \X (1..v.size))
    <3>1. v.size \in Nat
      BY DEF Sized
    <3> QED
      BY <3>1, PiecesOf
  <2> QED
    BY <2>1
<1> HIDE DEF T, f
<1>3. IsFiniteSet(T)
  BY <1>1, FS_Surjection DEF Sized
<1>4. IsFiniteSet(UNION T)
  BY <1>2, <1>3, FS_UNION
<1>5. IsFiniteSet(Pieces(S))
  BY <1>4 DEF Pieces, T
<1>6. Cardinality(Pieces(S)) \in Nat
  BY <1>5, FS_CardinalityType
<1> QED
  BY <1>5, <1>6 DEF Sizes, Pieces

LEMMA SizesAdd ==
    ASSUME NEW S, NEW v, Sized(S \cup {v}), v \notin S
    PROVE  Sizes(S \cup {v}) = Sizes(S) + v.size
<1> DEFINE new == {v} \X (1..v.size)
<1>1. Sized(S) /\ v.size \in Nat
  <2>1. IsFiniteSet(S)
    BY FS_Subset, S \in SUBSET (S \cup {v}) DEF Sized
  <2> QED
    BY <2>1 DEF Sized
<1>2. IsFiniteSet(Pieces(S)) /\ Cardinality(Pieces(S)) \in Nat
  BY <1>1, PiecesAreFinite, FS_CardinalityType
<1>3. IsFiniteSet(new) /\ Cardinality(new) = v.size
  BY <1>1, PiecesOf
<1>4. Pieces(S \cup {v}) = Pieces(S) \cup new
  BY DEF Pieces
<1>5. Pieces(S) \cap new = {}
  BY DEF Pieces
<1>6. Cardinality(Pieces(S \cup {v})) = Cardinality(Pieces(S)) + v.size
  <2> HIDE DEF new
  <2> DEFINE old == Pieces(S)
  <2>1. Cardinality(old \cap new) = 0
    BY <1>5, FS_EmptySet
  <2> HIDE DEF old
  <2>2. Cardinality(old \cup new) = Cardinality(old) + Cardinality(new) - Cardinality(old \cap new)
    BY <1>2, <1>3, FS_Union DEF old
  <2>3. Cardinality(old) \in Nat
    BY <1>2 DEF old
  <2>4. Cardinality(old \cup new) = Cardinality(old) + v.size
    BY <1>1, <1>3, <2>1, <2>2, <2>3
  <2> QED
    BY <1>4, <2>4 DEF old
<1> QED
  BY <1>6 DEF Sizes, Pieces

\* What holds of a scan that is under way or over: nothing is counted but what
\* was scanned; a value that was passed over was so with the budget spent; what
\* was scanned while the scan goes on was found clean.
ScanTyped ==
    /\ scan \in ScanRequests
    /\ left \subseteq Surface /\ scanned \subseteq Surface /\ left \cap scanned = {}
    /\ used = [values |-> used.values, chars |-> Sizes(scanned)] /\ used.values \in Nat

ScanCounts ==
    /\ Cardinality(scanned) <= MaxValues /\ Cardinality(scanned) <= used.values
    /\ Sizes(scanned) < MaxChars => Cardinality(scanned) \in {used.values, MaxValues}
    /\ Surface \subseteq left \cup scanned \/ Spent
    /\ scanned # {} => \E v \in scanned : Sizes(scanned \ {v}) < MaxChars

ScanFinds ==
    /\ found = Scanning => \A v \in scanned : v.threats = {} /\ v.forced = NotForced
    /\ found = {} => left = {} \/ \E u \in scanned : u.threats # {} /\ Effective(u) = {}

ScanInv == ScanTyped /\ ScanCounts /\ ScanFinds /\ HeaderExclusionsAddUp

LEMMA SurfaceIsSized ==
    ASSUME scan \in ScanRequests, NEW S, S \subseteq Surface
    PROVE  Sized(S) /\ Cardinality(S) \in Nat
<1>1. S \subseteq scan
  BY DEF Surface
<1>2. IsFiniteSet(scan) /\ \A v \in scan : v.size \in Nat
  BY ScanAssumption
<1> QED
  BY <1>1, <1>2, FS_Subset, FS_CardinalityType DEF Sized

LEMMA ScanStarts ==
    ASSUME ScanInit
    PROVE  ScanInv
<1>1. Sizes({}) = 0 /\ Cardinality({}) = 0
  BY FS_EmptySet DEF Sizes
<1>2. ScanTyped
  BY <1>1 DEF ScanInit, ScanTyped
<1>3. ScanCounts
  BY <1>1, ScanAssumption DEF ScanInit, ScanCounts
<1>4. ScanFinds /\ HeaderExclusionsAddUp
  BY DEF ScanInit, ScanFinds, HeaderExclusionsAddUp, Scanning
<1> QED
  BY <1>2, <1>3, <1>4 DEF ScanInv

LEMMA SameSurface ==
    ASSUME UNCHANGED <<scan, global, scanRoute>>
    PROVE  /\ Surface' = Surface
           /\ \A v : Effective(v)' = Effective(v)
<1> QED
  BY DEF Surface, ScansBody, Prevailing, Effective, Enabled, Skipped, Excluded

LEMMA ValueIsScanned ==
    ASSUME ScanInv, NEW v \in left, ScanValue(v)
    PROVE  ScanInv'
<1> DEFINE counted == [used EXCEPT !.values = @ + 1]
<1>1. /\ ScanTyped /\ ScanCounts /\ ScanFinds
      /\ v \in Surface /\ v \notin scanned /\ v \in scan
      /\ MaxValues \in Nat /\ MaxChars \in Nat /\ v.size \in Nat
      /\ v.forced \notin {"scanning", "ssrf"} /\ "scanning" \notin v.threats
  BY ScanAssumption DEF ScanInv, ScanTyped, Surface
<1>2. /\ found = Scanning /\ left' = left \ {v}
      /\ scan' = scan /\ global' = global /\ scanRoute' = scanRoute
      /\ Exhausted(counted) => used' = counted /\ scanned' = scanned /\ found' = found
      /\ ~Exhausted(counted) =>
           /\ used' = [counted EXCEPT !.chars = @ + v.size]
           /\ scanned' = scanned \cup {v}
           /\ found' = IF v.forced # NotForced THEN {v.forced}
                       ELSE IF v.threats # {} THEN Effective(v)
                       ELSE Scanning
  BY Zenon DEF ScanValue
<1>3. /\ counted = [values |-> used.values + 1, chars |-> Sizes(scanned)]
      /\ used.values \in Nat /\ Sizes(scanned) \in Nat /\ Cardinality(scanned) \in Nat
      /\ Sized(scanned)
  <2>1. Sized(scanned) /\ Cardinality(scanned) \in Nat
    BY <1>1, SurfaceIsSized DEF ScanTyped
  <2> QED
    BY <1>1, <2>1, PiecesAreFinite DEF ScanTyped
<1>4. Surface' = Surface /\ \A u : Effective(u)' = Effective(u)
  BY <1>2, SameSurface
<1> HIDE DEF counted
<1>5. Exhausted(counted) <=> used.values + 1 > MaxValues \/ Sizes(scanned) >= MaxChars
  BY <1>3 DEF Exhausted
<1>6. ~Exhausted(counted) =>
        /\ Cardinality(scanned') = Cardinality(scanned) + 1
        /\ Sizes(scanned') = Sizes(scanned) + v.size
        /\ scanned' \ {v} = scanned
  <2> SUFFICES ASSUME ~Exhausted(counted)
               PROVE  /\ Cardinality(scanned') = Cardinality(scanned) + 1
                      /\ Sizes(scanned') = Sizes(scanned) + v.size
                      /\ scanned' \ {v} = scanned
    OBVIOUS
  <2>1. scanned' = scanned \cup {v}
    BY <1>2
  <2>2. Cardinality(scanned \cup {v}) = Cardinality(scanned) + 1
    BY <1>1, <1>3, FS_AddElement DEF Sized
  <2>3. scanned \cup {v} \subseteq Surface
    BY <1>1 DEF ScanTyped
  <2>4. Sized(scanned \cup {v})
    BY <1>1, <2>3, SurfaceIsSized DEF ScanTyped
  <2>5. Sizes(scanned \cup {v}) = Sizes(scanned) + v.size
    BY <1>1, <2>4, SizesAdd
  <2> QED
    BY <1>1, <2>1, <2>2, <2>5
<1>7. ScanTyped'
  <2>1. scan' \in ScanRequests /\ left' \subseteq Surface' /\ scanned' \subseteq Surface'
        /\ left' \cap scanned' = {}
    BY <1>1, <1>2, <1>4 DEF ScanTyped
  <2>2. used' = [values |-> used.values + 1, chars |-> Sizes(scanned')]
    BY <1>2, <1>3, <1>6
  <2>3. used'.values \in Nat /\ used' = [values |-> used'.values, chars |-> Sizes(scanned')]
    BY <1>3, <2>2
  <2>4. Sizes(scanned)' = Sizes(scanned')
    BY DEF Sizes
  <2> QED
    BY <2>1, <2>3, <2>4 DEF ScanTyped
<1>8. ScanCounts'
  <2>1. used'.values = used.values + 1
    BY <1>2, <1>3
  <2>2. Cardinality(scanned') <= MaxValues /\ Cardinality(scanned') <= used'.values
    BY <1>1, <1>2, <1>3, <1>5, <1>6, <2>1 DEF ScanCounts
  <2>3. Sizes(scanned') < MaxChars => Cardinality(scanned') \in {used'.values, MaxValues}
    BY <1>1, <1>2, <1>3, <1>5, <1>6, <2>1 DEF ScanCounts
  <2>4. Surface' \subseteq left' \cup scanned'
        \/ Cardinality(scanned') = MaxValues \/ Sizes(scanned') >= MaxChars
    <3>1. CASE Exhausted(counted)
      BY <1>1, <1>2, <1>3, <1>5, <3>1 DEF ScanCounts
    <3>2. CASE ~Exhausted(counted)
      <4>1. ~Spent
        BY <1>1, <1>3, <1>5, <3>2 DEF Spent, ScanCounts
      <4> QED
        BY <1>1, <1>2, <1>4, <3>2, <4>1 DEF ScanCounts
    <3> QED
      BY <3>1, <3>2
  <2>5. scanned' # {} => \E u \in scanned' : Sizes(scanned' \ {u}) < MaxChars
    <3>1. CASE Exhausted(counted)
      BY <1>1, <1>2, <3>1 DEF ScanCounts
    <3>2. CASE ~Exhausted(counted)
      <4>1. v \in scanned' /\ scanned' \ {v} = scanned
        BY <1>2, <1>6, <3>2
      <4>2. Sizes(scanned) < MaxChars
        BY <1>1, <1>3, <1>5, <3>2
      <4>3. Sizes(scanned' \ {v}) < MaxChars
        BY <4>1, <4>2
      <4> QED
        BY <4>1, <4>3
    <3> QED
      BY <3>1, <3>2
  <2> QED
    BY <2>2, <2>3, <2>4, <2>5 DEF ScanCounts, Spent, Sizes
<1>9. ScanFinds' /\ HeaderExclusionsAddUp'
  <2>1. CASE Exhausted(counted)
    <3>1. ScanFinds'
      BY <1>1, <1>2, <2>1 DEF ScanFinds, Scanning
    <3>2. HeaderExclusionsAddUp'
      BY <1>2, <2>1 DEF HeaderExclusionsAddUp, Scanning
    <3> QED
      BY <3>1, <3>2
  <2>2. CASE ~Exhausted(counted) /\ v.forced # NotForced
    <3>1. found' = {v.forced} /\ found' # Scanning /\ found' # {} /\ "ssrf" \notin found'
      BY <1>1, <1>2, <2>2 DEF Scanning
    <3> QED
      BY <3>1 DEF ScanFinds, HeaderExclusionsAddUp
  <2>3. CASE ~Exhausted(counted) /\ v.forced = NotForced /\ v.threats # {}
    <3>1. found' = Effective(v) /\ v \in scanned' /\ Effective(v) # Scanning
      BY <1>1, <1>2, <2>3 DEF Scanning, Effective
    <3>2. ScanFinds'
      BY <1>4, <2>3, <3>1 DEF ScanFinds
    <3>3. "ssrf" \in found' =>
            "ssrf" \in v.threats /\
              ~(/\ v.place = "header"
                /\ v.name \in AddressHeaders \cap (DefaultExcluded \cup global.headers))
      BY <3>1 DEF Effective, Skipped, Excluded
    <3> QED
      BY <1>2, <3>1, <3>2, <3>3 DEF HeaderExclusionsAddUp
  <2>4. CASE ~Exhausted(counted) /\ v.forced = NotForced /\ v.threats = {}
    <3>1. found' = Scanning /\ scanned' = scanned \cup {v}
      BY <1>2, <2>4
    <3>2. ScanFinds'
      BY <1>1, <1>2, <2>4, <3>1 DEF ScanFinds, Scanning
    <3>3. HeaderExclusionsAddUp'
      BY <3>1 DEF HeaderExclusionsAddUp, Scanning
    <3> QED
      BY <3>2, <3>3
  <2> QED
    BY <2>1, <2>2, <2>3, <2>4
<1> QED
  BY <1>7, <1>8, <1>9 DEF ScanInv

LEMMA ScanIsEnded ==
    ASSUME ScanInv, EndScan
    PROVE  ScanInv'
<1>1. /\ scan' = scan /\ global' = global /\ scanRoute' = scanRoute /\ left' = left
      /\ used' = used /\ scanned' = scanned /\ left = {} /\ found' = {}
  BY DEF EndScan
<1>2. Surface' = Surface /\ \A u : Effective(u)' = Effective(u)
  BY <1>1, SameSurface
<1>3. ScanTyped' /\ ScanCounts'
  BY <1>1, <1>2 DEF ScanInv, ScanTyped, ScanCounts, Spent, Sizes
<1>4. ScanFinds' /\ HeaderExclusionsAddUp'
  BY <1>1, <1>2 DEF ScanFinds, HeaderExclusionsAddUp, Scanning
<1> QED
  BY <1>3, <1>4 DEF ScanInv

LEMMA ScanGoesOn ==
    ASSUME ScanInv, [ScanNext]_scanVars
    PROVE  ScanInv'
<1>1. CASE UNCHANGED scanVars
  <2>1. Surface' = Surface /\ \A u : Effective(u)' = Effective(u)
    BY <1>1, SameSurface DEF scanVars
  <2>2. ScanTyped' /\ ScanCounts'
    BY <1>1, <2>1 DEF ScanInv, ScanTyped, ScanCounts, Spent, Sizes, scanVars
  <2>3. ScanFinds' /\ HeaderExclusionsAddUp'
    BY <1>1, <2>1 DEF ScanInv, ScanFinds, HeaderExclusionsAddUp, scanVars
  <2> QED
    BY <2>2, <2>3 DEF ScanInv
<1>2. CASE EndScan
  BY <1>2, ScanIsEnded
<1>3. CASE \E v \in left : ScanValue(v)
  BY <1>3, ValueIsScanned
<1> QED
  BY <1>1, <1>2, <1>3 DEF ScanNext

(* Whatever a request carries, in whichever order its maps yield it, and     *)
(* whatever the route excludes: a value that would be flagged passes only    *)
(* with the budget of the whole request spent, or behind one that was        *)
(* flagged for nothing that counts; the budget is kept but for the last      *)
(* value; and exclusions of headers only add up (detectThreat).              *)
THEOREM ScanIsExplained ==
    ScanInit /\ [][ScanNext]_scanVars => []ScanHolds
<1>1. ScanInv => ScanHolds
  <2> SUFFICES ASSUME ScanInv PROVE ScanHolds
    OBVIOUS
  <2>1. BudgetSpansSurfaces /\ HeaderExclusionsAddUp
    BY DEF ScanInv, ScanCounts, BudgetSpansSurfaces
  <2>2. MissesAreExplained
    BY DEF ScanInv, ScanCounts, ScanFinds, MissesAreExplained
  <2> QED
    BY <2>1, <2>2 DEF ScanHolds
<1> QED
  BY <1>1, ScanStarts, ScanGoesOn, PTL
=============================================================================
