--------------------------- MODULE ClientIdentity ---------------------------
(***************************************************************************)
(* Whose request is it (ipextraction.go): a client sends a request with an *)
(* X-Forwarded-For header of its own making, proxies on the way append the *)
(* address they were called from, and the engine resolves the identity     *)
(* from the connecting address and the chain.                              *)
(*                                                                         *)
(* An entry is [ip, mapped]: an address and whether it is spelled as an    *)
(* IPv4-mapped IPv6 address, which only the match with a listed address    *)
(* (not a range) can tell; "bad" is an entry that is no address.           *)
(***************************************************************************)
EXTENDS Integers, Sequences, FiniteSets, FiniteSetsExt, SequencesExt

CONSTANTS
    Client,      \* address of the client
    ProxyPaths,  \* sequences of proxies between the client and the engine
    Forgeries,   \* chains the client may send
    Depths,      \* values of TrustedProxyDepth
    Listed,      \* addresses named in TrustedProxies
    Ranges,      \* addresses within a range of TrustedProxies
    UnixSocket   \* BOOLEAN: TrustedProxies has the entry "unix"

\* Hosts on the way have an address, and a depth is at least 1 (config.go:580).
ASSUME IdentityAssumption ==
    /\ Client \in STRING \ {"", "bad"}
    /\ \A hops \in ProxyPaths : hops \in Seq(STRING \ {"", "bad"})
    /\ \A entries \in Forgeries : entries \in Seq([ip : STRING, mapped : BOOLEAN])
    /\ \A d \in Depths : d \in Nat \ {0}

VARIABLES
    path,        \* proxies the request still has to pass
    route,       \* history: all proxies on the way
    depth,
    chain,       \* the entries of X-Forwarded-For
    peer,        \* the connecting address, NoPeer over a Unix socket
    identity     \* the resolved identity

identityVars == <<path, route, depth, chain, peer, identity>>

Plain(ip) == [ip |-> ip, mapped |-> FALSE]
NoAddress == ""
NoPeer    == Plain(NoAddress)
Unknown   == "unknown"
Pending   == "pending"

IdentityInit ==
    /\ route \in ProxyPaths /\ path = route
    /\ depth \in Depths
    /\ chain \in Forgeries
    /\ \E mapped \in BOOLEAN : peer = [ip |-> Client, mapped |-> mapped]
    /\ identity = Pending

\* A proxy appends the address of its peer; the last one may connect to the
\* engine as a mapped address or over a Unix socket.
Relay ==
    /\ path # <<>>
    /\ chain' = Append(chain, peer)
    /\ path' = Tail(path)
    /\ \/ peer' = Plain(Head(path))
       \/ Len(path) = 1 /\ peer' \in {NoPeer, [ip |-> Head(path), mapped |-> TRUE]}
    /\ UNCHANGED <<route, depth, identity>>

----------------------------------------------------------------------------
(* extractClientIP                                                         *)

\* isTrustedProxy; the entries of the chain are canonicalised before it, the
\* connecting address is not.
Canonicalised(e) == Plain(e.ip)
Trusts(e) == e.ip \in Ranges \/ (e.ip \in Listed /\ ~e.mapped)

\* Entries to the right of the one the depth selects that are no proxies.
UnlistedOnTheRight(entries, d) ==
    {i \in Max({1, Len(entries) - d + 2})..Len(entries) :
        ~Trusts(Canonicalised(entries[i]))}

\* From the right, the first entry that is no trusted proxy.
FirstUnlisted(entries) ==
    LET outside == {i \in 1..Len(entries) : ~Trusts(Canonicalised(entries[i]))}
    IN IF outside = {} THEN "bad" ELSE entries[Max(outside)].ip

Selected(entries, d) == entries[Len(entries) - d + 1].ip

\* resolveClientIPFromForwardedChain: a depth that over-counts the proxies
\* gives way to the walk from the right; anything unusable to the peer.
FromChain(base, entries, d) ==
    IF entries = <<>> \/ Len(entries) < d THEN base
    ELSE LET found == IF UnlistedOnTheRight(entries, d) # {}
                      THEN FirstUnlisted(entries) ELSE Selected(entries, d)
         IN IF found = "bad" THEN base ELSE found

\* Mutation of Believes: the header of any peer is believed.
BelievesAll(e) == TRUE

\* The header of a peer that is no trusted proxy is ignored.
Believes(e) == Trusts(e)

ExtractClientIP ==
    IF peer = NoPeer
    THEN IF UnixSocket THEN FromChain(Unknown, chain, depth) ELSE NoAddress
    ELSE IF Believes(peer) THEN FromChain(peer.ip, chain, depth)
    ELSE peer.ip

Resolve ==
    /\ path = <<>> /\ identity = Pending
    /\ identity' = ExtractClientIP
    /\ UNCHANGED <<path, route, depth, chain, peer>>

IdentityNext == Relay \/ Resolve

----------------------------------------------------------------------------
(* Properties                                                              *)

Resolved == identity # Pending
Hops     == Len(route)
Honest   == \A i \in 1..Hops : route[i] \in Listed \cup Ranges

(* A client that is no trusted proxy cannot choose its identity: whatever it *)
(* puts into the header, and whatever the depth, the identity is its own     *)
(* address or that of a proxy on the way (or unknown): it can neither shake  *)
(* off a ban or a rate limit nor earn one for somebody else.                 *)
IdentityIsNotForged ==
    Resolved /\ Client \notin Listed \cup Ranges =>
        identity \in {Client, Unknown, NoAddress} \cup {route[i] : i \in 1..Hops}

(* When every proxy on the way is trusted and connects under its listed      *)
(* spelling, and the depth is their number, the identity is the client, also *)
(* behind a forged chain; the same holds for a larger depth once the chain   *)
(* is as long as the depth.                                                  *)
DeclaredDepthFindsClient ==
    /\ Resolved /\ Honest /\ Client \notin Listed \cup Ranges
    /\ IF peer = NoPeer THEN UnixSocket ELSE Trusts(peer)
    /\ Hops > 0 /\ depth >= Hops /\ Len(chain) >= depth
    => identity = Client

(* The address that is judged is the right one.                              *)
IdentityHolds == IdentityIsNotForged /\ DeclaredDepthFindsClient
=============================================================================
