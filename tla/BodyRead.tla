------------------------------ MODULE BodyRead ------------------------------
(***************************************************************************)
(* Reading request bodies (bodyread.go, Body in request.go).  A read runs  *)
(* on a goroutine of its own, which holds one of a fixed number of slots   *)
(* until the stream returns; the caller waits for a slot and then for the  *)
(* read, each no longer than a timeout.  Detection asks for the body of a  *)
(* request up to MaxCalls times, one after the other; the body itself is   *)
(* read once, and a later read waits for the first.                        *)
(*                                                                         *)
(* Timers have no clock: one that was started may fire at any moment from  *)
(* then on, and does fire in the end.                                      *)
(***************************************************************************)
EXTENDS Integers, FiniteSets

CONSTANTS
    Requests,
    Sizes,        \* sync_body_read_max_concurrent of the configurations
    DefaultSlots, \* the 64 slots of the default
    MaxCalls

VARIABLES
    slots,        \* size of the slot channel, Unsized before the first read
    used,         \* slots taken
    asks,         \* asks[r]: where the caller is, and which call it is
    reads,        \* read goroutines: [request, n, at]
    stream,       \* stream[r]: fresh, running, hung, or returned
    adapter       \* history: how often the stream of r was asked

BodyConstants == Sizes \subseteq Int /\ DefaultSlots \in Nat \ {0} /\ MaxCalls \in Nat
ASSUME BodyAssumption == BodyConstants

bodyVars == <<slots, used, asks, reads, stream, adapter>>

Unsized == 0

BodyInit ==
    /\ slots = Unsized /\ used = 0
    /\ asks = [r \in Requests |-> [at |-> "idle", n |-> 0]]
    /\ reads = {}
    /\ stream = [r \in Requests |-> "fresh"]
    /\ adapter = [r \in Requests |-> 0]

Set(r, at) == asks' = [asks EXCEPT ![r].at = at]

\* ensureBodyReadSlots: the first configuration decides, for the process.
Ask(r, n) ==
    /\ asks[r].at \in {"idle", "body", "unavailable"} /\ asks[r].n < MaxCalls
    /\ slots' = IF slots # Unsized THEN slots ELSE IF n < 1 THEN DefaultSlots ELSE n
    /\ asks' = [asks EXCEPT ![r] = [at |-> "queued", n |-> @.n + 1]]
    /\ UNCHANGED <<used, reads, stream, adapter>>

\* A slot, and the goroutine that reads.
Acquire(r) ==
    /\ asks[r].at = "queued" /\ used < slots
    /\ used' = used + 1
    /\ reads' = reads \cup {[request |-> r, n |-> asks[r].n, at |-> "once"]}
    /\ Set(r, "waiting")
    /\ UNCHANGED <<slots, stream, adapter>>

\* The waits a timeout ends.
GivesUp(r) == asks[r].at \in {"queued", "waiting"}

\* Mutation of Held: a caller that gives up takes its slot along.
HeldByCaller(r) == IF asks[r].at = "waiting" THEN used - 1 ELSE used

\* The slots taken when the caller gives up: a read goes on with its own.
Held(r) == used

TimeOut(r) ==
    /\ GivesUp(r)
    /\ used' = Held(r)
    /\ Set(r, "unavailable")
    /\ UNCHANGED <<slots, reads, stream, adapter>>

----------------------------------------------------------------------------
(* The read goroutine: Body under its sync.Once                            *)

First(g) == stream[g.request] = "fresh"

Move(g, at) == reads' = (reads \ {g}) \cup {[g EXCEPT !.at = at]}

Read(g) ==
    /\ g.at = "once" /\ First(g)
    /\ adapter' = [adapter EXCEPT ![g.request] = @ + 1]
    /\ stream' = [stream EXCEPT ![g.request] = "running"]
    /\ Move(g, "reading")
    /\ UNCHANGED <<slots, used, asks>>

\* The stream of r stalls for good, as one of a client that sends no more.
Hang(r) ==
    /\ stream[r] = "running"
    /\ stream' = [stream EXCEPT ![r] = "hung"]
    /\ UNCHANGED <<slots, used, asks, reads, adapter>>

StreamReturns(g) ==
    /\ g.at = "reading" /\ stream[g.request] = "running"
    /\ stream' = [stream EXCEPT ![g.request] = "returned"]
    /\ Move(g, "done")
    /\ UNCHANGED <<slots, used, asks, adapter>>

\* The body was read before.
Reread(g) ==
    /\ g.at = "once" /\ stream[g.request] = "returned" /\ ~First(g)
    /\ Move(g, "done")
    /\ UNCHANGED <<slots, used, asks, stream, adapter>>

\* Mutation of Sends: the channel of the result has no buffer.
SendsToWaiter(g) == asks[g.request] = [at |-> "waiting", n |-> g.n]

\* done <- result never blocks.
Sends(g) == TRUE

\* The result; then the deferred release.
Deliver(g) ==
    /\ g.at = "done" /\ Sends(g)
    /\ Move(g, "sent")
    /\ asks' = IF asks[g.request] = [at |-> "waiting", n |-> g.n]
               THEN [asks EXCEPT ![g.request].at = "body"] ELSE asks
    /\ UNCHANGED <<slots, used, stream, adapter>>

Release(g) ==
    /\ g.at = "sent"
    /\ used' = used - 1
    /\ reads' = reads \ {g}
    /\ UNCHANGED <<slots, asks, stream, adapter>>

Goroutine(g) == Read(g) \/ StreamReturns(g) \/ Reread(g) \/ Deliver(g) \/ Release(g)

BodyNext ==
    \/ \E r \in Requests : \/ \E n \in Sizes : Ask(r, n)
                           \/ Acquire(r) \/ TimeOut(r) \/ Hang(r)
    \/ \E g \in reads : Goroutine(g)

\* Goroutines run on, timers fire; nothing makes a stream return.
BodyFairness ==
    \A r \in Requests :
      /\ WF_bodyVars(TimeOut(r))
      /\ WF_bodyVars(\E g \in reads : g.request = r /\ Goroutine(g))

BodySpec == BodyInit /\ [][BodyNext]_bodyVars /\ BodyFairness

----------------------------------------------------------------------------
(* Properties                                                              *)

BodyTypeOK ==
    /\ slots \in Nat /\ used \in Int
    /\ \A r \in Requests : asks[r].at \in {"idle", "queued", "waiting", "body", "unavailable"}
    /\ \A g \in reads : g.at \in {"once", "reading", "done", "sent"}

\* A slot is taken by each read that still runs and by no other, whichever
\* callers gave up: the bound on parked goroutines holds.
SlotsAreReads == used = Cardinality(reads) /\ used <= slots

\* The stream of a request is asked once, however often its body is wanted and
\* whatever reads were abandoned: it could not be read a second time.
BodyReadOnce == \A r \in Requests : adapter[r] <= 1

\* Slots are taken by the reads that run and by no others, and the stream of a
\* request is asked once.
ReadsAreCounted == BodyTypeOK /\ SlotsAreReads /\ BodyReadOnce

\* No caller waits for ever, though every stream may hang and keep its slots.
CallersReturn ==
    \A r \in Requests : asks[r].at \in {"queued", "waiting"}
                          ~> asks[r].at \in {"body", "unavailable"}

\* The reads of a request end and give their slots back, unless its stream has
\* hung: also those that nobody waits for any more.
ReadsEnd ==
    \A r \in Requests :
      (\E g \in reads : g.request = r)
        ~> stream[r] = "hung" \/ ~\E g \in reads : g.request = r
=============================================================================
