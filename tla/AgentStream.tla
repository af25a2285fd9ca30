---------------------------- MODULE AgentStream ----------------------------
(***************************************************************************)
(* The way of security events and metrics out of the process: the bus of   *)
(* an engine (events.go), its composite handler (agenthandler.go) and the  *)
(* exporters below it: OpenTelemetry (otel_handler.go), with a loop that   *)
(* flushes it periodically, and Logfire (logfire_handler.go), without one  *)
(* and with a claim on the process's Logfire configuration.  An exporter   *)
(* appends under its lock, takes its buffers under the lock and posts them *)
(* after leaving it; a post that fails loses what it carried.              *)
(***************************************************************************)
EXTENDS Integers, Sequences, FiniteSets, FiniteSetsExt, SequencesExt

CONSTANTS
    Engines,
    Children,       \* exporters of each engine's composite, in order
    Otel, Logfire,  \* the exporters of each kind
    Senders,        \* goroutines that send, start, stop and flush
    Messages,       \* [id, sort, type, from]: events and metrics
    Reports,        \* <<engine, message>>: what is reported to each engine
    Muted,          \* muted types of events and metrics
    EnableEvents, EnableMetrics,
    BatchSize

Exporters == Otel \cup Logfire
Threads   == Senders \cup Otel      \* an OpenTelemetry loop is one more caller

\* Every engine has exporters of its own, and lists each once.
StreamConstants ==
    /\ Otel \cap Logfire = {} /\ Senders \cap Otel = {}
    /\ Children \in [Engines -> Seq(Exporters)]
    /\ \A e \in Engines : Children[e] # <<>> /\ IsInjective(Children[e])
    /\ \A e, f \in Engines : e # f => ToSet(Children[e]) \cap ToSet(Children[f]) = {}
ASSUME StreamAssumption == StreamConstants

VARIABLES
    buffer,     \* messages each exporter holds
    started,    \* exporters that were started
    closed,     \* OpenTelemetry exporters whose stop channel is closed
    loops,      \* OpenTelemetry exporters whose loop runs
    configured, \* the process's Logfire configuration is claimed
    owns,       \* exporters that believe to hold that claim (configuredByUs)
    task,       \* what every thread is doing
    sent,       \* history: <<engine, message>> the filters let through
    posted      \* history: messages each exporter posted, with success or not

streamVars == <<buffer, started, closed, loops, configured, owns, task, sent,
                posted>>

Idle == [op |-> "idle"]
None == [id |-> 0]

StreamInit ==
    /\ buffer = [h \in Exporters |-> {}]
    /\ started = {} /\ closed = {} /\ loops = {} /\ owns = {}
    /\ configured = FALSE
    /\ task = [t \in Threads |-> Idle]
    /\ sent = {}
    /\ posted = [h \in Exporters |-> {}]

----------------------------------------------------------------------------
(* What reaches an exporter                                                *)

\* Middleware events and request metrics are gated at the bus; an event of a
\* handler meets only the filter of the composite.
PassesBus(m) ==
    CASE m.from = "middleware" -> EnableEvents /\ m.type \notin Muted
      [] m.from = "collector"  -> EnableMetrics /\ m.type \notin Muted
      [] OTHER                 -> TRUE
PassesComposite(m) == m.type = "" \/ m.type \notin Muted
Passes(m) == PassesBus(m) /\ PassesComposite(m)

\* OpenTelemetry has no instrument for other metrics.
Instruments == {"response_time", "request_count", "error_rate"}
Takes(h, m) == h \in Otel /\ m.sort = "metric" => m.type \in Instruments

\* The buffer m is counted in: OpenTelemetry counts each type of metric.
Beside(h, m) == {n \in buffer[h] : /\ n.sort = m.sort
                                   /\ h \in Otel /\ m.sort = "metric" => n.type = m.type}

----------------------------------------------------------------------------
(* One call at a time goes through the children of the composite           *)

\* Mutation of Return: it goes on though no exporter is left.
ReturnAlways(t) == task' = [task EXCEPT ![t].rest = Tail(@), ![t].step = "enter"]
Return(t) ==
    LET left == Tail(task[t].rest)
    IN task' = [task EXCEPT ![t] = IF left = <<>> THEN Idle
                                   ELSE [@ EXCEPT !.rest = left, !.step = "enter"]]

Begin(t, e, op, m) ==
    /\ t \in Senders /\ task[t] = Idle
    /\ task' = [task EXCEPT ![t] = [op |-> op, msg |-> m, rest |-> Children[e],
                                    batch |-> {}, step |-> "enter"]]

Send(t, e, m) ==
    /\ <<e, m>> \in Reports \ sent
    /\ Passes(m)
    /\ Begin(t, e, "send", m)
    /\ sent' = sent \cup {<<e, m>>}
    /\ UNCHANGED <<buffer, started, closed, loops, configured, owns, posted>>

Manage(t, e, op) ==
    /\ Begin(t, e, op, None)
    /\ UNCHANGED <<buffer, started, closed, loops, configured, owns, sent,
                   posted>>

\* SendEvent, SendMetric: a full buffer is flushed by the sender.
Put(t) ==
    LET h == Head(task[t].rest)
        m == task[t].msg
    IN /\ task[t].op = "send" /\ task[t].step = "enter"
       /\ IF ~Takes(h, m)
          THEN Return(t) /\ UNCHANGED buffer
          ELSE /\ buffer' = [buffer EXCEPT ![h] = @ \cup {m}]
               /\ IF Cardinality(Beside(h, m)) + 1 >= BatchSize
                  THEN task' = [task EXCEPT ![t].step = "swap"]
                  ELSE Return(t)
       /\ UNCHANGED <<started, closed, loops, configured, owns, sent, posted>>

\* Start of OpenTelemetry works once: Stop does not reset started.
Start(t) ==
    LET h == Head(task[t].rest)
    IN /\ task[t].op = "start" /\ task[t].step = "enter"
       /\ Return(t)
       /\ started' = started \cup {h}
       /\ loops' = IF h \in Otel \ started THEN loops \cup {h} ELSE loops
       /\ configured' = (configured \/ h \in Logfire)
       /\ owns' = IF h \in Logfire /\ ~configured THEN owns \cup {h} ELSE owns
       /\ UNCHANGED <<buffer, closed, sent, posted>>

\* Stop closes the channel of the loop once, or gives the claim back, and
\* flushes.
Released(h) == h \in owns
Stop(t) ==
    LET h == Head(task[t].rest)
    IN /\ task[t].op = "stop" /\ task[t].step = "enter"
       /\ task' = [task EXCEPT ![t].step = "swap"]
       /\ closed' = IF h \in Otel THEN closed \cup {h} ELSE closed
       /\ configured' = (configured /\ ~Released(h))
       /\ owns' = owns \ {h}
       /\ UNCHANGED <<buffer, started, loops, sent, posted>>

EnterFlush(t) ==
    /\ task[t].op = "flush" /\ task[t].step = "enter"
    /\ task' = [task EXCEPT ![t].step = "swap"]
    /\ UNCHANGED <<buffer, started, closed, loops, configured, owns, sent,
                   posted>>

----------------------------------------------------------------------------
(* Flush: take the buffers, then post spans and metrics                    *)

\* Mutation of Emptied: metrics stay in the buffer.
EmptiedOfSpans(h) == [buffer EXCEPT ![h] = {m \in @ : m.sort = "metric"}]

Emptied(h) == [buffer EXCEPT ![h] = {}]
Swap(t) ==
    LET h == Head(task[t].rest)
    IN /\ task[t] # Idle /\ task[t].step = "swap"
       /\ task' = [task EXCEPT ![t].step = "post", ![t].batch = buffer[h]]
       /\ buffer' = Emptied(h)
       /\ UNCHANGED <<started, closed, loops, configured, owns, sent, posted>>

\* Each of the two posts may fail and lose its messages; the composite logs
\* that and goes on with the next child.
AfterPost(t, missed) == Return(t)

Post(t, failed) ==
    LET h == Head(task[t].rest)
        B == task[t].batch
    IN /\ task[t] # Idle /\ task[t].step = "post"
       /\ posted' = [posted EXCEPT ![h] = @ \cup B]
       /\ AfterPost(t, {m \in B : m.sort \in failed})
       /\ UNCHANGED <<buffer, started, closed, loops, configured, owns, sent>>

\* Mutation of Pending: a tick flushes full buffers only.
PendingFull(h) == Cardinality(buffer[h]) >= BatchSize

\* flushLoop: the tick of an exporter with something to flush, and its end.
Pending(h) == buffer[h] # {}

LoopTick(h) ==
    /\ h \in loops /\ task[h] = Idle /\ Pending(h)
    /\ task' = [task EXCEPT ![h] = [op |-> "flush", msg |-> None, rest |-> <<h>>,
                                    batch |-> {}, step |-> "swap"]]
    /\ UNCHANGED <<buffer, started, closed, loops, configured, owns, sent,
                   posted>>
LoopEnd(h) ==
    /\ h \in loops \cap closed /\ task[h] = Idle
    /\ loops' = loops \ {h}
    /\ UNCHANGED <<buffer, started, closed, configured, owns, task, sent,
                   posted>>

----------------------------------------------------------------------------
Work(t) == \/ Put(t) \/ Start(t) \/ Stop(t) \/ EnterFlush(t) \/ Swap(t)
           \/ \E failed \in SUBSET {"event", "metric"} : Post(t, failed)

StreamNext ==
    \/ \E t \in Senders, e \in Engines, m \in Messages : Send(t, e, m)
    \/ \E t \in Senders, e \in Engines, op \in {"start", "stop", "flush"} :
          Manage(t, e, op)
    \/ \E t \in Threads : Work(t)
    \/ \E h \in Otel : LoopTick(h) \/ LoopEnd(h)

----------------------------------------------------------------------------
(* Properties                                                              *)

StreamTypeOK ==
    /\ buffer \in [Exporters -> SUBSET Messages]
    /\ started \subseteq Exporters /\ owns \subseteq Logfire
    /\ closed \subseteq Otel /\ loops \subseteq Otel
    /\ configured \in BOOLEAN
    /\ sent \subseteq Engines \X Messages
    /\ \A t \in Threads : task[t] = Idle \/
         /\ task[t].op \in {"send", "start", "stop", "flush"}
         /\ task[t].step \in {"enter", "swap", "post"}
         /\ task[t].rest # <<>>
         /\ task[t].batch \subseteq Messages

InFlight(h) == UNION {task[t].batch : t \in {u \in Threads :
                         /\ task[u] # Idle
                         /\ task[u].step = "post"
                         /\ Head(task[u].rest) = h}}

(* No message of an exporter is in two places: the buffers are taken whole   *)
(* under the lock, so no two flushes, of the loop, of a sender whose batch   *)
(* is full and of Stop, ever post the same message.                          *)
NeverPostedTwice ==
    \A h \in Exporters :
        /\ buffer[h] \cap InFlight(h) = {}
        /\ (buffer[h] \cup InFlight(h)) \cap posted[h] = {}
        /\ \A t, u \in Threads :
             /\ t # u /\ task[t] # Idle /\ task[u] # Idle
             /\ task[t].step = "post" /\ task[u].step = "post"
             /\ Head(task[t].rest) = h /\ Head(task[u].rest) = h
             => task[t].batch \cap task[u].batch = {}

(* A message the filters let through is, at every exporter of the engine     *)
(* that takes it, still on its way, buffered, being posted or was posted: a  *)
(* failure of one exporter does not keep a message from the next (SendEvent, *)
(* SendMetric of the composite).                                             *)
FailureStaysLocal ==
    \A p \in sent :
      \A h \in ToSet(Children[p[1]]) :
        Takes(h, p[2]) =>
          \/ p[2] \in buffer[h] \cup InFlight(h) \cup posted[h]
          \/ \E t \in Senders : /\ task[t] # Idle
                                /\ task[t].msg = p[2]
                                /\ h \in ToSet(task[t].rest)

(* The claim on the Logfire configuration has exactly one holder: stopping   *)
(* an engine that came second does not give away the claim of the first.     *)
OneHolder == /\ Cardinality(owns) <= 1
             /\ configured <=> owns # {}

\* No exporter posts a message twice or suffers from the failure of another, and
\* the process's Logfire configuration has one holder.
ExportsAreSeparate == StreamTypeOK /\ NeverPostedTwice /\ FailureStaysLocal /\ OneHolder

(* The loop of an OpenTelemetry exporter that was started and never stopped  *)
(* takes every message out of its buffer, full or not.                       *)
LoopDrains ==
    \A h \in Otel, m \in Messages :
        (h \in loops /\ m \in buffer[h]) ~> (m \notin buffer[h] \/ h \in closed)

\* The loops of the runtime and the goroutines inside a call go on.
StreamFairness == /\ \A h \in Otel : WF_streamVars(LoopTick(h))
                  /\ \A t \in Threads : WF_streamVars(Work(t))
StreamSpec == StreamInit /\ [][StreamNext]_streamVars /\ StreamFairness
============================================================================
