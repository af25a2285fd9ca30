---------------------------- MODULE ProgressProofs ----------------------------
(***************************************************************************)
(* Proofs about the safety of the components whose progress MCProgress     *)
(* checks: AgentStream, for any engines with exporters of their own, any   *)
(* threads, messages and batch size; and BodyRead, for every set of        *)
(* requests, every configured number of slots and every number of calls.   *)
(***************************************************************************)
EXTENDS AgentStream, BodyRead, FiniteSetTheorems, SequenceTheorems, TLAPS

----------------------------------------------------------------------------
(* The inductive invariant of AgentStream: where a message is.             *)

Ops == {"send", "start", "stop", "flush"}
Act == [op : Ops, msg : Messages \cup {None}, rest : Seq(Exporters),
        batch : SUBSET Messages, step : {"enter", "swap", "post"}]

\* The call goes through exporters that are each listed once.
CallOK(c) ==
    c # Idle => /\ c \in Act /\ c.rest # <<>> /\ IsInjective(c.rest)
                /\ c.op = "send" => c.msg \in Messages

\* The exporters a call has still to come to.
Ahead(c) == IF c.step = "enter" THEN ToSet(c.rest) ELSE ToSet(Tail(c.rest))

\* The call has m for exporter h: it has still to bring it there, or is posting it.
Brings(c, h, m) == c # Idle /\ c.op = "send" /\ c.msg = m /\ h \in Ahead(c)
Posts(c, h, m)  == c # Idle /\ c.step = "post" /\ Head(c.rest) = h /\ m \in c.batch
Has(c, h, m)    == Brings(c, h, m) \/ Posts(c, h, m)

Kept(h, m) == m \in buffer[h] \/ m \in posted[h]

StreamTyped ==
    /\ buffer \in [Exporters -> SUBSET Messages] /\ posted \in [Exporters -> SUBSET Messages]
    /\ started \subseteq Exporters /\ owns \subseteq Logfire
    /\ closed \subseteq Otel /\ loops \subseteq Otel /\ configured \in BOOLEAN
    /\ sent \subseteq Engines \X Messages
    /\ DOMAIN task = Threads /\ \A t \in Threads : CallOK(task[t])
    /\ \A t \in Threads : task[t] # Idle /\ task[t].op = "send" => t \in Senders

\* A message is at one place of an exporter at most.
Apart ==
    \A h \in Exporters, m \in Messages :
        /\ ~(m \in buffer[h] /\ m \in posted[h])
        /\ \A t \in Threads : Has(task[t], h, m) => ~Kept(h, m)
        /\ \A t, u \in Threads : Has(task[t], h, m) /\ Has(task[u], h, m) => t = u

\* It got there because the engine of the exporter sent it,
Sourced ==
    \A h \in Exporters, m \in Messages :
        Kept(h, m) \/ (\E t \in Threads : Has(task[t], h, m)) =>
            \E e \in Engines : <<e, m>> \in sent /\ h \in ToSet(Children[e])

\* and it is somewhere once it was sent, if the exporter takes it.
Somewhere ==
    \A e \in Engines, m \in Messages, h \in Exporters :
        <<e, m>> \in sent /\ h \in ToSet(Children[e]) /\ Takes(h, m) =>
            Kept(h, m) \/ \E t \in Threads : Has(task[t], h, m)

Holding == IF configured THEN \E x \in Logfire : owns = {x} ELSE owns = {}

StreamInv == StreamTyped /\ Apart /\ Sourced /\ Somewhere /\ Holding

LEMMA RestFacts ==
    ASSUME NEW s \in Seq(Exporters), s # <<>>, IsInjective(s)
    PROVE  /\ Head(s) \in Exporters /\ Tail(s) \in Seq(Exporters) /\ IsInjective(Tail(s))
           /\ ToSet(s) = {Head(s)} \cup ToSet(Tail(s)) /\ Head(s) \notin ToSet(Tail(s))
           /\ ToSet(s) \subseteq Exporters /\ (Tail(s) = <<>> => ToSet(Tail(s)) = {})
<1> DEFINE rest == Tail(s)
<1>1. /\ rest \in Seq(Exporters) /\ Len(rest) = Len(s) - 1 /\ Len(s) \in Nat /\ Len(s) >= 1
      /\ \A i \in 1..Len(rest) : rest[i] = s[i + 1]
      /\ Head(s) = s[1] /\ DOMAIN s = 1..Len(s)
  BY HeadTailProperties, LenProperties
<1>2. DOMAIN rest = 1..Len(rest)
  BY <1>1, LenProperties
<1> HIDE DEF rest
<1>3. \A i \in DOMAIN s : s[i] \in Exporters
  BY <1>1
<1>4. \A i, j \in DOMAIN s : s[i] = s[j] => i = j
  BY DEF IsInjective
<1>5. IsInjective(rest)
  <2> SUFFICES ASSUME NEW i \in DOMAIN rest, NEW j \in DOMAIN rest, rest[i] = rest[j]
               PROVE  i = j
    BY DEF IsInjective
  <2>1. s[i + 1] = s[j + 1] /\ i + 1 \in DOMAIN s /\ j + 1 \in DOMAIN s
    BY <1>1, <1>2
  <2> QED
    BY <1>1, <1>2, <1>4, <2>1
<1>6. ASSUME NEW x PROVE x \in ToSet(s) <=> x = Head(s) \/ x \in ToSet(rest)
  <2>1. ASSUME NEW i \in DOMAIN s, s[i] = x PROVE x = Head(s) \/ x \in ToSet(rest)
    <3>1. CASE i = 1
      BY <1>1, <2>1, <3>1
    <3>2. CASE i # 1
      <4>1. i - 1 \in DOMAIN rest /\ rest[i - 1] = x
        BY <1>1, <1>2, <2>1, <3>2
      <4> QED
        BY <4>1 DEF ToSet
    <3> QED
      BY <3>1, <3>2
  <2>2. ASSUME NEW i \in DOMAIN rest, rest[i] = x PROVE x \in ToSet(s)
    <3>1. i + 1 \in DOMAIN s /\ s[i + 1] = x
      BY <1>1, <1>2, <2>2
    <3> QED
      BY <3>1 DEF ToSet
  <2>3. Head(s) \in ToSet(s)
    BY <1>1 DEF ToSet
  <2> QED
    BY <2>1, <2>2, <2>3 DEF ToSet
<1>7. Head(s) \notin ToSet(rest)
  <2> SUFFICES ASSUME NEW i \in DOMAIN rest, rest[i] = s[1] PROVE FALSE
    BY <1>1 DEF ToSet
  <2>1. s[i + 1] = s[1] /\ i + 1 \in DOMAIN s /\ 1 \in DOMAIN s
    BY <1>1, <1>2
  <2> QED
    BY <1>1, <1>2, <1>4, <2>1
<1>8. ToSet(s) \subseteq Exporters /\ (rest = <<>> => ToSet(rest) = {})
  BY <1>3 DEF ToSet
<1> QED
  BY <1>1, <1>3, <1>5, <1>6, <1>7, <1>8 DEF rest

----------------------------------------------------------------------------
(* A step of one call.                                                     *)

LEMMA ThreadStep ==
    ASSUME StreamInv, NEW t \in Threads, NEW new, CallOK(new),
           task' = [task EXCEPT ![t] = new], UNCHANGED sent,
           \A h \in Exporters, m \in Messages :
              /\ Has(new, h, m) \/ Kept(h, m)' => Has(task[t], h, m) \/ Kept(h, m)
              /\ Takes(h, m) /\ (Has(task[t], h, m) \/ Kept(h, m)) => Has(new, h, m) \/ Kept(h, m)'
              /\ Has(new, h, m) => ~Kept(h, m)'
              /\ ~(m \in buffer'[h] /\ m \in posted'[h])
    PROVE  /\ DOMAIN task' = Threads /\ \A u \in Threads : CallOK(task'[u])
           /\ Apart' /\ Sourced' /\ Somewhere'
<1>1. /\ DOMAIN task' = Threads /\ task'[t] = new
      /\ \A u \in Threads : u # t => task'[u] = task[u]
  BY DEF StreamInv, StreamTyped
<1>2. \A u \in Threads : CallOK(task'[u])
  BY <1>1 DEF StreamInv, StreamTyped
<1>3. ASSUME NEW h \in Exporters, NEW m \in Messages
      PROVE  /\ \A u \in Threads : Has(task'[u], h, m) => ~Kept(h, m)'
             /\ \A u, v \in Threads : Has(task'[u], h, m) /\ Has(task'[v], h, m) => u = v
  <2>1. /\ \A u \in Threads : Has(task[u], h, m) => ~Kept(h, m)
        /\ \A u, v \in Threads : Has(task[u], h, m) /\ Has(task[v], h, m) => u = v
    BY DEF StreamInv, Apart
  <2>2. /\ Has(new, h, m) \/ Kept(h, m)' => Has(task[t], h, m) \/ Kept(h, m)
        /\ Has(new, h, m) => ~Kept(h, m)'
    OBVIOUS
  <2>3. \A u \in Threads : u # t /\ Has(task'[u], h, m) =>
            ~Has(task[t], h, m) /\ ~Kept(h, m)
    BY <1>1, <2>1
  <2> QED
    BY <1>1, <2>1, <2>2, <2>3
<1>4. Apart'
  BY <1>3 DEF Apart
<1>5. Sourced'
  <2> SUFFICES ASSUME NEW h \in Exporters, NEW m \in Messages,
                      Kept(h, m)' \/ \E u \in Threads : Has(task'[u], h, m)
               PROVE  \E e \in Engines : <<e, m>> \in sent' /\ h \in ToSet(Children[e])
    BY DEF Sourced
  <2>1. Kept(h, m) \/ \E u \in Threads : Has(task[u], h, m)
    BY <1>1
  <2> QED
    BY <2>1 DEF StreamInv, Sourced
<1>6. Somewhere'
  <2> SUFFICES ASSUME NEW e \in Engines, NEW m \in Messages, NEW h \in Exporters,
                      <<e, m>> \in sent', h \in ToSet(Children[e]), Takes(h, m)
               PROVE  Kept(h, m)' \/ \E u \in Threads : Has(task'[u], h, m)
    BY DEF Somewhere
  <2>1. Kept(h, m) \/ \E u \in Threads : Has(task[u], h, m)
    BY DEF StreamInv, Somewhere
  <2>2. CASE Kept(h, m) \/ Has(task[t], h, m)
    BY <1>1, <2>2
  <2>3. CASE \E u \in Threads \ {t} : Has(task[u], h, m)
    BY <1>1, <2>3
  <2> QED
    BY <2>1, <2>2, <2>3
<1> QED
  BY <1>1, <1>2, <1>4, <1>5, <1>6

\* The call of t has nothing more for its exporter than it may have buffered there.
Leaves(t) ==
    \E new : /\ CallOK(new) /\ task' = [task EXCEPT ![t] = new]
             /\ new # Idle /\ new.op = "send" => t \in Senders
             /\ \A h, m : Has(new, h, m) <=> /\ task[t].op = "send" /\ task[t].msg = m
                                             /\ h \in ToSet(Tail(task[t].rest))

\* The call turns to its next exporter, or ends.
LEMMA Returns ==
    ASSUME StreamInv, NEW t \in Threads, task[t] # Idle, Return(t)
    PROVE  Leaves(t)
<1> DEFINE c == task[t]
           left == Tail(c.rest)
<1>1. /\ c \in Act /\ c.rest # <<>> /\ IsInjective(c.rest)
      /\ c.op = "send" => c.msg \in Messages /\ t \in Senders
  BY DEF StreamInv, StreamTyped, CallOK
<1>2. c.rest \in Seq(Exporters)
  BY <1>1 DEF Act
<1>3. /\ left \in Seq(Exporters) /\ IsInjective(left)
      /\ left = <<>> => ToSet(left) = {}
  BY <1>1, <1>2, RestFacts
<1>4. CASE left = <<>>
  <2>1. task' = [task EXCEPT ![t] = Idle]
    BY <1>4 DEF Return
  <2>2. CallOK(Idle) /\ \A h, m : ~Has(Idle, h, m)
    BY DEF CallOK, Has, Brings, Posts
  <2> QED
    BY <1>3, <1>4, <2>1, <2>2 DEF Leaves
<1>5. CASE left # <<>>
  <2> DEFINE turned == [c EXCEPT !.rest = left]
             new == [turned EXCEPT !.step = "enter"]
  <2>1. task' = [task EXCEPT ![t] = new]
    BY <1>5 DEF Return
  <2>2. turned \in Act /\ turned.rest = left /\ turned.op = c.op /\ turned.msg = c.msg
    BY <1>1, <1>3 DEF Act
  <2> HIDE DEF turned
  <2>3. /\ new \in Act /\ new.rest = left /\ new.op = c.op /\ new.msg = c.msg
        /\ new.step = "enter"
    BY <2>2 DEF Act
  <2> HIDE DEF new
  <2>4. new.op # "idle" /\ Idle.op = "idle"
    BY <2>3 DEF Act, Ops, Idle
  <2>5. CallOK(new) /\ new # Idle
    BY <1>1, <1>3, <1>5, <2>3, <2>4 DEF CallOK
  <2>6. \A h, m : Has(new, h, m) <=> c.op = "send" /\ c.msg = m /\ h \in ToSet(left)
    BY <2>3, <2>5 DEF Has, Brings, Posts, Ahead
  <2> QED
    BY <1>1, <2>1, <2>3, <2>5, <2>6 DEF Leaves
<1> QED
  BY <1>4, <1>5

\* The call is to take the buffers of its exporter next.
LEMMA Turns ==
    ASSUME StreamInv, NEW t \in Threads, task[t] # Idle,
           task' = [task EXCEPT ![t].step = "swap"]
    PROVE  Leaves(t)
<1> DEFINE c == task[t]
           new == [c EXCEPT !.step = "swap"]
<1>1. /\ c \in Act /\ c.rest # <<>> /\ IsInjective(c.rest)
      /\ c.op = "send" => c.msg \in Messages /\ t \in Senders
  BY DEF StreamInv, StreamTyped, CallOK
<1>2. /\ new \in Act /\ new.rest = c.rest /\ new.op = c.op /\ new.msg = c.msg
      /\ new.step = "swap"
  BY <1>1 DEF Act
<1>3. task' = [task EXCEPT ![t] = new]
  OBVIOUS
<1> HIDE DEF new
<1>4. new.op # "idle" /\ Idle.op = "idle"
  BY <1>2 DEF Act, Ops, Idle
<1>5. CallOK(new) /\ new # Idle
  BY <1>1, <1>2, <1>4 DEF CallOK
<1>6. \A h, m : Has(new, h, m) <=> c.op = "send" /\ c.msg = m /\ h \in ToSet(Tail(c.rest))
  BY <1>2, <1>5 DEF Has, Brings, Posts, Ahead
<1> QED
  BY <1>1, <1>2, <1>3, <1>5, <1>6 DEF Leaves

\* What a call holds, by its step.
LEMMA Holds ==
    ASSUME StreamInv, NEW t \in Threads, task[t] # Idle
    PROVE  LET c == task[t]
               later(h, m) == c.op = "send" /\ c.msg = m /\ h \in ToSet(Tail(c.rest))
           IN /\ c \in Act /\ c.rest \in Seq(Exporters) /\ c.rest # <<>> /\ IsInjective(c.rest)
              /\ c.batch \subseteq Messages
              /\ Head(c.rest) \in Exporters /\ Head(c.rest) \notin ToSet(Tail(c.rest))
              /\ c.op = "send" => c.msg \in Messages /\ t \in Senders
              /\ c.step = "enter" =>
                    \A h, m : Has(c, h, m) <=>
                       later(h, m) \/ (c.op = "send" /\ c.msg = m /\ h = Head(c.rest))
              /\ c.step = "swap" => \A h, m : Has(c, h, m) <=> later(h, m)
              /\ c.step = "post" =>
                    \A h, m : Has(c, h, m) <=>
                       later(h, m) \/ (h = Head(c.rest) /\ m \in c.batch)
<1> DEFINE c == task[t]
<1>1. /\ c \in Act /\ c.rest # <<>> /\ IsInjective(c.rest)
      /\ c.op = "send" => c.msg \in Messages /\ t \in Senders
  BY DEF StreamInv, StreamTyped, CallOK
<1>2. c.rest \in Seq(Exporters) /\ c.batch \subseteq Messages
  BY <1>1 DEF Act
<1>3. /\ Head(c.rest) \in Exporters /\ ToSet(c.rest) = {Head(c.rest)} \cup ToSet(Tail(c.rest))
      /\ Head(c.rest) \notin ToSet(Tail(c.rest))
  BY <1>1, <1>2, RestFacts
<1> QED
  BY <1>1, <1>2, <1>3 DEF Has, Brings, Posts, Ahead

LEMMA PutKeeps ==
    ASSUME StreamInv, NEW t \in Threads, Put(t), task[t] # Idle
    PROVE  StreamInv'
<1> DEFINE c == task[t]
           h0 == Head(c.rest)
           m0 == c.msg
<1>1. /\ c.op = "send" /\ c.step = "enter"
      /\ UNCHANGED <<started, closed, loops, configured, owns, sent, posted>>
      /\ IF Takes(h0, m0)
         THEN /\ buffer' = [buffer EXCEPT ![h0] = @ \cup {m0}]
              /\ Return(t) \/ task' = [task EXCEPT ![t].step = "swap"]
         ELSE Return(t) /\ UNCHANGED buffer
  BY DEF Put
<1>2. /\ h0 \in Exporters /\ h0 \notin ToSet(Tail(c.rest)) /\ m0 \in Messages
      /\ \A h, m : Has(c, h, m) <=> \/ c.op = "send" /\ c.msg = m /\ h \in ToSet(Tail(c.rest))
                                    \/ c.op = "send" /\ c.msg = m /\ h = h0
  BY <1>1, Holds
<1>3. PICK new : /\ CallOK(new) /\ task' = [task EXCEPT ![t] = new]
                 /\ new # Idle /\ new.op = "send" => t \in Senders
                 /\ \A h, m : Has(new, h, m) <=> /\ c.op = "send" /\ c.msg = m
                                                 /\ h \in ToSet(Tail(c.rest))
  <2>1. Leaves(t)
    BY <1>1, Returns, Turns
  <2> QED
    BY <2>1 DEF Leaves
<1>4. /\ buffer \in [Exporters -> SUBSET Messages] /\ posted \in [Exporters -> SUBSET Messages]
      /\ buffer' \in [Exporters -> SUBSET Messages]
      /\ \A h \in Exporters : buffer'[h] = IF h = h0 /\ Takes(h0, m0) THEN buffer[h] \cup {m0}
                                           ELSE buffer[h]
  <2>1. buffer \in [Exporters -> SUBSET Messages] /\ posted \in [Exporters -> SUBSET Messages]
    BY DEF StreamInv, StreamTyped
  <2>2. CASE Takes(h0, m0)
    <3>1. buffer' = [buffer EXCEPT ![h0] = @ \cup {m0}]
      BY <1>1, <2>2
    <3> QED
      BY <1>2, <2>1, <2>2, <3>1
  <2>3. CASE ~Takes(h0, m0)
    <3>1. buffer' = buffer
      BY <1>1, <2>3
    <3> QED
      BY <2>1, <2>3, <3>1
  <2> QED
    BY <2>2, <2>3
<1>5. ASSUME NEW h \in Exporters, NEW m \in Messages
      PROVE  /\ Has(new, h, m) \/ Kept(h, m)' => Has(c, h, m) \/ Kept(h, m)
             /\ Takes(h, m) /\ (Has(c, h, m) \/ Kept(h, m)) => Has(new, h, m) \/ Kept(h, m)'
             /\ Has(new, h, m) => ~Kept(h, m)'
             /\ ~(m \in buffer'[h] /\ m \in posted'[h])
  <2>1. /\ ~(m \in buffer[h] /\ m \in posted[h])
        /\ Has(c, h, m) => ~Kept(h, m)
    BY DEF StreamInv, Apart
  <2>2. Kept(h, m)' <=> Kept(h, m) \/ (h = h0 /\ m = m0 /\ Takes(h0, m0))
    BY <1>1, <1>4 DEF Kept
  <2>3. ~(m \in buffer'[h] /\ m \in posted'[h])
    BY <1>1, <1>2, <1>4, <2>1 DEF Kept
  <2> QED
    BY <1>1, <1>2, <1>3, <2>1, <2>2, <2>3
<1>6. /\ DOMAIN task' = Threads /\ \A u \in Threads : CallOK(task'[u])
      /\ Apart' /\ Sourced' /\ Somewhere'
  BY <1>1, <1>3, <1>5, ThreadStep
<1>7. StreamTyped'
  BY <1>1, <1>3, <1>4, <1>6 DEF StreamInv, StreamTyped
<1> QED
  BY <1>1, <1>6, <1>7 DEF StreamInv, Holding

LEMMA SwapKeeps ==
    ASSUME StreamInv, NEW t \in Threads, Swap(t)
    PROVE  StreamInv'
<1> DEFINE c == task[t]
           h0 == Head(c.rest)
           turned == [c EXCEPT !.step = "post"]
           new == [turned EXCEPT !.batch = buffer[h0]]
<1>1. /\ c # Idle /\ c.step = "swap" /\ buffer' = [buffer EXCEPT ![h0] = {}]
      /\ UNCHANGED <<started, closed, loops, configured, owns, sent, posted>>
      /\ task' = [task EXCEPT ![t].step = "post", ![t].batch = buffer[h0]]
  BY DEF Swap, Emptied
<1>2. /\ h0 \in Exporters /\ h0 \notin ToSet(Tail(c.rest)) /\ c \in Act
      /\ c.rest # <<>> /\ IsInjective(c.rest)
      /\ c.op = "send" => c.msg \in Messages /\ t \in Senders
      /\ \A h, m : Has(c, h, m) <=> c.op = "send" /\ c.msg = m /\ h \in ToSet(Tail(c.rest))
  BY <1>1, Holds
<1>3. /\ buffer \in [Exporters -> SUBSET Messages] /\ posted \in [Exporters -> SUBSET Messages]
      /\ DOMAIN task = Threads
  BY DEF StreamInv, StreamTyped
<1>4. task' = [task EXCEPT ![t] = new]
  BY <1>1, <1>3
<1>5. /\ turned \in Act /\ turned.op = c.op /\ turned.msg = c.msg /\ turned.rest = c.rest
      /\ turned.step = "post"
  BY <1>2 DEF Act
<1> HIDE DEF turned
<1>6. /\ new \in Act /\ new.op = c.op /\ new.msg = c.msg /\ new.rest = c.rest
      /\ new.step = "post" /\ new.batch = buffer[h0]
  BY <1>2, <1>3, <1>5 DEF Act
<1> HIDE DEF new
<1>7. new.op # "idle" /\ Idle.op = "idle"
  BY <1>6 DEF Act, Ops, Idle
<1>8. CallOK(new) /\ new # Idle
  BY <1>2, <1>6, <1>7 DEF CallOK
<1>9. \A h, m : Has(new, h, m) <=> \/ c.op = "send" /\ c.msg = m /\ h \in ToSet(Tail(c.rest))
                                   \/ h = h0 /\ m \in buffer[h0]
  BY <1>6, <1>8 DEF Has, Brings, Posts, Ahead
<1>10. /\ buffer' \in [Exporters -> SUBSET Messages]
       /\ \A h \in Exporters : buffer'[h] = IF h = h0 THEN {} ELSE buffer[h]
  BY <1>1, <1>2, <1>3
<1>11. ASSUME NEW h \in Exporters, NEW m \in Messages
       PROVE  /\ Has(new, h, m) \/ Kept(h, m)' => Has(c, h, m) \/ Kept(h, m)
              /\ Takes(h, m) /\ (Has(c, h, m) \/ Kept(h, m)) => Has(new, h, m) \/ Kept(h, m)'
              /\ Has(new, h, m) => ~Kept(h, m)'
              /\ ~(m \in buffer'[h] /\ m \in posted'[h])
  <2>1. /\ ~(m \in buffer[h] /\ m \in posted[h])
        /\ Has(c, h, m) => ~Kept(h, m)
    BY DEF StreamInv, Apart
  <2> QED
    BY <1>1, <1>2, <1>9, <1>10, <2>1 DEF Kept
<1>12. /\ DOMAIN task' = Threads /\ \A u \in Threads : CallOK(task'[u])
       /\ Apart' /\ Sourced' /\ Somewhere'
  BY <1>1, <1>4, <1>8, <1>11, ThreadStep
<1>13. StreamTyped'
  BY <1>1, <1>2, <1>4, <1>6, <1>10, <1>12 DEF StreamInv, StreamTyped
<1> QED
  BY <1>1, <1>12, <1>13 DEF StreamInv, Holding

LEMMA PostKeeps ==
    ASSUME StreamInv, NEW t \in Threads, NEW failed, Post(t, failed)
    PROVE  StreamInv'
<1> DEFINE c == task[t]
           h0 == Head(c.rest)
<1>1. /\ c # Idle /\ c.step = "post" /\ posted' = [posted EXCEPT ![h0] = @ \cup c.batch]
      /\ UNCHANGED <<buffer, started, closed, loops, configured, owns, sent>>
      /\ Return(t)
  BY DEF Post, AfterPost
<1>2. /\ h0 \in Exporters /\ h0 \notin ToSet(Tail(c.rest)) /\ c.batch \subseteq Messages
      /\ \A h, m : Has(c, h, m) <=> \/ c.op = "send" /\ c.msg = m /\ h \in ToSet(Tail(c.rest))
                                    \/ h = h0 /\ m \in c.batch
  BY <1>1, Holds
<1>3. PICK new : /\ CallOK(new) /\ task' = [task EXCEPT ![t] = new]
                 /\ new # Idle /\ new.op = "send" => t \in Senders
                 /\ \A h, m : Has(new, h, m) <=> /\ c.op = "send" /\ c.msg = m
                                                 /\ h \in ToSet(Tail(c.rest))
  <2>1. Leaves(t)
    BY <1>1, Returns
  <2> QED
    BY <2>1 DEF Leaves
<1>4. /\ buffer \in [Exporters -> SUBSET Messages] /\ posted \in [Exporters -> SUBSET Messages]
      /\ posted' \in [Exporters -> SUBSET Messages]
      /\ \A h \in Exporters : posted'[h] = IF h = h0 THEN posted[h] \cup c.batch
                                           ELSE posted[h]
  BY <1>1, <1>2 DEF StreamInv, StreamTyped
<1>5. ASSUME NEW h \in Exporters, NEW m \in Messages
      PROVE  /\ Has(new, h, m) \/ Kept(h, m)' => Has(c, h, m) \/ Kept(h, m)
             /\ Takes(h, m) /\ (Has(c, h, m) \/ Kept(h, m)) => Has(new, h, m) \/ Kept(h, m)'
             /\ Has(new, h, m) => ~Kept(h, m)'
             /\ ~(m \in buffer'[h] /\ m \in posted'[h])
  <2>1. /\ ~(m \in buffer[h] /\ m \in posted[h])
        /\ Has(c, h, m) => ~Kept(h, m)
    BY DEF StreamInv, Apart
  <2> QED
    BY <1>1, <1>2, <1>3, <1>4, <2>1 DEF Kept
<1>6. /\ DOMAIN task' = Threads /\ \A u \in Threads : CallOK(task'[u])
      /\ Apart' /\ Sourced' /\ Somewhere'
  BY <1>1, <1>3, <1>5, ThreadStep
<1>7. StreamTyped'
  BY <1>1, <1>3, <1>4, <1>6 DEF StreamInv, StreamTyped
<1> QED
  BY <1>1, <1>6, <1>7 DEF StreamInv, Holding

\* Calls that bring no message.
LEMMA BringsNothing ==
    ASSUME StreamInv, NEW t \in Threads, UNCHANGED <<buffer, sent, posted>>,
           NEW new, CallOK(new), task' = [task EXCEPT ![t] = new],
           new # Idle /\ new.op = "send" => t \in Senders,
           \A h, m : ~Has(task[t], h, m) /\ ~Has(new, h, m)
    PROVE  /\ DOMAIN task' = Threads /\ \A u \in Threads : CallOK(task'[u])
           /\ \A u \in Threads : task'[u] # Idle /\ task'[u].op = "send" => u \in Senders
           /\ Apart' /\ Sourced' /\ Somewhere'
<1>1. \A h \in Exporters, m \in Messages :
         (Kept(h, m)' <=> Kept(h, m)) /\ ~(m \in buffer'[h] /\ m \in posted'[h])
  BY DEF StreamInv, Apart, Kept
<1>2. /\ DOMAIN task' = Threads /\ \A u \in Threads : CallOK(task'[u])
      /\ Apart' /\ Sourced' /\ Somewhere'
  BY <1>1, ThreadStep
<1> QED
  BY <1>2 DEF StreamInv, StreamTyped

LEMMA LeavesNothing ==
    ASSUME StreamInv, NEW t \in Threads, UNCHANGED <<buffer, sent, posted>>,
           task[t] # Idle, task[t].op # "send", task[t].step = "enter", Leaves(t)
    PROVE  /\ DOMAIN task' = Threads /\ \A u \in Threads : CallOK(task'[u])
           /\ \A u \in Threads : task'[u] # Idle /\ task'[u].op = "send" => u \in Senders
           /\ Apart' /\ Sourced' /\ Somewhere'
<1>1. \A h, m : ~Has(task[t], h, m)
  BY Holds
<1>2. PICK new : /\ CallOK(new) /\ task' = [task EXCEPT ![t] = new]
                 /\ new # Idle /\ new.op = "send" => t \in Senders
                 /\ \A h, m : ~Has(new, h, m)
  BY DEF Leaves
<1> QED
  BY <1>1, <1>2, BringsNothing

LEMMA StartKeeps ==
    ASSUME StreamInv, NEW t \in Threads, Start(t), task[t] # Idle
    PROVE  StreamInv'
<1> DEFINE h0 == Head(task[t].rest)
<1>1. /\ h0 \in Exporters /\ task[t].op = "start" /\ task[t].step = "enter"
      /\ UNCHANGED <<buffer, closed, sent, posted>>
      /\ started' = started \cup {h0}
      /\ loops' = IF h0 \in Otel \ started THEN loops \cup {h0} ELSE loops
      /\ configured' = (configured \/ h0 \in Logfire)
      /\ owns' = IF h0 \in Logfire /\ ~configured THEN owns \cup {h0} ELSE owns
      /\ Leaves(t)
  BY Holds, Returns DEF Start
<1>2. /\ DOMAIN task' = Threads /\ \A u \in Threads : CallOK(task'[u])
      /\ \A u \in Threads : task'[u] # Idle /\ task'[u].op = "send" => u \in Senders
      /\ Apart' /\ Sourced' /\ Somewhere'
  BY <1>1, LeavesNothing
<1>3. Holding'
  <2>1. CASE h0 \in Logfire /\ ~configured
    BY <1>1, <2>1 DEF StreamInv, Holding
  <2>2. CASE ~(h0 \in Logfire /\ ~configured)
    <3>1. configured' = configured /\ owns' = owns
      BY <1>1, <2>2 DEF StreamInv, StreamTyped
    <3> QED
      BY <3>1 DEF StreamInv, Holding
  <2> QED
    BY <2>1, <2>2
<1>4. StreamTyped'
  BY <1>1, <1>2 DEF StreamInv, StreamTyped
<1> QED
  BY <1>2, <1>3, <1>4 DEF StreamInv

LEMMA StopKeeps ==
    ASSUME StreamInv, NEW t \in Threads, Stop(t), task[t] # Idle
    PROVE  StreamInv'
<1> DEFINE h0 == Head(task[t].rest)
<1>1. /\ task[t].op = "stop" /\ task[t].step = "enter"
      /\ UNCHANGED <<buffer, started, loops, sent, posted>>
      /\ closed' = IF h0 \in Otel THEN closed \cup {h0} ELSE closed
      /\ configured' = (configured /\ h0 \notin owns)
      /\ owns' = owns \ {h0}
      /\ Leaves(t)
  BY Turns DEF Stop, Released
<1>2. /\ DOMAIN task' = Threads /\ \A u \in Threads : CallOK(task'[u])
      /\ \A u \in Threads : task'[u] # Idle /\ task'[u].op = "send" => u \in Senders
      /\ Apart' /\ Sourced' /\ Somewhere'
  BY <1>1, LeavesNothing
<1>3. Holding'
  <2>1. CASE configured
    <3>1. PICK x \in Logfire : owns = {x}
      BY <2>1 DEF StreamInv, Holding
    <3> QED
      BY <1>1, <2>1, <3>1 DEF Holding
  <2>2. CASE ~configured
    BY <1>1, <2>2 DEF StreamInv, Holding
  <2> QED
    BY <2>1, <2>2
<1>4. StreamTyped'
  BY <1>1, <1>2 DEF StreamInv, StreamTyped
<1> QED
  BY <1>2, <1>3, <1>4 DEF StreamInv

LEMMA EnterFlushKeeps ==
    ASSUME StreamInv, NEW t \in Threads, EnterFlush(t), task[t] # Idle
    PROVE  StreamInv'
<1>1. /\ task[t].op = "flush" /\ task[t].step = "enter" /\ Leaves(t)
      /\ UNCHANGED <<buffer, started, closed, loops, configured, owns, sent, posted>>
  BY Turns DEF EnterFlush
<1>2. /\ DOMAIN task' = Threads /\ \A u \in Threads : CallOK(task'[u])
      /\ \A u \in Threads : task'[u] # Idle /\ task'[u].op = "send" => u \in Senders
      /\ Apart' /\ Sourced' /\ Somewhere'
  BY <1>1, LeavesNothing
<1> QED
  BY <1>1, <1>2 DEF StreamInv, StreamTyped, Holding

LEMMA LoopTickKeeps ==
    ASSUME StreamInv, NEW h0 \in Otel, LoopTick(h0)
    PROVE  StreamInv'
<1> DEFINE new == [op |-> "flush", msg |-> None, rest |-> <<h0>>, batch |-> {}, step |-> "swap"]
<1>1. /\ task[h0] = Idle /\ task' = [task EXCEPT ![h0] = new] /\ h0 \in Threads
      /\ UNCHANGED <<buffer, started, closed, loops, configured, owns, sent, posted>>
  BY DEF LoopTick, Threads
<1>2. <<h0>> \in Seq(Exporters) /\ <<h0>> # <<>> /\ IsInjective(<<h0>>) /\ Tail(<<h0>>) = <<>>
  BY DEF IsInjective, Exporters
<1>3. /\ new \in Act /\ new.rest = <<h0>> /\ new.op = "flush" /\ new.step = "swap"
  BY <1>2 DEF Act, Ops
<1> HIDE DEF new
<1>4. new.op # "idle" /\ Idle.op = "idle"
  BY <1>3 DEF Idle
<1>5. CallOK(new) /\ new # Idle
  BY <1>2, <1>3, <1>4 DEF CallOK
<1>6. \A h, m : ~Has(new, h, m) /\ ~Has(task[h0], h, m)
  BY <1>1, <1>3 DEF Has, Brings, Posts
<1>7. /\ DOMAIN task' = Threads /\ \A u \in Threads : CallOK(task'[u])
      /\ \A u \in Threads : task'[u] # Idle /\ task'[u].op = "send" => u \in Senders
      /\ Apart' /\ Sourced' /\ Somewhere'
  BY <1>1, <1>3, <1>5, <1>6, BringsNothing
<1> QED
  BY <1>1, <1>7 DEF StreamInv, StreamTyped, Holding

LEMMA LoopEndKeeps ==
    ASSUME StreamInv, NEW h0 \in Otel, LoopEnd(h0)
    PROVE  StreamInv'
<1>1. /\ UNCHANGED <<buffer, started, closed, configured, owns, task, sent, posted>>
      /\ loops' = loops \ {h0}
  BY DEF LoopEnd
<1>2. StreamTyped'
  BY <1>1 DEF StreamInv, StreamTyped
<1>3. \A h, m : Kept(h, m)' <=> Kept(h, m)
  BY <1>1 DEF Kept
<1>4. Apart' /\ Sourced' /\ Somewhere' /\ Holding'
  BY <1>1, <1>3 DEF StreamInv, Apart, Sourced, Somewhere, Holding
<1> QED
  BY <1>2, <1>4 DEF StreamInv

\* An idle thread takes up a call, and brings m0 to the exporters of e if it sends.
Opens(t, e, op, m0) ==
    \E new : /\ CallOK(new) /\ task' = [task EXCEPT ![t] = new] /\ new # Idle
             /\ \A h, m : Has(new, h, m) <=> op = "send" /\ m = m0 /\ h \in ToSet(Children[e])

LEMMA BeginTo ==
    ASSUME StreamInv, StreamConstants, NEW t, NEW e \in Engines, NEW op \in Ops,
           NEW m0 \in Messages \cup {None}, op = "send" => m0 \in Messages, Begin(t, e, op, m0)
    PROVE  t \in Threads /\ t \in Senders /\ task[t] = Idle /\ Opens(t, e, op, m0)
<1> DEFINE new == [op |-> op, msg |-> m0, rest |-> Children[e], batch |-> {}, step |-> "enter"]
<1>1. /\ t \in Senders /\ task[t] = Idle /\ task' = [task EXCEPT ![t] = new] /\ t \in Threads
  BY DEF Begin, Threads
<1>2. Children[e] \in Seq(Exporters) /\ Children[e] # <<>> /\ IsInjective(Children[e])
  BY DEF StreamConstants
<1>3. /\ new \in Act /\ new.op = op /\ new.msg = m0 /\ new.rest = Children[e]
      /\ new.step = "enter"
  BY <1>2 DEF Act
<1> HIDE DEF new
<1>4. new.op # "idle" /\ Idle.op = "idle"
  BY <1>3 DEF Idle, Ops
<1>5. CallOK(new) /\ new # Idle
  BY <1>2, <1>3, <1>4 DEF CallOK
<1>6. \A h, m : Has(new, h, m) <=> op = "send" /\ m = m0 /\ h \in ToSet(Children[e])
  BY <1>3, <1>5 DEF Has, Brings, Posts, Ahead
<1> QED
  BY <1>1, <1>5, <1>6 DEF Opens

LEMMA ManageKeeps ==
    ASSUME StreamInv, StreamConstants, NEW t \in Senders, NEW e \in Engines,
           NEW op \in {"start", "stop", "flush"}, Manage(t, e, op)
    PROVE  StreamInv'
<1>1. /\ UNCHANGED <<buffer, started, closed, loops, configured, owns, sent, posted>>
      /\ Begin(t, e, op, None) /\ op \in Ops /\ op # "send"
  BY DEF Manage, Ops
<1>2. t \in Threads /\ task[t] = Idle /\ Opens(t, e, op, None)
  BY <1>1, BeginTo
<1>3. PICK new : /\ CallOK(new) /\ task' = [task EXCEPT ![t] = new]
                 /\ \A h, m : ~Has(new, h, m)
  BY <1>1, <1>2 DEF Opens
<1>4. \A h, m : ~Has(task[t], h, m)
  BY <1>2 DEF Has, Brings, Posts
<1>5. /\ DOMAIN task' = Threads /\ \A u \in Threads : CallOK(task'[u])
      /\ \A u \in Threads : task'[u] # Idle /\ task'[u].op = "send" => u \in Senders
      /\ Apart' /\ Sourced' /\ Somewhere'
  BY <1>1, <1>2, <1>3, <1>4, BringsNothing
<1> QED
  BY <1>1, <1>5 DEF StreamInv, StreamTyped, Holding

LEMMA SendKeeps ==
    ASSUME StreamInv, StreamConstants, NEW t \in Senders, NEW e0 \in Engines,
           NEW m0 \in Messages, Send(t, e0, m0)
    PROVE  StreamInv'
<1>1. /\ UNCHANGED <<buffer, started, closed, loops, configured, owns, posted>>
      /\ Begin(t, e0, "send", m0) /\ "send" \in Ops
      /\ <<e0, m0>> \notin sent /\ sent' = sent \cup {<<e0, m0>>}
  BY DEF Send, Ops
<1>2. t \in Threads /\ t \in Senders /\ task[t] = Idle /\ Opens(t, e0, "send", m0)
  BY <1>1, BeginTo
<1>3. PICK new : /\ CallOK(new) /\ task' = [task EXCEPT ![t] = new]
                 /\ \A h, m : Has(new, h, m) <=> m = m0 /\ h \in ToSet(Children[e0])
  <2>1. PICK op : op = "send" /\ Opens(t, e0, op, m0)
    BY <1>2
  <2> QED
    BY <2>1, Zenon DEF Opens
<1>4. /\ DOMAIN task = Threads /\ DOMAIN task' = Threads /\ task'[t] = new
      /\ \A u \in Threads : u # t => task'[u] = task[u]
      /\ \A h, m : ~Has(task[t], h, m)
  BY <1>2, <1>3 DEF StreamInv, StreamTyped, Has, Brings, Posts
<1>5. \A h, m : Kept(h, m)' <=> Kept(h, m)
  BY <1>1 DEF Kept
\* The exporters of e0 belong to no other engine, and e0 has not sent m0 before.
<1>6. ASSUME NEW h \in Exporters, h \in ToSet(Children[e0])
      PROVE  ~Kept(h, m0) /\ \A u \in Threads : ~Has(task[u], h, m0)
  <2>1. \A e \in Engines : h \in ToSet(Children[e]) => e = e0
    BY <1>6 DEF StreamConstants
  <2> QED
    BY <1>1, <2>1 DEF StreamInv, Sourced
<1>7. StreamTyped'
  BY <1>1, <1>2, <1>3, <1>4 DEF StreamInv, StreamTyped
<1>8. Apart'
  <2> SUFFICES ASSUME NEW h \in Exporters, NEW m \in Messages
               PROVE  /\ ~(m \in buffer'[h] /\ m \in posted'[h])
                      /\ \A u \in Threads : Has(task'[u], h, m) => ~Kept(h, m)'
                      /\ \A u, v \in Threads : Has(task'[u], h, m) /\ Has(task'[v], h, m) => u = v
    BY DEF Apart
  <2>1. /\ ~(m \in buffer[h] /\ m \in posted[h])
        /\ \A u \in Threads : Has(task[u], h, m) => ~Kept(h, m)
        /\ \A u, v \in Threads : Has(task[u], h, m) /\ Has(task[v], h, m) => u = v
    BY DEF StreamInv, Apart
  <2>2. CASE m = m0 /\ h \in ToSet(Children[e0])
    BY <1>1, <1>4, <1>5, <1>6, <2>1, <2>2
  <2>3. CASE ~(m = m0 /\ h \in ToSet(Children[e0]))
    <3>1. ~Has(task'[t], h, m)
      BY <1>3, <1>4, <2>3
    <3> QED
      BY <1>1, <1>4, <1>5, <2>1, <3>1
  <2> QED
    BY <2>2, <2>3
<1>9. Sourced'
  <2> SUFFICES ASSUME NEW h \in Exporters, NEW m \in Messages,
                      Kept(h, m)' \/ \E u \in Threads : Has(task'[u], h, m)
               PROVE  \E e \in Engines : <<e, m>> \in sent' /\ h \in ToSet(Children[e])
    BY DEF Sourced
  <2>1. CASE Has(new, h, m)
    BY <1>1, <1>3, <2>1
  <2>2. CASE ~Has(new, h, m)
    <3>1. Kept(h, m) \/ \E u \in Threads : Has(task[u], h, m)
      BY <1>4, <1>5, <2>2
    <3>2. PICK e \in Engines : <<e, m>> \in sent /\ h \in ToSet(Children[e])
      BY <3>1 DEF StreamInv, Sourced
    <3> QED
      BY <1>1, <3>2
  <2> QED
    BY <2>1, <2>2
<1>10. Somewhere'
  <2> SUFFICES ASSUME NEW e \in Engines, NEW m \in Messages, NEW h \in Exporters,
                      <<e, m>> \in sent', h \in ToSet(Children[e]), Takes(h, m)
               PROVE  Kept(h, m)' \/ \E u \in Threads : Has(task'[u], h, m)
    BY DEF Somewhere
  <2>1. CASE e = e0 /\ m = m0
    BY <1>2, <1>3, <1>4, <2>1
  <2>2. CASE ~(e = e0 /\ m = m0)
    <3>1. <<e, m>> \in sent
      BY <1>1, <2>2
    <3>2. Kept(h, m) \/ \E u \in Threads : Has(task[u], h, m)
      BY <3>1 DEF StreamInv, Somewhere
    <3> QED
      BY <1>4, <1>5, <3>2
  <2> QED
    BY <2>1, <2>2
<1>11. Holding'
  BY <1>1 DEF StreamInv, Holding
<1> QED
  BY <1>7, <1>8, <1>9, <1>10, <1>11 DEF StreamInv

LEMMA StreamFirst == StreamInit => StreamInv
<1> SUFFICES ASSUME StreamInit PROVE StreamInv
  OBVIOUS
<1>1. /\ \A t \in Threads : task[t] = Idle
      /\ \A h, m : h \in Exporters => ~Kept(h, m)
  BY DEF StreamInit, Kept
<1>2. \A t \in Threads : \A h, m : ~Has(task[t], h, m)
  BY <1>1 DEF Has, Brings, Posts
<1>3. StreamTyped
  BY <1>1 DEF StreamInit, StreamTyped, CallOK
<1>4. Apart /\ Sourced
  BY <1>1, <1>2 DEF Apart, Sourced, Kept
<1>5. Somewhere /\ Holding
  BY DEF StreamInit, Somewhere, Holding
<1> QED
  BY <1>3, <1>4, <1>5 DEF StreamInv

LEMMA WorkKeeps ==
    ASSUME StreamInv, NEW t \in Threads, Work(t)
    PROVE  StreamInv'
<1>1. CASE Put(t)
  <2>1. task[t].op # Idle.op
    BY <1>1 DEF Put, Idle
  <2> QED
    BY <1>1, <2>1, PutKeeps
<1>2. CASE Start(t)
  <2>1. task[t].op # Idle.op
    BY <1>2 DEF Start, Idle
  <2> QED
    BY <1>2, <2>1, StartKeeps
<1>3. CASE Stop(t)
  <2>1. task[t].op # Idle.op
    BY <1>3 DEF Stop, Idle
  <2> QED
    BY <1>3, <2>1, StopKeeps
<1>4. CASE EnterFlush(t)
  <2>1. task[t].op # Idle.op
    BY <1>4 DEF EnterFlush, Idle
  <2> QED
    BY <1>4, <2>1, EnterFlushKeeps
<1>5. CASE Swap(t)
  BY <1>5, SwapKeeps
<1>6. CASE \E failed \in SUBSET {"event", "metric"} : Post(t, failed)
  BY <1>6, PostKeeps
<1> QED
  BY <1>1, <1>2, <1>3, <1>4, <1>5, <1>6 DEF Work

LEMMA StreamStep ==
    ASSUME StreamConstants, StreamInv, [StreamNext]_streamVars
    PROVE  StreamInv'
<1>1. CASE \E t \in Senders, e \in Engines, m \in Messages : Send(t, e, m)
  BY <1>1, SendKeeps
<1>2. CASE \E t \in Senders, e \in Engines, op \in {"start", "stop", "flush"} : Manage(t, e, op)
  BY <1>2, ManageKeeps
<1>3. CASE \E t \in Threads : Work(t)
  BY <1>3, WorkKeeps
<1>4. CASE \E h \in Otel : LoopTick(h) \/ LoopEnd(h)
  BY <1>4, LoopTickKeeps, LoopEndKeeps
<1>5. CASE UNCHANGED streamVars
  <2>1. /\ UNCHANGED <<buffer, started, closed, loops, configured, owns, task, sent, posted>>
        /\ \A h, m : Kept(h, m)' <=> Kept(h, m)
    BY <1>5 DEF streamVars, Kept
  <2> QED
    BY <2>1 DEF StreamInv, StreamTyped, Apart, Sourced, Somewhere, Holding
<1> QED
  BY <1>1, <1>2, <1>3, <1>4, <1>5 DEF StreamNext

----------------------------------------------------------------------------
(* What it says.                                                           *)

LEMMA StreamSeparates ==
    ASSUME StreamConstants, StreamInv
    PROVE  ExportsAreSeparate
<1>1. StreamTypeOK
  BY DEF StreamInv, StreamTyped, StreamTypeOK, CallOK, Act, Ops
<1>2. ASSUME NEW h \in Exporters, NEW m
      PROVE  /\ m \in InFlight(h) <=> \E t \in Threads : Posts(task[t], h, m)
             /\ m \in InFlight(h) \/ m \in buffer[h] \/ m \in posted[h] => m \in Messages
             /\ m \in InFlight(h) => \E t \in Threads : Has(task[t], h, m)
  <2>1. m \in InFlight(h) <=> \E t \in Threads : Posts(task[t], h, m)
    BY DEF InFlight, Posts
  <2>2. m \in buffer[h] \/ m \in posted[h] => m \in Messages
    BY DEF StreamInv, StreamTyped
  <2>3. ASSUME NEW t \in Threads, Posts(task[t], h, m)
        PROVE  m \in Messages
    BY <2>3 DEF StreamInv, StreamTyped, CallOK, Act, Posts
  <2> QED
    BY <2>1, <2>2, <2>3 DEF Has
<1>3. NeverPostedTwice
  <2> SUFFICES ASSUME NEW h \in Exporters
               PROVE  /\ buffer[h] \cap InFlight(h) = {}
                      /\ (buffer[h] \cup InFlight(h)) \cap posted[h] = {}
                      /\ \A t, u \in Threads :
                           /\ t # u /\ task[t] # Idle /\ task[u] # Idle
                           /\ task[t].step = "post" /\ task[u].step = "post"
                           /\ Head(task[t].rest) = h /\ Head(task[u].rest) = h
                           => task[t].batch \cap task[u].batch = {}
    BY DEF NeverPostedTwice
  <2>1. ASSUME NEW m \in Messages
        PROVE  /\ ~(m \in buffer[h] /\ m \in posted[h])
               /\ m \in InFlight(h) => m \notin buffer[h] /\ m \notin posted[h]
    BY <1>2, <2>1 DEF StreamInv, Apart, Kept
  <2>2. buffer[h] \cap InFlight(h) = {} /\ (buffer[h] \cup InFlight(h)) \cap posted[h] = {}
    BY <1>2, <2>1
  <2>3. ASSUME NEW t \in Threads, NEW u \in Threads, t # u, NEW m,
               Posts(task[t], h, m), Posts(task[u], h, m)
        PROVE  FALSE
    <3>1. m \in Messages
      BY <1>2, <2>3
    <3> QED
      BY <2>3, <3>1 DEF StreamInv, Apart, Has
  <2>4. ASSUME NEW t \in Threads, NEW u \in Threads, t # u, task[t] # Idle, task[u] # Idle,
               task[t].step = "post", task[u].step = "post",
               Head(task[t].rest) = h, Head(task[u].rest) = h
        PROVE  task[t].batch \cap task[u].batch = {}
    BY <2>3, <2>4 DEF Posts
  <2> QED
    BY <2>2, <2>4
<1>4. FailureStaysLocal
  <2> SUFFICES ASSUME NEW p \in sent, NEW h \in ToSet(Children[p[1]]), Takes(h, p[2])
               PROVE  \/ p[2] \in buffer[h] \cup InFlight(h) \cup posted[h]
                      \/ \E t \in Senders : /\ task[t] # Idle
                                            /\ task[t].msg = p[2]
                                            /\ h \in ToSet(task[t].rest)
    BY DEF FailureStaysLocal
  <2>1. p[1] \in Engines /\ p[2] \in Messages /\ p = <<p[1], p[2]>>
    BY DEF StreamInv, StreamTyped
  <2>2. /\ Children[p[1]] \in Seq(Exporters) /\ Children[p[1]] # <<>>
        /\ IsInjective(Children[p[1]])
    BY <2>1 DEF StreamConstants
  <2>3. h \in Exporters
    BY <2>2, RestFacts
  <2>4. Kept(h, p[2]) \/ \E t \in Threads : Has(task[t], h, p[2])
    BY <2>1, <2>3 DEF StreamInv, Somewhere
  <2>5. ASSUME NEW t \in Threads, Brings(task[t], h, p[2])
        PROVE  t \in Senders /\ task[t] # Idle /\ task[t].msg = p[2] /\ h \in ToSet(task[t].rest)
    <3>1. /\ task[t] # Idle /\ task[t].op = "send" /\ task[t].msg = p[2] /\ h \in Ahead(task[t])
      BY <2>5 DEF Brings
    <3>2. /\ task[t].rest \in Seq(Exporters) /\ task[t].rest # <<>> /\ IsInjective(task[t].rest)
          /\ t \in Senders
      BY <3>1, Holds
    <3> QED
      BY <3>1, <3>2, RestFacts DEF Ahead
  <2> QED
    BY <1>2, <2>3, <2>4, <2>5 DEF Has, Kept
<1>5. OneHolder
  <2>1. CASE configured
    <3>1. PICK x \in Logfire : owns = {x}
      BY <2>1 DEF StreamInv, Holding
    <3>2. Cardinality(owns) = 1
      BY <3>1, FS_Singleton
    <3> QED
      BY <2>1, <3>1, <3>2 DEF OneHolder
  <2>2. CASE ~configured
    <3>1. owns = {} /\ configured = FALSE
      BY <2>2 DEF StreamInv, StreamTyped, Holding
    <3>2. Cardinality(owns) = 0
      BY <3>1, FS_EmptySet
    <3> QED
      BY <3>1, <3>2 DEF OneHolder
  <2> QED
    BY <2>1, <2>2
<1> QED
  BY <1>1, <1>3, <1>4, <1>5 DEF ExportsAreSeparate

\* ExportsAreSeparate: whatever the interleaving of senders, flushes, stops and the
\* loops, no exporter posts a message twice, a post that fails keeps no message from
\* another exporter (agenthandler.go), and the claim on the Logfire configuration has
\* exactly one holder (logfire_handler.go).
THEOREM ExportersDoNotInterfere == StreamSpec => []ExportsAreSeparate
<1>1. StreamInv /\ [StreamNext]_streamVars => StreamInv'
  BY StreamStep, StreamAssumption
<1>2. StreamInv => ExportsAreSeparate
  BY StreamSeparates, StreamAssumption
<1> QED
  BY <1>1, <1>2, StreamAssumption, StreamFirst, PTL DEF StreamSpec

----------------------------------------------------------------------------
(* The inductive invariant of BodyRead: which read is whose.               *)

Phases == {"once", "reading", "done", "sent"}
Goroutines == [request : Requests, n : Nat, at : Phases]
Calls == [at : {"idle", "queued", "waiting", "body", "unavailable"}, n : Nat]

BodyTyped ==
    /\ slots \in Nat /\ used \in Nat
    /\ asks \in [Requests -> Calls]
    /\ reads \subseteq Goroutines /\ IsFiniteSet(reads)
    /\ stream \in [Requests -> {"fresh", "running", "hung", "returned"}]
    /\ adapter \in [Requests -> Nat]

\* Each call starts at most one read.
OneReadACall ==
    /\ \A g \in reads, h \in reads : g.request = h.request /\ g.n = h.n => g = h
    /\ \A g \in reads : /\ g.n <= asks[g.request].n
                        /\ asks[g.request].at = "queued" => g.n < asks[g.request].n

\* A stream that is no longer fresh was asked once.
AskedOnce == \A r \in Requests : adapter[r] = IF stream[r] = "fresh" THEN 0 ELSE 1

BodyInv == BodyTyped /\ OneReadACall /\ AskedOnce /\ SlotsAreReads

LEMMA BodyFirst == BodyInit => BodyInv
<1> SUFFICES ASSUME BodyInit PROVE BodyInv
  OBVIOUS
<1>1. BodyTyped
  BY FS_EmptySet DEF BodyInit, BodyTyped, Calls, Unsized
<1>2. OneReadACall /\ AskedOnce
  BY DEF BodyInit, OneReadACall, AskedOnce
<1>3. SlotsAreReads
  BY FS_EmptySet DEF BodyInit, SlotsAreReads, Unsized
<1> QED
  BY <1>1, <1>2, <1>3 DEF BodyInv

\* Moving a read on keeps the reads apart and their number.
LEMMA MoveKeepsReads ==
    ASSUME BodyInv, NEW g \in reads, NEW at \in Phases, Move(g, at)
    PROVE  /\ reads' \subseteq Goroutines /\ IsFiniteSet(reads')
           /\ Cardinality(reads') = Cardinality(reads)
           /\ \A h \in reads' : \E f \in reads : f.request = h.request /\ f.n = h.n
           /\ \A h \in reads', i \in reads' : h.request = i.request /\ h.n = i.n => h = i
<1> DEFINE moved == [g EXCEPT !.at = at]
           rest == reads \ {g}
<1>1. g \in Goroutines /\ reads \subseteq Goroutines /\ IsFiniteSet(reads)
  BY DEF BodyInv, BodyTyped
<1>2. moved \in Goroutines /\ moved.request = g.request /\ moved.n = g.n
  BY <1>1 DEF Goroutines
<1>3. reads' = rest \cup {moved}
  BY DEF Move
<1> HIDE DEF moved
<1>4. \A h \in rest : ~(h.request = g.request /\ h.n = g.n)
  BY DEF BodyInv, OneReadACall
<1>5. moved \notin rest
  BY <1>2, <1>4
<1>6. IsFiniteSet(rest) /\ Cardinality(rest) = Cardinality(reads) - 1 /\ Cardinality(reads) \in Nat
  BY <1>1, FS_RemoveElement, FS_CardinalityType
<1>7. IsFiniteSet(reads') /\ Cardinality(reads') = Cardinality(rest) + 1
  BY <1>3, <1>5, <1>6, FS_AddElement
<1>8. \A h \in reads', i \in reads' : h.request = i.request /\ h.n = i.n => h = i
  <2>1. \A h \in rest, i \in rest : h.request = i.request /\ h.n = i.n => h = i
    BY DEF BodyInv, OneReadACall
  <2> QED
    BY <1>2, <1>3, <1>4, <2>1
<1> QED
  BY <1>1, <1>2, <1>3, <1>6, <1>7, <1>8

\* A step that moves a read and the calls' waiting leaves the slots alone.
LEMMA ReadStep ==
    ASSUME BodyInv, NEW g \in reads, NEW at \in Phases, Move(g, at),
           UNCHANGED <<slots, used>>, asks' \in [Requests -> Calls],
           \A r \in Requests : asks'[r].n = asks[r].n /\ (asks'[r].at = "queued" => asks[r].at = "queued"),
           stream' \in [Requests -> {"fresh", "running", "hung", "returned"}],
           adapter' \in [Requests -> Nat], AskedOnce'
    PROVE  BodyInv'
<1>1. /\ reads' \subseteq Goroutines /\ IsFiniteSet(reads')
      /\ Cardinality(reads') = Cardinality(reads)
      /\ \A h \in reads' : \E f \in reads : f.request = h.request /\ f.n = h.n
      /\ \A h \in reads', i \in reads' : h.request = i.request /\ h.n = i.n => h = i
  BY MoveKeepsReads
<1>2. BodyTyped'
  BY <1>1 DEF BodyInv, BodyTyped
<1>3. OneReadACall'
  <2>1. ASSUME NEW h \in reads'
        PROVE  /\ h.n <= asks'[h.request].n
               /\ asks'[h.request].at = "queued" => h.n < asks'[h.request].n
    <3>1. PICK f \in reads : f.request = h.request /\ f.n = h.n
      BY <1>1
    <3>2. h.request \in Requests
      BY <1>1 DEF Goroutines
    <3>3. /\ f.n <= asks[f.request].n
          /\ asks[f.request].at = "queued" => f.n < asks[f.request].n
      BY DEF BodyInv, OneReadACall
    <3> QED
      BY <3>1, <3>2, <3>3
  <2> QED
    BY <1>1, <2>1 DEF OneReadACall
<1>4. SlotsAreReads'
  BY <1>1 DEF BodyInv, SlotsAreReads
<1> QED
  BY <1>2, <1>3, <1>4 DEF BodyInv

\* A step that leaves the reads and the streams alone.
LEMMA CallStep ==
    ASSUME BodyInv, UNCHANGED <<used, reads, stream, adapter>>, slots' \in Nat, used <= slots',
           asks' \in [Requests -> Calls],
           \A r \in Requests : /\ asks'[r].n >= asks[r].n
                               /\ asks'[r].at = "queued" =>
                                     asks[r].at = "queued" \/ asks'[r].n > asks[r].n
    PROVE  BodyInv'
<1>1. BodyTyped' /\ AskedOnce' /\ SlotsAreReads'
  BY DEF BodyInv, BodyTyped, AskedOnce, SlotsAreReads
<1>2. OneReadACall'
  <2>1. ASSUME NEW h \in reads
        PROVE  /\ h.n <= asks'[h.request].n
               /\ asks'[h.request].at = "queued" => h.n < asks'[h.request].n
    <3>1. h.request \in Requests /\ h.n \in Nat
      BY DEF BodyInv, BodyTyped, Goroutines
    <3>2. /\ h.n <= asks[h.request].n
          /\ asks[h.request].at = "queued" => h.n < asks[h.request].n
      BY DEF BodyInv, OneReadACall
    <3>3. asks[h.request].n \in Nat /\ asks'[h.request].n \in Nat
      BY <3>1 DEF BodyInv, BodyTyped, Calls
    <3> QED
      BY <3>1, <3>2, <3>3
  <2> QED
    BY <2>1 DEF BodyInv, OneReadACall
<1> QED
  BY <1>1, <1>2 DEF BodyInv

LEMMA BodyStep == BodyConstants /\ BodyInv /\ [BodyNext]_bodyVars => BodyInv'
<1> SUFFICES ASSUME BodyConstants, BodyInv, [BodyNext]_bodyVars PROVE BodyInv'
  OBVIOUS
<1>0. /\ slots \in Nat /\ used \in Nat /\ asks \in [Requests -> Calls]
      /\ reads \subseteq Goroutines /\ IsFiniteSet(reads)
      /\ stream \in [Requests -> {"fresh", "running", "hung", "returned"}]
      /\ adapter \in [Requests -> Nat] /\ used = Cardinality(reads) /\ used <= slots
  BY DEF BodyInv, BodyTyped, SlotsAreReads
<1>1. ASSUME NEW r \in Requests, NEW n \in Sizes, Ask(r, n) PROVE BodyInv'
  <2> DEFINE new == [at |-> "queued", n |-> asks[r].n + 1]
  <2>1. asks' = [asks EXCEPT ![r] = new] /\ UNCHANGED <<used, reads, stream, adapter>>
    BY <1>1 DEF Ask
  <2>2. asks[r] \in Calls /\ asks[r].n \in Nat
    BY <1>0 DEF Calls
  <2>3. new \in Calls /\ new.n = asks[r].n + 1
    BY <2>2 DEF Calls
  <2> HIDE DEF new
  <2>4. slots' \in Nat /\ used <= slots'
    <3>1. n \in Int /\ DefaultSlots \in Nat
      BY DEF BodyConstants
    <3>2. CASE slots = 0
      BY <1>0, <1>1, <3>1, <3>2 DEF Ask, Unsized
    <3>3. CASE slots # 0
      BY <1>0, <1>1, <3>3 DEF Ask, Unsized
    <3> QED
      BY <3>2, <3>3
  <2>5. asks' \in [Requests -> Calls]
    BY <1>0, <2>1, <2>3
  <2>6. \A q \in Requests : /\ asks'[q].n >= asks[q].n
                            /\ asks'[q].at = "queued" =>
                                  asks[q].at = "queued" \/ asks'[q].n > asks[q].n
    BY <1>0, <2>1, <2>2, <2>3 DEF Calls
  <2> QED
    BY <2>1, <2>4, <2>5, <2>6, CallStep
<1>2. ASSUME NEW r \in Requests, Acquire(r) PROVE BodyInv'
  <2> DEFINE g == [request |-> r, n |-> asks[r].n, at |-> "once"]
             new == [asks[r] EXCEPT !.at = "waiting"]
  <2>1. /\ asks[r].at = "queued" /\ used < slots /\ used' = used + 1
        /\ reads' = reads \cup {g} /\ asks' = [asks EXCEPT ![r] = new]
        /\ UNCHANGED <<slots, stream, adapter>>
    BY <1>2 DEF Acquire, Set
  <2>2. asks[r] \in Calls /\ asks[r].n \in Nat
    BY <1>0 DEF Calls
  <2>3. g \in Goroutines /\ g.request = r /\ g.n = asks[r].n
    BY <2>2 DEF Goroutines, Phases
  <2>4. new \in Calls /\ new.n = asks[r].n /\ new.at = "waiting"
    BY <2>2 DEF Calls
  <2> HIDE DEF g, new
  <2>5. \A h \in reads : h.request = r => h.n < asks[r].n
    BY <2>1 DEF BodyInv, OneReadACall
  <2>6. g \notin reads
    BY <2>2, <2>3, <2>5
  <2>7. IsFiniteSet(reads') /\ Cardinality(reads') = Cardinality(reads) + 1
    BY <1>0, <2>1, <2>6, FS_AddElement
  <2>8. BodyTyped' /\ SlotsAreReads' /\ AskedOnce'
    BY <1>0, <2>1, <2>3, <2>4, <2>7 DEF BodyTyped, SlotsAreReads, AskedOnce, BodyInv
  <2>9. OneReadACall'
    <3>1. ASSUME NEW h \in reads', NEW i \in reads', h.request = i.request, h.n = i.n
          PROVE  h = i
      <4>1. h \in reads /\ i \in reads => h = i
        BY <3>1 DEF BodyInv, OneReadACall
      <4>2. \A f \in reads : ~(f.request = r /\ f.n = asks[r].n)
        BY <2>2, <2>5
      <4> QED
        BY <2>1, <2>3, <3>1, <4>1, <4>2
    <3>2. ASSUME NEW h \in reads'
          PROVE  /\ h.n <= asks'[h.request].n
                 /\ asks'[h.request].at = "queued" => h.n < asks'[h.request].n
      <4>1. asks'[r] = new /\ \A q \in Requests : q # r => asks'[q] = asks[q]
        BY <1>0, <2>1
      <4>2. CASE h = g
        BY <2>2, <2>3, <2>4, <4>1, <4>2
      <4>3. CASE h \in reads /\ h.request = r
        <5>1. h.n <= asks[r].n
          BY <4>3 DEF BodyInv, OneReadACall
        <5> QED
          BY <2>4, <4>1, <4>3, <5>1
      <4>4. CASE h \in reads /\ h.request # r
        <5>1. h.request \in Requests
          BY <1>0, <4>4 DEF Goroutines
        <5>2. /\ h.n <= asks[h.request].n
              /\ asks[h.request].at = "queued" => h.n < asks[h.request].n
          BY <4>4 DEF BodyInv, OneReadACall
        <5> QED
          BY <4>1, <4>4, <5>1, <5>2
      <4> QED
        BY <2>1, <4>2, <4>3, <4>4
    <3> QED
      BY <3>1, <3>2 DEF OneReadACall
  <2> QED
    BY <2>8, <2>9 DEF BodyInv
<1>3. ASSUME NEW r \in Requests, TimeOut(r) PROVE BodyInv'
  <2> DEFINE new == [asks[r] EXCEPT !.at = "unavailable"]
  <2>1. asks' = [asks EXCEPT ![r] = new] /\ UNCHANGED <<slots, used, reads, stream, adapter>>
    BY <1>3 DEF TimeOut, Set, Held
  <2>2. asks[r] \in Calls /\ asks[r].n \in Nat
    BY <1>0 DEF Calls
  <2>3. new \in Calls /\ new.n = asks[r].n /\ new.at = "unavailable"
    BY <2>2 DEF Calls
  <2> HIDE DEF new
  <2>4. asks' \in [Requests -> Calls]
    BY <1>0, <2>1, <2>3
  <2>5. \A q \in Requests : /\ asks'[q].n >= asks[q].n
                            /\ asks'[q].at = "queued" =>
                                  asks[q].at = "queued" \/ asks'[q].n > asks[q].n
    BY <1>0, <2>1, <2>2, <2>3 DEF Calls
  <2> QED
    BY <1>0, <2>1, <2>4, <2>5, CallStep
<1>4. ASSUME NEW r \in Requests, Hang(r) PROVE BodyInv'
  <2>1. /\ stream' = [stream EXCEPT ![r] = "hung"] /\ stream[r] = "running"
        /\ UNCHANGED <<slots, used, asks, reads, adapter>>
    BY <1>4 DEF Hang
  <2>2. BodyTyped' /\ AskedOnce'
    BY <1>0, <2>1 DEF BodyTyped, AskedOnce, BodyInv
  <2> QED
    BY <2>1, <2>2 DEF BodyInv, OneReadACall, SlotsAreReads
<1>5. ASSUME NEW g \in reads, Goroutine(g) PROVE BodyInv'
  <2>0. g \in Goroutines /\ g.request \in Requests
    BY <1>0 DEF Goroutines
  <2>1. CASE Read(g)
    <3>1. /\ stream[g.request] = "fresh" /\ Move(g, "reading") /\ UNCHANGED <<slots, used, asks>>
          /\ adapter' = [adapter EXCEPT ![g.request] = @ + 1]
          /\ stream' = [stream EXCEPT ![g.request] = "running"]
      BY <2>1 DEF Read, First
    <3>2. /\ stream' \in [Requests -> {"fresh", "running", "hung", "returned"}]
          /\ adapter' \in [Requests -> Nat]
      BY <1>0, <2>0, <3>1
    <3>3. AskedOnce'
      BY <1>0, <2>0, <3>1 DEF BodyInv, AskedOnce
    <3>4. "reading" \in Phases
      BY DEF Phases
    <3> QED
      BY <1>0, <3>1, <3>2, <3>3, <3>4, ReadStep
  <2>2. CASE StreamReturns(g)
    <3>1. /\ stream[g.request] = "running" /\ Move(g, "done")
          /\ UNCHANGED <<slots, used, asks, adapter>>
          /\ stream' = [stream EXCEPT ![g.request] = "returned"]
      BY <2>2 DEF StreamReturns
    <3>2. stream' \in [Requests -> {"fresh", "running", "hung", "returned"}]
      BY <1>0, <2>0, <3>1
    <3>3. AskedOnce'
      BY <1>0, <2>0, <3>1 DEF BodyInv, AskedOnce
    <3>4. "done" \in Phases
      BY DEF Phases
    <3> QED
      BY <1>0, <3>1, <3>2, <3>3, <3>4, ReadStep
  <2>3. CASE Reread(g)
    <3>1. Move(g, "done") /\ UNCHANGED <<slots, used, asks, stream, adapter>>
      BY <2>3 DEF Reread
    <3>2. AskedOnce' /\ "done" \in Phases
      BY <3>1 DEF BodyInv, AskedOnce, Phases
    <3> QED
      BY <1>0, <3>1, <3>2, ReadStep
  <2>4. CASE Deliver(g)
    <3>1. Move(g, "sent") /\ UNCHANGED <<slots, used, stream, adapter>>
          /\ \/ asks' = [asks EXCEPT ![g.request].at = "body"]
             \/ asks' = asks
      BY <2>4 DEF Deliver
    <3>2. AskedOnce' /\ "sent" \in Phases
      BY <3>1 DEF BodyInv, AskedOnce, Phases
    <3>3. /\ asks' \in [Requests -> Calls]
          /\ \A r \in Requests : /\ asks'[r].n = asks[r].n
                                 /\ asks'[r].at = "queued" => asks[r].at = "queued"
      <4> DEFINE new == [asks[g.request] EXCEPT !.at = "body"]
      <4>1. new \in Calls /\ new.n = asks[g.request].n /\ new.at = "body"
        BY <1>0, <2>0 DEF Calls
      <4>2. asks' = [asks EXCEPT ![g.request] = new] \/ asks' = asks
        BY <3>1
      <4> HIDE DEF new
      <4> QED
        BY <1>0, <2>0, <4>1, <4>2
    <3> QED
      BY <1>0, <3>1, <3>2, <3>3, ReadStep
  <2>5. CASE Release(g)
    <3>1. /\ used' = used - 1 /\ reads' = reads \ {g}
          /\ UNCHANGED <<slots, asks, stream, adapter>>
      BY <2>5 DEF Release
    <3>2. /\ IsFiniteSet(reads') /\ Cardinality(reads') = Cardinality(reads) - 1
          /\ Cardinality(reads') \in Nat
      BY <1>0, <3>1, FS_RemoveElement, FS_CardinalityType
    <3>3. BodyTyped' /\ SlotsAreReads' /\ AskedOnce'
      BY <1>0, <3>1, <3>2 DEF BodyTyped, SlotsAreReads, AskedOnce, BodyInv
    <3>4. OneReadACall'
      BY <3>1 DEF BodyInv, OneReadACall
    <3> QED
      BY <3>3, <3>4 DEF BodyInv
  <2> QED
    BY <1>5, <2>1, <2>2, <2>3, <2>4, <2>5 DEF Goroutine
<1>6. CASE UNCHANGED bodyVars
  BY <1>6 DEF bodyVars, BodyInv, BodyTyped, OneReadACall, AskedOnce, SlotsAreReads
<1> QED
  BY <1>1, <1>2, <1>3, <1>4, <1>5, <1>6 DEF BodyNext

LEMMA BodyCounts == BodyInv => ReadsAreCounted
<1> SUFFICES ASSUME BodyInv PROVE ReadsAreCounted
  OBVIOUS
<1>1. BodyTypeOK
  BY DEF BodyInv, BodyTyped, BodyTypeOK, Calls, Goroutines, Phases
<1>2. BodyReadOnce
  BY DEF BodyInv, AskedOnce, BodyReadOnce
<1> QED
  BY <1>1, <1>2 DEF BodyInv, ReadsAreCounted

\* ReadsAreCounted: a slot is taken by each read that still runs and by no other, so
\* that the bound on parked reads holds whichever callers gave up (bodyread.go), and
\* the stream of a request is asked once, however often its body is wanted (Body).
THEOREM SlotsAndStreams == BodySpec => []ReadsAreCounted
<1>1. BodyInv /\ [BodyNext]_bodyVars => BodyInv'
  BY BodyStep, BodyAssumption
<1> QED
  BY <1>1, BodyFirst, BodyCounts, PTL DEF BodySpec
=============================================================================
