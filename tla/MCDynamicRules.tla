-------------------------- MODULE MCDynamicRules --------------------------
(* Small instances of DynamicRules: a rule in two versions of which the    *)
(* first expires, and a lockdown that expires later.                       *)
EXTENDS DynamicRules, TLC

CONSTANTS loop1, direct, m1, k1, open, closed

MCStatic == [blocking |-> open, limits |-> open, toggles |-> open,
             emergency |-> open, threshold |-> 3]
Blank == [id |-> "geo", version |-> 1, expires |-> Never, blocking |-> Keep,
          limits |-> Keep, toggles |-> Keep, emergency |-> Keep, threshold |-> Keep]
First    == [Blank EXCEPT !.expires = 1, !.blocking = closed, !.threshold = 4]
Second   == [Blank EXCEPT !.version = 2, !.expires = 2, !.limits = closed,
                          !.blocking = open]
Lasting  == [Second EXCEPT !.expires = Never]
Lockdown == [Blank EXCEPT !.id = "lockdown", !.expires = 2, !.emergency = closed]

Fleet     == {First, Second, Lockdown}
Versions  == {First, Lasting}
OneConfig == [m \in Managers |-> k1]
TheLoop   == (loop1 :> m1)
LoopAndDirect == (loop1 :> m1) @@ (direct :> m1)
============================================================================
