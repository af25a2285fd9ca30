---------------------------- MODULE IPBanPromises ----------------------------
(***************************************************************************)
(* What a caller of IPBanManager may conclude from an Unban that returned: *)
(* IPBan with history variables that remember the returned calls, for the  *)
(* configuration with Redis and without network bans.                      *)
(***************************************************************************)
EXTENDS IPBan, TLC

VARIABLES
    lifted,    \* addresses an Unban returned for, with no Ban of them since
    due        \* due[c]: whether the address was lifted when the check of c
               \* began, and whether the Unban of c overlaps no Ban of it

history == <<lifted, due>>

Nothing == [lifted |-> FALSE, alone |-> FALSE]

PInit == /\ Init
         /\ lifted = {}
         /\ due = [c \in Callers |-> Nothing]

PCheckLocal(c, s) ==
    /\ CheckLocal(c, s)
    /\ due' = [due EXCEPT ![c] =
                  [Nothing EXCEPT !.lifted = Canonical[s] \in lifted]]
    /\ UNCHANGED lifted

PBanExact(c, s, d) ==
    /\ BanExact(c, s, d)
    /\ lifted' = lifted \ {Canonical[s]}
    /\ due' = [o \in Callers |-> IF call[o].ip = Canonical[s] THEN Nothing
                                 ELSE due[o]]

PUnbanLocal(c, s) ==
    /\ UnbanLocal(c, s)
    /\ due' = [due EXCEPT ![c] =
          [Nothing EXCEPT !.alone =
             ~\E o \in Callers \ {c} :
                 call[o].pc = "store" /\ call[o].ip = Canonical[s]]]
    /\ UNCHANGED lifted

PUnbanRedis(c) ==
    /\ UnbanRedis(c)
    /\ lifted' = IF redis'[call[c].ip] = NoEntry /\ due[c].alone
                 THEN lifted \cup {call[c].ip} ELSE lifted
    /\ UNCHANGED due

PNext ==
    \/ \E c \in Callers :
          \/ \E s \in Spellings : PCheckLocal(c, s) \/ PUnbanLocal(c, s)
          \/ \E s \in Spellings, d \in Durations : PBanExact(c, s, d)
          \/ PUnbanRedis(c)
          \/ /\ \/ CheckNetworks(c) \/ ReadRedis(c) \/ FillLocal(c)
                \/ DropExpired(c) \/ StoreBan(c) \/ ResetLocal(c) \/ ResetRedis(c)
             /\ UNCHANGED history
    \/ Tick /\ UNCHANGED history

PSpec == PInit /\ [][PNext]_<<vars, history>>

----------------------------------------------------------------------------
\* An address is not banned once Unban returned, until it is banned again
\* (ipban_test.go, TestUnban).  A check that read Redis before Unban's
\* delete writes the ban back into the local map after it.
UnbanLifts == \A c \in Callers : due[c].lifted => ~call[c].banned

----------------------------------------------------------------------------
(* The instance that TLC checks: two goroutines of a worker, one address.  *)

CONSTANTS w1, c1, c2, x

MCHomeOne    == (c1 :> w1) @@ (c2 :> w1)
MCCanonicalX == x :> x
MCNoMembers  == <<>>
=============================================================================
