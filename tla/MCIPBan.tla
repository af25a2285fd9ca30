------------------------------ MODULE MCIPBan ------------------------------
(* Small instances of IPBan: the constants that are functions.             *)
EXTENDS IPBan, TLC

CONSTANTS w1, w2, c1, c2, x, xMapped, p, n1, n2

MCHome      == (c1 :> w1) @@ (c2 :> w2)
MCCanonical == (x :> x) @@ (xMapped :> x) @@ (p :> p)
MCMembers   == (n1 :> {x}) @@ (n2 :> {p, x})

\* The two workers, each with its goroutine, are interchangeable.
Interchangeable ==
    {f \in Permutations({w1, w2, c1, c2}) :
        /\ f[w1] \in {w1, w2} /\ f[w2] \in {w1, w2}
        /\ \A c \in {c1, c2} : MCHome[f[c]] = f[MCHome[c]]}
=============================================================================
