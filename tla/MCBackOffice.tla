---------------------------- MODULE MCBackOffice ----------------------------
(***************************************************************************)
(* Model checking of BackOffice: any three of these requests.              *)
(***************************************************************************)
EXTENDS BackOffice, TLC

CONSTANTS paper, draft, t1, t2, a1, s1, b1, g1, c1

MCRequest == {t1, t2, a1, s1, b1, g1, c1}

\* The launch plan grows or loses all its slots, the other one is added, open or
\* closed; the bucket route may leave the total out.
MCOrders ==
    {[plan |-> paper, total |-> n, flag |-> n # 0] : n \in {0, 2, Keep}} \cup
    {[plan |-> draft, total |-> 1, flag |-> open] : open \in BOOLEAN} \cup
    {[plan |-> draft, total |-> Keep, flag |-> FALSE]}

\* The two tickets are alike.
Symmetry == Permutations({t1, t2})

=============================================================================
