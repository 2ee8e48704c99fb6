----------------------------- MODULE MCSockets -----------------------------
(***************************************************************************)
(* Two pipes that come and go with messages in both directions, and three  *)
(* with the messages of one: what lb_t and fq_t do to a pipe when another  *)
(* one ends shows with the third.                                          *)
(***************************************************************************)
EXTENDS Sockets, TLC

CONSTANTS p1, p2, p3

Case(k, pipes, in, n) == [kind |-> k, pipes |-> pipes, in |-> in, out |-> n]

TwoPipes == {Case("PAIR", 2, 2, 2), Case("PULL", 2, 2, 0), Case("GATHER", 2, 2, 0),
             Case("REQ", 2, 0, 2), Case("REP", 2, 1, 2)}
    \cup {Case(k, 2, 1, 1) : k \in {"DEALER", "ROUTER", "STREAM", "CLIENT", "SERVER"}}

ThreePipes == {Case("PUSH", 3, 0, 3), Case("SCATTER", 3, 0, 2), Case("PULL", 3, 1, 0), Case("GATHER", 3, 1, 0),
               Case("REQ", 3, 0, 1), Case("REP", 3, 1, 0), Case("ROUTER", 3, 0, 1)}

MCCases == TwoPipes \cup ThreePipes

\* A PULL socket is enough to see what KeepsTurn keeps away.
Reading == {Case("PULL", 3, 1, 0)}

Symmetry == Permutations(Pipes)
=============================================================================
