-------------------------- MODULE MCTaskProcessor --------------------------
(* Small instances of TaskProcessor for TLC. *)
EXTENDS TaskProcessor

CONSTANTS c1, c2, d1, b1, b2

\* Two clients of one renderer, one of which talks to the manager too.
TwoClients == {<<c1, d1>>, <<c2, d1>>, <<c1, RSU_SINK>>}

\* One client of one renderer.
OneRoute == {<<c1, d1>>}

\* The requests of each route.
One == [k \in Routes |-> 1]

Three == [k \in Routes |-> 3]

FirstTwice == [k \in Routes |-> IF k = <<c1, d1>> THEN 2 ELSE 1]

============================================================================
