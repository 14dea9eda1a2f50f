------------------------------ MODULE MCEvents ------------------------------
(* A small instance of the path of an event.                               *)
EXTENDS EventProps, TLC

CONSTANTS a1, a2, A, x, y, t1, t2

Objs == {[class |-> A, text |-> x], [class |-> A, text |-> y]}
\* The threads are interchangeable, and so are the texts.
Symmetry == Permutations(Threads) \cup Permutations({x, y})

Sigs == {<<a1>>, <<a2, Value>>}
=============================================================================
