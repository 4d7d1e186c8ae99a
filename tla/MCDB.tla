------------------------------- MODULE MCDB ---------------------------------
(* Model-checking instances of DB. *)
EXTENDS DB, TLC

CONSTANTS a1, a2, l1, l2, l3

\* Appenders and label sets are interchangeable.
Sym == {p @@ q : p \in Permutations({a1, a2}), q \in Permutations({l1, l2, l3})}

\* Bound: no recovery runs on a recovery after a system call has failed.
FewFaults == crashes + fails <= 2
=============================================================================
