---------------------------- MODULE MCHeadIndex -----------------------------
(* A model-checking instance of HeadIndex. *)
EXTENDS HeadIndex, TLC

MCName == {"job", "env"}
MCVal == {"", "a", "b"}
\* Two series that share a label, of which one is empty, and one without it.
L1 == "job" :> "a" @@ "env" :> "a"
L2 == "job" :> "a" @@ "env" :> ""
L3 == "job" :> "b"
MCLabel == {L1, L2, L3}
\* L1 and L3 collide.
MCHash == L1 :> 1 @@ L2 :> 2 @@ L3 :> 1
MCMatcher ==
    {[type |-> "=",  name |-> "job", value |-> "a", re |-> {}],
     [type |-> "=",  name |-> "env", value |-> "",  re |-> {}],
     [type |-> "!=", name |-> "env", value |-> "a", re |-> {}],
     [type |-> "=~", name |-> "env", value |-> "",  re |-> {"", "a"}],
     [type |-> "!~", name |-> "job", value |-> "",  re |-> {"b"}]}
=============================================================================
