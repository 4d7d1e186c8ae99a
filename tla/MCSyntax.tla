------------------------------ MODULE MCSyntax ------------------------------
(* A model-checking instance of Syntax. *)
EXTENDS Syntax, TLC

MCNumeral == "0" :> 0 @@ "2" :> 2 @@ "7" :> 7
MCPatterns == {"s"}
MCUnitMs == "s" :> 1000 @@ "m" :> 60000
MCTicks(f) == 1000 * f

x == Ident("x")
Signs(typs) == {Sign(typ) : typ \in typs}
Idents(words) == {Ident(w) : w \in words}
num == Token("number", "2")
bad == Token("number", "1e")
dur == [typ |-> "duration", word |-> "", parts |-> <<<<5, "s">>>>]
long == [typ |-> "duration", word |-> "", parts |-> <<<<1, "m">>, <<30, "s">>>>]

MCAlphabets ==
    {[plain |-> TRUE, length |-> 7,
      tokens |-> {x} \cup Signs({"-", "+", "*", "^", "==", "(", ")"})],
     [plain |-> FALSE, length |-> 6,
      tokens |-> {x} \cup Signs({"+", "<"}) \cup Idents({"unless", "or", "and"})],
     [plain |-> FALSE, length |-> 8,
      tokens |-> {x} \cup Signs({"*", "(", ")", ","}) \cup Idents({"on", "ignoring", "group_left", "bool"})],
     [plain |-> FALSE, length |-> 10,
      tokens |-> {x, Ident("a"), Text("s"), Text("t")} \cup Signs({"{", "}", "=", "!~"})],
     [plain |-> FALSE, length |-> 10,
      tokens |-> {x, Text("s")} \cup Signs({"{", "}", "!=", ","})],
     [plain |-> FALSE, length |-> 8,
      tokens |-> {x, dur} \cup Signs({"[", "]", ":", "-"}) \cup Idents({"offset"})],
     [plain |-> FALSE, length |-> 6,
      tokens |-> {x, long, num, bad} \cup Signs({"-", "@", "(", ")"}) \cup Idents({"offset", "start"})],
     [plain |-> FALSE, length |-> 9,
      tokens |-> {x, num} \cup Signs({"(", ")", ","}) \cup Idents({"topk", "by"})],
     [plain |-> FALSE, length |-> 7,
      tokens |-> {x, Text("s")} \cup Signs({"(", ")", ","}) \cup Idents({"sum", "without", "abs"})]}

X == VectorSelector(<<Matcher("=", "__name__", "x")>>)
MCLeaves ==
    {X, NumberLiteral(7),
     [VectorSelector(<<Matcher("=~", "a", "s")>>) EXCEPT !.at = [kind |-> "end", ts |-> 0]],
     [MatrixSelector(X, 60000) EXCEPT !.offset = 5000, !.at = [kind |-> "time", ts |-> -2000]]}
MCLeaf == [VectorSelector(<<Matcher("=", "__name__", "y")>>) EXCEPT !.offset = 5000]
MCClauses ==
    {NoMatching,
     [NoMatching EXCEPT !.kind = "on", !.labels = <<"a">>],
     [NoMatching EXCEPT !.kind = "ignoring", !.card = "many-to-one", !.include = <<"b">>]}
=============================================================================
