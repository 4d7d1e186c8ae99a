------------------------------- MODULE Syntax -------------------------------
(***************************************************************************)
(* What the parser promises, stated without it: which trees there are, and *)
(* how a tree is written.  A text is typed token by token, and a tree is   *)
(* grown node by node; the parser must agree with both.                    *)
(***************************************************************************)
EXTENDS Parser

CONSTANTS
    Alphabets,      \* bound: [tokens, length, plain]: texts over these tokens; plain
                    \* if they can be written in one way only, but for a unary plus
    Leaves,         \* bound: the trees without operators to grow from, and
    Leaf,           \* the one of them that is the other operand of a grown one
    Clauses,        \* bound: the matchings of a grown binary operator
    Growth          \* bound: how many nodes are added to a leaf

VARIABLES
    alphabet,       \* that of the text; that of a tree has no tokens
    text,           \* the tokens typed
    tree,           \* the tree, in a sequence; none yet is <<>>
    grown           \* the nodes added to it

vars == <<alphabet, text, tree, grown>>

Token(typ, word) == [typ |-> typ, word |-> word, parts |-> <<>>]
Sign(typ) == Token(typ, "")
Ident(word) == Token("identifier", word)
Text(s) == Token("string", s)
DurationOf(ticks) == [typ |-> "duration", word |-> "", parts |-> <<<<ticks \div UnitMs["s"], "s">>>>]

\* The lexer ends every text with EOF.
Input(toks) == Append(toks, Sign("EOF"))

-----------------------------------------------------------------------------
(* How a tree is written *)

\* Operators, loosest first.
Tiers == <<{"or"}, {"and", "unless"}, {"==", "!=", ">", "<", ">=", "<="}, {"+", "-"},
           {"*", "/", "%"}, {"^"}>>
Operators == UNION {Tiers[i] : i \in DOMAIN Tiers}
Tier(op) == CHOOSE i \in DOMAIN Tiers : op \in Tiers[i]

\* An operand that is not in parentheses binds tighter than its operator; on the
\* left side, or on the right of ^, as tight at least.  A minus takes in powers only.
LeftFits(l, op) ==
    CASE l.node = "binary" -> Tier(l.op) > Tier(op) \/ (Tier(l.op) = Tier(op) /\ op # "^")
      [] l.node = "unary" -> op # "^"
      [] OTHER -> TRUE

RightFits(r, op) ==
    r.node = "binary" => Tier(r.op) > Tier(op) \/ (r.op = "^" /\ op = "^")

RECURSIVE WellShaped(_)
WellShaped(e) ==
    CASE e.node = "binary" ->
            /\ LeftFits(e.lhs, e.op) /\ RightFits(e.rhs, e.op)
            /\ WellShaped(e.lhs) /\ WellShaped(e.rhs)
      [] e.node = "unary" ->
            (e.expr.node = "binary" => e.expr.op = "^") /\ WellShaped(e.expr)
      [] e.node \in {"paren", "aggregate", "subquery"} -> WellShaped(e.expr)
      [] e.node = "call" -> \A i \in DOMAIN e.args : WellShaped(e.args[i])
      [] OTHER -> TRUE

Commas(parts) ==    \* the parts, with commas between them
    FlattenSeq([i \in DOMAIN parts |-> (IF i = 1 THEN <<>> ELSE <<Sign(",")>>) \o parts[i]])
Parens(toks) == <<Sign("(")>> \o toks \o <<Sign(")")>>
LabelList(labels) == Parens(Commas([i \in DOMAIN labels |-> <<Ident(labels[i])>>]))

NumberText(f) == CHOOSE w \in DOMAIN Numeral : Numeral[w] = f

YieldSelector(ms) ==
    LET named == ms # <<>> /\ ms[1].name = "__name__" /\ ms[1].type = "="
        rest == IF named THEN Tail(ms) ELSE ms
        braces == Commas([i \in DOMAIN rest |->
                      <<Ident(rest[i].name), Sign(rest[i].type), Text(rest[i].value)>>])
    IN  (IF named THEN <<Ident(ms[1].value)>> ELSE <<>>)
        \o (IF rest = <<>> THEN <<>> ELSE <<Sign("{")>> \o braces \o <<Sign("}")>>)

Signed(i, tok) == IF i < 0 THEN <<Sign("-"), tok>> ELSE <<tok>>
Abs(i) == IF i < 0 THEN -i ELSE i

YieldModifiers(e) ==
    (IF e.offset = 0 THEN <<>> ELSE <<Ident("offset")>> \o Signed(e.offset, DurationOf(Abs(e.offset))))
    \o CASE e.at.kind = "none" -> <<>>
         [] e.at.kind = "time" ->
               LET w == CHOOSE u \in DOMAIN Numeral : Ticks(Numeral[u]) = Abs(e.at.ts)
               IN  <<Sign("@")>> \o Signed(e.at.ts, Token("number", w))
         [] OTHER -> <<Sign("@"), Ident(e.at.kind)>> \o Parens(<<>>)

YieldMatching(m) ==
    (IF m.kind = "none" THEN <<>> ELSE <<Ident(m.kind)>> \o LabelList(m.labels))
    \o CASE m.card = "one-to-one" -> <<>>
         [] m.card = "many-to-one" -> <<Ident("group_left")>> \o LabelList(m.include)
         [] m.card = "one-to-many" -> <<Ident("group_right")>> \o LabelList(m.include)

\* The tokens of a tree.  What can be written in several ways is written in one.
RECURSIVE Yield(_)
Yield(e) ==
    CASE e.node = "number" -> <<Token("number", NumberText(e.num))>>
      [] e.node = "string" -> <<Text(e.str)>>
      [] e.node = "paren" -> Parens(Yield(e.expr))
      [] e.node = "unary" -> <<Sign("-")>> \o Yield(e.expr)
      [] e.node = "vector" -> YieldSelector(e.matchers) \o YieldModifiers(e)
      [] e.node = "matrix" ->
            YieldSelector(e.vs.matchers) \o <<Sign("["), DurationOf(e.range), Sign("]")>>
            \o YieldModifiers(e)
      [] e.node = "subquery" ->
            Yield(e.expr) \o <<Sign("["), DurationOf(e.range), Sign(":")>>
            \o (IF e.step = 0 THEN <<>> ELSE <<DurationOf(e.step)>>) \o <<Sign("]")>>
            \o YieldModifiers(e)
      [] e.node = "call" -> <<Ident(e.func)>> \o Parens(Commas([i \in DOMAIN e.args |-> Yield(e.args[i])]))
      [] e.node = "aggregate" ->
            <<Ident(e.op)>>
            \o (IF e.without THEN <<Ident("without")>> \o LabelList(e.grouping)
                ELSE IF e.grouping # <<>> THEN <<Ident("by")>> \o LabelList(e.grouping) ELSE <<>>)
            \o Parens(Commas(IF e.param = <<>> THEN <<Yield(e.expr)>>
                             ELSE <<Yield(e.param[1]), Yield(e.expr)>>))
      [] e.node = "binary" ->
            Yield(e.lhs)
            \o <<IF e.op \in {"or", "and", "unless"} THEN Ident(e.op) ELSE Sign(e.op)>>
            \o (IF e.bool THEN <<Ident("bool")>> ELSE <<>>)
            \o YieldMatching(e.matching) \o Yield(e.rhs)

-----------------------------------------------------------------------------
(* Typing and growing *)

NoTokens == [tokens |-> {}, length |-> 0, plain |-> FALSE]

Init ==
    /\ alphabet \in Alphabets \cup {NoTokens}
    /\ text = <<>>
    /\ tree = <<>>
    /\ grown = 0

\* The next token, unless the text is wrong already, whatever follows.
Type(token) ==
    /\ Len(text) < alphabet.length
    /\ LET r == Parse(Input(text)) IN r.ok \/ r.pos > Len(text)
    /\ text' = Append(text, token)
    /\ UNCHANGED <<alphabet, tree, grown>>

Plant ==
    /\ alphabet = NoTokens
    /\ tree = <<>>
    /\ \E leaf \in Leaves : tree' = <<leaf>>
    /\ UNCHANGED <<alphabet, text, grown>>

\* The trees with one more node at the root.  A range binds to what is left of it.
Grown(e) ==
    {ParenExpr(e), UnaryExpr(e), Call("absent", <<e>>), Call("time", <<>>),
     Call("clamp_max", <<e, Leaf>>),
     AggregateExpr("sum", <<>>, e, [without |-> FALSE, labels |-> <<"a", "b">>]),
     AggregateExpr("max", <<>>, e, [without |-> TRUE, labels |-> <<>>]),
     AggregateExpr("topk", <<e>>, Leaf, [without |-> FALSE, labels |-> <<>>])}
    \cup {BinaryExpr(op, e, Leaf, m, FALSE) : op \in Operators, m \in Clauses}
    \cup {BinaryExpr(op, Leaf, e, NoMatching, op \in Tiers[3]) : op \in Operators}
    \cup IF e.node \notin {"paren", "call", "aggregate", "number"} THEN {}
         ELSE {SubqueryExpr(e, 5 * UnitMs["s"], 0),
               [SubqueryExpr(e, 5 * UnitMs["s"], UnitMs["s"]) EXCEPT !.offset = -2 * UnitMs["s"]]}

Grow ==
    /\ tree # <<>>
    /\ grown < Growth
    /\ \E e \in Grown(tree[1]) : WellShaped(e) /\ tree' = <<e>>
    /\ grown' = grown + 1
    /\ UNCHANGED <<alphabet, text>>

Next ==
    \/ \E token \in alphabet.tokens : Type(token)
    \/ Plant
    \/ Grow

Spec == Init /\ [][Next]_vars

-----------------------------------------------------------------------------
(* Properties *)

\* A plus that is no binary operator: at the start, or after an operator or an
\* opening parenthesis.
UnaryPlus(i) ==
    /\ text[i].typ = "+"
    /\ \/ i = 1
       \/ text[i - 1].typ \in Operators \cup {"("}

WithoutUnaryPlus ==
    LET marked == [i \in DOMAIN text |-> [token |-> text[i], drop |-> UnaryPlus(i)]]
        kept == SelectSeq(marked, LAMBDA m : ~m.drop)
    IN  [i \in DOMAIN kept |-> kept[i].token]

\* A text that is accepted is read as its operators bind (parseExpr, parseUnary);
\* writing the tree and reading it again gives the same tree; and, over a plain
\* alphabet, the tree holds every token of the text in its order.  Whatever the text,
\* the parser, which indexes its tokens without a check, never looks past EOF.
ReadAsWritten ==
    LET r == Parse(Input(text))
    IN  /\ r.pos <= Len(Input(text))
        /\ r.ok => /\ WellShaped(r.val)
                   /\ Parse(Input(Yield(r.val))) = Found(r.val, Len(Yield(r.val)) + 1)
                   /\ alphabet.plain => Yield(r.val) = WithoutUnaryPlus

\* Every tree that can be written is read from what is written for it.
EveryTreeIsRead ==
    \A i \in DOMAIN tree : Parse(Input(Yield(tree[i]))) = Found(tree[i], Len(Yield(tree[i])) + 1)
=============================================================================
