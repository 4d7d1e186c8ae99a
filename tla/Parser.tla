------------------------------- MODULE Parser -------------------------------
(***************************************************************************)
(* The parser of queries (internal/promql/parse.go, ast.go): recursive     *)
(* descent with precedence climbing, on the tokens of the lexer.           *)
(*                                                                         *)
(* A token is [typ, word, parts]: word is the text of an identifier, a     *)
(* string or a number, parts the number and unit pairs of a duration.      *)
(* The lexer (lex.go) cuts a text into such tokens and ends it with "EOF"; *)
(* the characters are left out.                                            *)
(*                                                                         *)
(* Every function of the parser takes the tokens and a position and gives  *)
(* [ok, val, pos]: what it read and the position after it, or, if not ok,  *)
(* the position of the token that it did not expect.                       *)
(***************************************************************************)
EXTENDS Integers, SequencesExt

CONSTANTS
    Numeral,        \* the texts that strconv.ParseFloat accepts -> the value
    Patterns,       \* the texts that regexp.Compile accepts
    UnitMs,         \* unit of a duration -> its length in ticks
    MaxInt,         \* the greatest int64
    Ticks(_)        \* int64(f * 1000) of a number f of seconds

Found(x, pos) == [ok |-> TRUE, val |-> x, pos |-> pos]
Unexpected(pos) == [ok |-> FALSE, pos |-> pos]

\* F(r.val, r.pos), unless r is an error.
Then(r, F(_, _)) == IF r.ok THEN F(r.val, r.pos) ELSE r

\* peek.  Past the last token, where the code would panic, there is none.
Typ(toks, pos) == IF pos \in DOMAIN toks THEN toks[pos].typ ELSE "none"
Word(toks, pos) == IF Typ(toks, pos) = "identifier" THEN toks[pos].word ELSE ""

\* F of the position after the token, which has to be of type typ.
Expect(toks, pos, typ, F(_)) == IF Typ(toks, pos) = typ THEN F(pos + 1) ELSE Unexpected(pos)

-----------------------------------------------------------------------------
(* The nodes of the tree *)

NoAt == [kind |-> "none", ts |-> 0]
NoMatching == [kind |-> "none", labels |-> <<>>, card |-> "one-to-one", include |-> <<>>]

NumberLiteral(v) == [node |-> "number", num |-> v]
StringLiteral(s) == [node |-> "string", str |-> s]
ParenExpr(e) == [node |-> "paren", expr |-> e]
UnaryExpr(e) == [node |-> "unary", expr |-> e]
VectorSelector(ms) == [node |-> "vector", matchers |-> ms, offset |-> 0, at |-> NoAt]
MatrixSelector(vs, rng) ==
    [node |-> "matrix", vs |-> vs, range |-> rng, offset |-> 0, at |-> NoAt]
SubqueryExpr(e, rng, step) ==
    [node |-> "subquery", expr |-> e, range |-> rng, step |-> step, offset |-> 0, at |-> NoAt]
Call(func, args) == [node |-> "call", func |-> func, args |-> args]
AggregateExpr(op, param, e, clause) ==
    [node |-> "aggregate", op |-> op, param |-> param, expr |-> e,
     without |-> clause.without, grouping |-> clause.labels]
BinaryExpr(op, lhs, rhs, matching, returnBool) ==
    [node |-> "binary", op |-> op, lhs |-> lhs, rhs |-> rhs, matching |-> matching,
     bool |-> returnBool]

Matcher(type, name, value) == [type |-> type, name |-> name, value |-> value]

paramAggregators == {"topk", "bottomk", "quantile", "count_values"}
aggregators == {"sum", "avg", "min", "max", "count", "stddev", "stdvar", "group"} \cup paramAggregators

functions == {
    "rate", "irate", "increase", "delta", "idelta", "deriv", "predict_linear", "changes", "resets",
    "sum_over_time", "avg_over_time", "min_over_time", "max_over_time", "count_over_time",
    "stddev_over_time", "stdvar_over_time", "last_over_time", "present_over_time",
    "quantile_over_time", "abs", "ceil", "floor", "round", "exp", "ln", "log2", "log10", "sqrt",
    "sgn", "clamp", "clamp_max", "clamp_min", "scalar", "vector", "sort", "sort_desc", "absent",
    "absent_over_time", "label_replace", "label_join", "histogram_quantile", "time", "timestamp",
    "day_of_month", "day_of_week", "day_of_year", "days_in_month", "hour", "minute", "month",
    "year"}

-----------------------------------------------------------------------------
(* Lists, durations and modifiers *)

WrapInt(i) == ((i + MaxInt + 1) % (2 * MaxInt + 2)) - MaxInt - 1

\* parseDuration: the sum of its parts; a part is <<number, unit>>.  A text that
\* does not end with a unit, or has a letter that is none, is malformed.
parseDuration(parts) ==
    FoldLeft(LAMBDA total, p : WrapInt(total + p[1] * UnitMs[p[2]]), 0, parts)

\* F of the number at pos, and of the position after it.  The lexer lets texts
\* through that are none, such as 1e.
Number(toks, pos, F(_, _)) ==
    IF toks[pos].word \in DOMAIN Numeral THEN F(Numeral[toks[pos].word], pos + 1) ELSE Unexpected(pos)

\* F of the duration at pos, and of the position after it.
Duration(toks, pos, F(_, _)) ==
    Expect(toks, pos, "duration", LAMBDA after :
        IF \A i \in DOMAIN toks[pos].parts : toks[pos].parts[i][2] \in DOMAIN UnitMs
        THEN F(parseDuration(toks[pos].parts), after) ELSE Unexpected(pos))

LabelName(toks, pos) ==
    Expect(toks, pos, "identifier", LAMBDA p : Found(Word(toks, pos), p))

\* name op "value".
OneMatcher(toks, pos) ==
    Expect(toks, pos, "identifier", LAMBDA p :
        IF Typ(toks, p) \notin {"=", "!=", "=~", "!~"} THEN Unexpected(p)
        ELSE Expect(toks, p + 1, "string", LAMBDA after :
                IF Typ(toks, p) \in {"=~", "!~"} /\ toks[p + 1].word \notin Patterns
                THEN Unexpected(p + 1)
                ELSE Found(Matcher(Typ(toks, p), Word(toks, pos), toks[p + 1].word), after)))

\* Matchers up to a brace, or label names up to a parenthesis, with commas between
\* them; one more may follow the last.
RECURSIVE Elements(_, _, _)
Elements(toks, pos, close) ==
    IF Typ(toks, pos) = close THEN Found(<<>>, pos + 1)
    ELSE Then(IF close = "}" THEN OneMatcher(toks, pos) ELSE LabelName(toks, pos), LAMBDA x, p :
            CASE Typ(toks, p) = "," ->
                    Then(Elements(toks, p + 1, close), LAMBDA xs, after : Found(<<x>> \o xs, after))
              [] Typ(toks, p) = close -> Found(<<x>>, p + 1)
              [] OTHER -> Unexpected(p))

parseLabelList(toks, pos) == Expect(toks, pos, "(", LAMBDA p : Elements(toks, p, ")"))
parseMatchers(toks, pos) == Expect(toks, pos, "{", LAMBDA p : Elements(toks, p, "}"))

\* The name, if any, is read already; name and braces must not both be empty.
parseSelectorFrom(toks, pos, name) ==
    LET named == IF name = "" THEN <<>> ELSE <<Matcher("=", "__name__", name)>>
        braces == IF Typ(toks, pos) = "{" THEN parseMatchers(toks, pos) ELSE Found(<<>>, pos)
    IN  Then(braces, LAMBDA ms, p :
            IF named \o ms = <<>> THEN Unexpected(p) ELSE Found(VectorSelector(named \o ms), p))

\* The clauses that may follow a binary operator.  group_left and group_right may
\* stand alone, and then match as an empty ignoring does.
parseVectorMatching(toks, pos) ==
    LET clause == IF Word(toks, pos) \notin {"on", "ignoring"}
                  THEN Found(NoMatching, pos)
                  ELSE Then(parseLabelList(toks, pos + 1), LAMBDA labels, p :
                          Found([NoMatching EXCEPT !.kind = Word(toks, pos), !.labels = labels], p))
        grouped(m, card, p) ==
            LET mm == [m EXCEPT !.card = card,
                                !.kind = IF @ = "none" THEN "ignoring" ELSE @]
            IN  IF Typ(toks, p) # "(" THEN Found(mm, p)
                ELSE Then(parseLabelList(toks, p), LAMBDA labels, after :
                        Found([mm EXCEPT !.include = labels], after))
    IN  Then(clause, LAMBDA m, p :
            CASE Word(toks, p) = "group_left" -> grouped(m, "many-to-one", p + 1)
              [] Word(toks, p) = "group_right" -> grouped(m, "one-to-many", p + 1)
              [] OTHER -> Found(m, p))

parseAtModifier(toks, pos) ==
    CASE Typ(toks, pos) = "number" ->
            Number(toks, pos, LAMBDA f, p : Found([kind |-> "time", ts |-> Ticks(f)], p))
      [] Typ(toks, pos) = "-" ->
            Expect(toks, pos + 1, "number", LAMBDA p :
                Found([kind |-> "time", ts |-> IF toks[pos + 1].word \in DOMAIN Numeral
                                               THEN -Ticks(Numeral[toks[pos + 1].word]) ELSE 0], p))
      [] Typ(toks, pos) = "identifier" ->
            Expect(toks, pos + 1, "(", LAMBDA p : Expect(toks, p, ")", LAMBDA after :
                IF Word(toks, pos) \in {"start", "end"}
                THEN Found([kind |-> Word(toks, pos), ts |-> 0], after) ELSE Unexpected(pos)))
      [] OTHER -> Unexpected(pos)

\* setOffset and setAt: where a modifier may stand.
Modifiable(e) == e.node \in {"vector", "matrix", "subquery"}

RECURSIVE Modifiers(_, _, _)
Modifiers(toks, pos, e) ==
    LET sign == IF Typ(toks, pos + 1) \in {"-", "+"} THEN Typ(toks, pos + 1) ELSE ""
        offset(off, p) ==
            IF ~Modifiable(e) THEN Unexpected(p)
            ELSE Modifiers(toks, p, [e EXCEPT !.offset = IF sign = "-" THEN WrapInt(-off) ELSE off])
        at(x, p) ==
            IF ~Modifiable(e) THEN Unexpected(p) ELSE Modifiers(toks, p, [e EXCEPT !.at = x])
    IN  CASE Word(toks, pos) = "offset" ->
                Duration(toks, IF sign = "" THEN pos + 1 ELSE pos + 2, offset)
          [] Typ(toks, pos) = "@" -> Then(parseAtModifier(toks, pos + 1), at)
          [] OTHER -> Found(e, pos)

\* A [range] or [range:step], and after it the modifiers.
parsePostfix(toks, pos, e) ==
    LET subquery(rng, step, p) ==
            Expect(toks, p, "]", LAMBDA after : Found(SubqueryExpr(e, rng, step), after))
        ranged ==
            Duration(toks, pos + 1, LAMBDA rng, p :
                CASE Typ(toks, p) = ":" /\ Typ(toks, p + 1) = "duration" ->
                        Duration(toks, p + 1, LAMBDA step, after : subquery(rng, step, after))
                  [] Typ(toks, p) = ":" /\ Typ(toks, p + 1) # "duration" -> subquery(rng, 0, p + 1)
                  [] OTHER -> Expect(toks, p, "]", LAMBDA after :
                        IF e.node = "vector" THEN Found(MatrixSelector(e, rng), after)
                        ELSE Unexpected(after)))
    IN  Then(IF Typ(toks, pos) = "[" THEN ranged ELSE Found(e, pos),
             LAMBDA ee, p : Modifiers(toks, p, ee))

-----------------------------------------------------------------------------
(* Expressions *)

\* Mutant: unless binds like or.
binaryPrecUnless(op) ==
    CASE op \in {"or", "unless"} -> 1
      [] op = "and" -> 2
      [] op \in {"==", "!=", ">", "<", ">=", "<="} -> 3
      [] op \in {"+", "-"} -> 4
      [] op \in {"*", "/", "%"} -> 5
      [] op = "^" -> 6
      [] OTHER -> 0

binaryPrec(op) ==
    CASE op = "or" -> 1
      [] op \in {"and", "unless"} -> 2
      [] op \in {"==", "!=", ">", "<", ">=", "<="} -> 3
      [] op \in {"+", "-"} -> 4
      [] op \in {"*", "/", "%"} -> 5
      [] op = "^" -> 6
      [] OTHER -> 0

\* The binary operator at pos: a keyword, or a token; its precedence is 0 if
\* there is none.
binaryOp(toks, pos) ==
    IF Typ(toks, pos) = "identifier"
    THEN (IF Word(toks, pos) \in {"or", "and", "unless"} THEN Word(toks, pos) ELSE "")
    ELSE Typ(toks, pos)

RECURSIVE parseExpr(_, _, _), Climb(_, _, _, _), parseUnary(_, _), Arguments(_, _)

\* Mutant: no operator is right-associative.
nextMinLeft(op) == binaryPrec(op) + 1

\* The least precedence of an operator in the right operand of op.
nextMin(op) == IF op = "^" THEN binaryPrec(op) ELSE binaryPrec(op) + 1

\* left, and the operators after it that bind at least as tight as minPrec.
Climb(toks, pos, left, minPrec) ==
    LET op == binaryOp(toks, pos)
        returnBool == Word(toks, pos + 1) = "bool"
        matching == parseVectorMatching(toks, IF returnBool THEN pos + 2 ELSE pos + 1)
    IN  IF binaryPrec(op) = 0 \/ binaryPrec(op) < minPrec THEN Found(left, pos)
        ELSE Then(matching, LAMBDA m, p : Then(parseExpr(toks, p, nextMin(op)), LAMBDA right, after :
                Climb(toks, after, BinaryExpr(op, left, right, m, returnBool), minPrec)))

parseExpr(toks, pos, minPrec) ==
    Then(parseUnary(toks, pos), LAMBDA left, p : Climb(toks, p, left, minPrec))

\* One argument at least, separated by commas.
Arguments(toks, pos) ==
    Then(parseExpr(toks, pos, 0), LAMBDA a, p :
        IF Typ(toks, p) # "," THEN Found(<<a>>, p)
        ELSE Then(Arguments(toks, p + 1), LAMBDA rest, after : Found(<<a>> \o rest, after)))

parseCall(toks, pos) ==
    Expect(toks, pos + 1, "(", LAMBDA p :
        Then(IF Typ(toks, p) = ")" THEN Found(<<>>, p) ELSE Arguments(toks, p), LAMBDA args, q :
            Expect(toks, q, ")", LAMBDA after : Found(Call(Word(toks, pos), args), after))))

\* by (...) or without (...), if it is there.
NoClause == [given |-> FALSE, without |-> FALSE, labels |-> <<>>]
parseGrouping(toks, pos) ==
    IF Word(toks, pos) \notin {"by", "without"} THEN Found(NoClause, pos)
    ELSE Then(parseLabelList(toks, pos + 1), LAMBDA labels, p :
            Found([given |-> TRUE, without |-> Word(toks, pos) = "without", labels |-> labels], p))

\* The parameter of those that have one is followed by a comma.
parseParam(toks, pos, op) ==
    IF op \notin paramAggregators THEN Found(<<>>, pos)
    ELSE Then(parseExpr(toks, pos, 0), LAMBDA e, p :
            Expect(toks, p, ",", LAMBDA after : Found(<<e>>, after)))

\* The grouping stands before the arguments, or after them.
parseAggregate(toks, pos) ==
    LET op == Word(toks, pos)
        body(first, start) ==
            Expect(toks, start, "(", LAMBDA p :
                Then(parseParam(toks, p, op), LAMBDA param, p2 :
                    Then(parseExpr(toks, p2, 0), LAMBDA inner, p3 :
                        Expect(toks, p3, ")", LAMBDA p4 :
                            Then(IF first.given THEN Found(first, p4) ELSE parseGrouping(toks, p4),
                                 LAMBDA clause, p5 :
                                     Found(AggregateExpr(op, param, inner, clause), p5))))))
    IN  Then(parseGrouping(toks, pos + 1), body)

parsePrimary(toks, pos) ==
    LET word == Word(toks, pos)
        base ==
            CASE Typ(toks, pos) = "number" -> Number(toks, pos, LAMBDA f, p : Found(NumberLiteral(f), p))
              [] Typ(toks, pos) = "string" -> Found(StringLiteral(toks[pos].word), pos + 1)
              [] Typ(toks, pos) = "(" ->
                    Then(parseExpr(toks, pos + 1, 0), LAMBDA e, p :
                        Expect(toks, p, ")", LAMBDA after : Found(ParenExpr(e), after)))
              [] Typ(toks, pos) = "{" -> parseSelectorFrom(toks, pos, "")
              [] Typ(toks, pos) = "identifier" ->
                    IF word \in aggregators THEN parseAggregate(toks, pos)
                    ELSE IF word \in functions THEN parseCall(toks, pos)
                    ELSE parseSelectorFrom(toks, pos + 1, word)
              [] OTHER -> Unexpected(pos)
    IN  Then(base, LAMBDA e, p : parsePostfix(toks, p, e))

\* The operand of a minus takes in the powers that follow; a plus vanishes.
parseUnary(toks, pos) ==
    CASE Typ(toks, pos) = "-" ->
            Then(parseExpr(toks, pos + 1, binaryPrec("^")), LAMBDA e, p : Found(UnaryExpr(e), p))
      [] Typ(toks, pos) = "+" -> parseUnary(toks, pos + 1)
      [] OTHER -> parsePrimary(toks, pos)

\* Parse, of the tokens of a text.
Parse(toks) ==
    Then(parseExpr(toks, 1, 0), LAMBDA e, p :
        IF Typ(toks, p) = "EOF" THEN Found(e, p) ELSE Unexpected(p))

\* ParseMatchers: a bare selector, whose range and modifiers are ignored.
ParseMatchers(toks) ==
    Then(Parse(toks), LAMBDA e, p :
        CASE e.node = "vector" -> Found(e.matchers, p)
          [] e.node = "matrix" -> Found(e.vs.matchers, p)
          [] OTHER -> Unexpected(p))
=============================================================================
