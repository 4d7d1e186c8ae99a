------------------------------- MODULE Floats -------------------------------
(***************************************************************************)
(* The float64 values of samples, as far as the query engine tells them    *)
(* apart: exact rationals, the two infinities and NaN, with the            *)
(* comparisons and the arithmetic of IEEE 754 on them.  Rounding, overflow *)
(* and the sign of zero are left out.  This stands for Go's float64 and    *)
(* its package math.                                                       *)
(*                                                                         *)
(* A value is a record n/d in lowest terms with d >= 0.  The values with   *)
(* d = 0 are +Inf (1/0), -Inf (-1/0) and NaN (0/0).                        *)
(***************************************************************************)
EXTENDS Integers, SequencesExt

RECURSIVE gcd(_, _)
LOCAL gcd(a, b) == IF b = 0 THEN a ELSE gcd(b, a % b)

LOCAL Magnitude(i) == IF i < 0 THEN -i ELSE i
LOCAL Reduced(n, d, g) == IF g = 0 THEN [n |-> 0, d |-> 0] ELSE [n |-> n \div g, d |-> d \div g]

Frac(n, d) == Reduced(IF d < 0 THEN -n ELSE n, Magnitude(d), gcd(Magnitude(n), Magnitude(d)))

Q(i) == [n |-> i, d |-> 1]
Zero == Q(0)
One == Q(1)
NaN == [n |-> 0, d |-> 0]
Inf == [n |-> 1, d |-> 0]
NegInf == [n |-> -1, d |-> 0]

IsNaN(x) == x = NaN

-----------------------------------------------------------------------------
(* Arithmetic *)

Add(x, y) ==
    IF y.d # 0 /\ x.d # 0 THEN Frac(x.n * y.d + y.n * x.d, x.d * y.d)
    ELSE IF y.d # 0 THEN x
    ELSE IF x.d # 0 THEN y
    ELSE IF x = y THEN x ELSE NaN

Neg(x) == [x EXCEPT !.n = -@]
Sub(x, y) == Add(x, Neg(y))

Mul(x, y) == Frac(x.n * y.n, x.d * y.d)

LOCAL Inv(x) ==
    IF x = Zero THEN Inf
    ELSE IF IsNaN(x) THEN NaN
    ELSE IF x.d = 0 THEN Zero
    ELSE Frac(x.d, x.n)

Div(x, y) == Mul(x, Inv(y))

\* math.Floor and math.Ceil
Floor(x) == IF x.d = 0 THEN x ELSE Q(x.n \div x.d)
Ceil(x) == Neg(Floor(Neg(x)))

LOCAL Truncated(x) == IF x.n < 0 THEN Ceil(x) ELSE Floor(x)

\* math.Mod: the remainder has the sign of the dividend.
Mod(x, y) ==
    IF y = Zero \/ x.d = 0 \/ IsNaN(y) THEN NaN
    ELSE IF y.d = 0 THEN x
    ELSE Sub(x, Mul(Truncated(Div(x, y)), y))

\* math.Pow, for whole exponents.
LOCAL power[x \in [n : Int, d : Nat], k \in Nat] == IF k = 0 THEN One ELSE Mul(x, power[x, k - 1])
Pow(x, y) == IF y.n >= 0 THEN power[x, y.n] ELSE Inv(power[x, -y.n])

Sum(seq) == FoldLeft(Add, Zero, seq)

-----------------------------------------------------------------------------
(* Comparisons: every one with NaN is false, but # *)

Lt(x, y) ==
    /\ ~IsNaN(x) /\ ~IsNaN(y)
    /\ IF x.d = 0 /\ y.d = 0 THEN x.n < y.n ELSE x.n * y.d < y.n * x.d

Gt(x, y) == Lt(y, x)
Eq(x, y) == x = y /\ ~IsNaN(x)
Leq(x, y) == Lt(x, y) \/ Eq(x, y)
Geq(x, y) == Leq(y, x)

\* math.Min and math.Max: the infinity of their side if either is, or else NaN if
\* either is.
MinOf(x, y) ==
    IF NegInf \in {x, y} THEN NegInf
    ELSE IF NaN \in {x, y} THEN NaN ELSE IF Lt(y, x) THEN y ELSE x
MaxOf(x, y) ==
    IF Inf \in {x, y} THEN Inf
    ELSE IF NaN \in {x, y} THEN NaN ELSE IF Lt(x, y) THEN y ELSE x
=============================================================================
