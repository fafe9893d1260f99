------------------------------- MODULE Values -------------------------------
(***************************************************************************)
(* Runtime values of the interpreter (value.h, value.c) and the arithmetic *)
(* of interp.c on them.  A Value is a type tag with a payload; the payload *)
(* union is one integer here.  VT_NONE and VT_STRUCT values carry 0: the   *)
(* interpreter never reads a struct's fields (no member access yet), and   *)
(* struct instantiation is in Interp for its evaluations and faults.       *)
(*                                                                         *)
(* Floats are fixed-point numbers: the payload counts units, a result that *)
(* is no multiple of the unit is cut off.  Infinities, NaN and the         *)
(* negative zero are left out.                                             *)
(***************************************************************************)
EXTENDS Integers

CONSTANTS
  Modulus,      \* number of values of each integer type: 2^8 for i8, ...
  FloatUnit     \* how many units make 1.0

IntTypes == {"i8", "i16", "i32", "i64", "u8", "u16", "u32", "u64"}
SignedTypes == {"i8", "i16", "i32", "i64"}
FloatTypes == {"f32", "f64"}
NumberTypes == IntTypes \cup FloatTypes
ValueTypes == NumberTypes \cup {"none", "struct", "enum", "function"}

ASSUME ModulusAssumption == Modulus \in [IntTypes -> Nat \ {0, 1}]
ASSUME FloatUnitAssumption == FloatUnit \in Nat \ {0}

Tagged == [t : ValueTypes, n : Int]
Zero(t) == [t |-> t, n |-> 0]
None == Zero("none")

\* Stands for the type of a cast that is no identifier but a member expression.
MemberType == "(member)"

\* get_value_type_from_string: names other than the numeric types give VT_NONE.
ValueTypeOf(name) == IF name \in NumberTypes THEN name ELSE "none"

Low(t) == IF t \in SignedTypes THEN -(Modulus[t] \div 2) ELSE 0
Wrap(t, n) == ((n - Low(t)) % Modulus[t]) + Low(t)

\* The payload is one the type can hold; payloads of other types do not matter.
Fits(v) == v.t \in IntTypes => Wrap(v.t, v.n) = v.n
Value == {v \in Tagged : Fits(v)}

\* What a variable of the type keeps of a result.
Stored(t, n) == IF t \in IntTypes THEN Wrap(t, n) ELSE n

\* The condition test of if and while: only the low byte of the payload counts, which
\* in a float of few digits is zero.
Truth(v) == v.t \notin FloatTypes /\ v.n % 256 = 1

(***************************************************************************)
(* The outcome of a computation: a value, or the way the process ends.     *)
(***************************************************************************)
Outcome == [fault : {"none", "abort", "exit", "crash"}, value : Value]
OK(v) == [fault |-> "none", value |-> v]
Fault(f) == [fault |-> f, value |-> None]

Abs(n) == IF n < 0 THEN -n ELSE n
Quotient(a, b) ==    \* C division truncates towards zero
  (IF (a < 0) = (b < 0) THEN 1 ELSE -1) * (Abs(a) \div Abs(b))

(***************************************************************************)
(* cast_value converts through long double, and cuts a fraction off.  A    *)
(* value the target type cannot hold is an out-of-range float conversion,  *)
(* undefined in C: the build wraps it or produces the machine's            *)
(* "indefinite" integer, whose low bits are the least value of the type    *)
(* or 0.                                                                   *)
(***************************************************************************)
Converted(v, t) ==
  IF (v.t \in FloatTypes) = (t \in FloatTypes) THEN v.n
  ELSE IF t \in FloatTypes THEN v.n * FloatUnit
  ELSE Quotient(v.n, FloatUnit)

Fitted(t, n) == IF Stored(t, n) = n THEN {n} ELSE {Wrap(t, n), Low(t), 0}

Cast(v, t) ==
  IF v.t \in NumberTypes /\ t \in NumberTypes
  THEN {OK([t |-> t, n |-> k]) : k \in Fitted(t, Converted(v, t))}
  ELSE {Fault("abort")}

\* The auto-cast of the right operand to the type of the left one.
AutoCast(v, t) == IF v.t = t THEN {OK(v)} ELSE Cast(v, t)

ArithOps == {"+", "-", "*", "/"}
CompareOps == {"==", "!=", "<", ">", "<=", ">="}

Unit(t) == IF t \in FloatTypes THEN FloatUnit ELSE 1
Arith(t, op, a, b) ==
  CASE op = "+" -> a + b
    [] op = "-" -> a - b
    [] op = "*" -> Quotient(a * b, Unit(t))
    [] op = "/" -> Quotient(a * Unit(t), b)

Compare(op, a, b) ==
  CASE op = "==" -> a = b
    [] op = "!=" -> a # b
    [] op = "<"  -> a < b
    [] op = ">"  -> a > b
    [] op = "<=" -> a <= b
    [] op = ">=" -> a >= b

\* idiv traps on the least value divided by -1; narrower types are promoted.
DivisionTraps(t, a, b) == t \in {"i32", "i64"} /\ a = Low(t) /\ b = -1

\* Mutant: the result of an operation is not stored in its type.
ApplyUnwrapped(op, l, r) ==
  IF op \in CompareOps THEN OK([t |-> "u8", n |-> IF Compare(op, l.n, r.n) THEN 1 ELSE 0])
  ELSE IF op \in {"+", "-", "*"} THEN OK([t |-> l.t, n |-> Arith(l.t, op, l.n, r.n)])
  ELSE Fault("exit")

(***************************************************************************)
(* The operator switch of evaluate_bin_expr for operands of one type.  The *)
(* zero test of a division comes before the type test; an operator without *)
(* a branch (the parser also accepts %) gives the zero of the left type.   *)
(***************************************************************************)
Apply(op, l, r) ==
  IF op = "/" /\ r.n = 0 THEN Fault("exit")
  ELSE IF op \notin ArithOps \cup CompareOps THEN OK(Zero(l.t))
  ELSE IF l.t \notin NumberTypes THEN Fault("abort")
  ELSE IF op \in CompareOps
       THEN OK([t |-> "u8", n |-> IF Compare(op, l.n, r.n) THEN 1 ELSE 0])
  ELSE IF op = "/" /\ DivisionTraps(l.t, l.n, r.n) THEN Fault("crash")
  ELSE OK([t |-> l.t, n |-> Stored(l.t, Arith(l.t, op, l.n, r.n))])

BinaryOutcomes(op, l, r) ==
  {IF c.fault = "none" THEN Apply(op, l, c.value) ELSE c : c \in AutoCast(r, l.t)}

(***************************************************************************)
(* evaluate_assign_expr: the operand is cast to the type of the variable's *)
(* present value, and "=" demands a numeric type too.                      *)
(***************************************************************************)
AssignOps == {"=", "+=", "-=", "*=", "/=", "%="}
BinaryOf(op) == CASE op = "+=" -> "+" [] op = "-=" -> "-"
                  [] op = "*=" -> "*" [] op = "/=" -> "/" [] OTHER -> op

ApplyAssign(op, var, v) ==
  IF op # "=" THEN Apply(BinaryOf(op), var, v)
  ELSE IF var.t \in NumberTypes THEN OK(v) ELSE Fault("abort")

\* Mutant: the value takes its place as it is.
AssignUncast(op, var, v) == {ApplyAssign(op, var, v)}

AssignOutcomes(op, var, v) ==
  {IF c.fault = "none" THEN ApplyAssign(op, var, c.value) ELSE c : c \in AutoCast(v, var.t)}

\* The unary operator: minus negates a number, any other operator gives zero.
NegateOutcome(op, v) ==
  IF op # "-" THEN OK(Zero(v.t))
  ELSE IF v.t \in NumberTypes THEN OK([t |-> v.t, n |-> Stored(v.t, -v.n)])
  ELSE Fault("abort")
=============================================================================
