------------------------------- MODULE Types -------------------------------
(***************************************************************************)
(* The SQL values of src/type: the integer types TINYINT, SMALLINT,        *)
(* INTEGER and BIGINT, BOOLEAN and VARCHAR, with the arithmetic, the       *)
(* comparisons and the casts of Value.  DECIMAL (a C++ double) and the     *)
(* conversions between BOOLEAN and VARCHAR are left out.                   *)
(*                                                                         *)
(* Integers keep a width, Bits[t], so that conversions wrap as they do in  *)
(* the code; C++'s int has the width of INTEGER.  The builds of the        *)
(* repository compile without optimisation, where an overflowing signed    *)
(* operation wraps too.  A string is the sequence of its character codes.  *)
(***************************************************************************)
EXTENDS Integers, Sequences, FiniteSetsExt

CONSTANT Bits      \* Bits[t]: the width of integer type t

IntTypes == {"TINYINT", "SMALLINT", "INTEGER", "BIGINT"}
TypeIds == IntTypes \cup {"BOOLEAN", "VARCHAR"}

\* The product of two SMALLINTs fits C++'s int.
ASSUME BitsAssumption ==
  /\ Bits \in [TypeIds \ {"VARCHAR"} -> Nat \ {0, 1}]
  /\ Bits["BOOLEAN"] = Bits["TINYINT"]
  /\ Bits["TINYINT"] < Bits["SMALLINT"]
  /\ 2 * Bits["SMALLINT"] <= Bits["INTEGER"]
  /\ Bits["INTEGER"] < Bits["BIGINT"]

-----------------------------------------------------------------------------
(* Values.                                                                 *)

\* SCHAR_MIN, SHRT_MIN, ...: the pattern that stands for NULL.
Lowest(t) == -(2 ^ (Bits[t] - 1))
\* PELOTON_INT8_MIN ... and PELOTON_INT8_MAX ...: the range of proper values.
MinOf(t) == Lowest(t) + 1
MaxOf(t) == 2 ^ (Bits[t] - 1) - 1

\* Conversion of n to a signed integer of w bits.
Wrap(w, n) == ((n + 2 ^ (w - 1)) % (2 ^ w)) - 2 ^ (w - 1)

\* Value(type, intN_t i): the union member takes i, size_.len says NULL.
NewValue(t, i) ==
  LET n == Wrap(Bits[t], i)
  IN  [type |-> t, num |-> n, text |-> <<>>, null |-> n = Lowest(t)]

\* Value(VARCHAR, string) and Value(VARCHAR, nullptr, 0, false).
NewText(s) == [type |-> "VARCHAR", num |-> 0, text |-> s, null |-> FALSE]
NullText == [type |-> "VARCHAR", num |-> 0, text |-> <<>>, null |-> TRUE]

NullOf(t) == IF t = "VARCHAR" THEN NullText ELSE NewValue(t, Lowest(t))

\* An exception thrown instead of a value.
Throw(what) == [type |-> what, num |-> 0, text |-> <<>>, null |-> FALSE]
IsValue(v) == v.type \in TypeIds

-----------------------------------------------------------------------------
(* Strings.                                                                *)

\* The digits of a natural number, as std::to_string writes them.
Numeral[n \in Nat] ==
  IF n < 10 THEN <<48 + n>> ELSE Append(Numeral[n \div 10], 48 + (n % 10))

\* std::to_string.
ValueToString(n) == IF n < 0 THEN <<45>> \o Numeral[-n] ELSE Numeral[n]

\* The number std::stoi reads; only asked of numerals.
Unsigned[s \in Seq(Nat)] ==
  IF s = <<>> THEN 0
  ELSE 10 * Unsigned[SubSeq(s, 1, Len(s) - 1)] + (s[Len(s)] - 48)
IsNumeral(s) == s # <<>> /\ s[Len(s)] \in 48 .. 57
ParseInt(s) == IF s[1] = 45 THEN -Unsigned[Tail(s)] ELSE Unsigned[s]

\* TypeUtil::CompareStrings: memcmp over the shorter length, then the lengths.
CompareStrings(a, b) ==
  LET differ == {i \in DOMAIN a \cap DOMAIN b : a[i] # b[i]}
  IN  IF differ = {} THEN Len(a) - Len(b) ELSE a[Min(differ)] - b[Min(differ)]

-----------------------------------------------------------------------------
(* Casts.                                                                  *)

\* CastAs of an integer type.  checked: the narrower types, whose range it tests.
IntegralCastAs(checked, v, t) ==
  IF v.null THEN NullOf(t)
  ELSE IF t = "VARCHAR" THEN NewText(ValueToString(v.num))
  ELSE IF t \in checked /\ (v.num > MaxOf(t) \/ v.num < MinOf(t))
       THEN Throw("out of range")
  ELSE NewValue(t, v.num)
TinyintCastAs(v, t) == IntegralCastAs({}, v, t)
SmallintCastAs(v, t) == IntegralCastAs({"TINYINT"}, v, t)
IntegerCastAs(v, t) == IntegralCastAs({"TINYINT", "SMALLINT"}, v, t)
BigintCastAs(v, t) == IntegralCastAs({"TINYINT", "SMALLINT", "INTEGER"}, v, t)

\* VarlenType::CastAs.  stoi yields a C++ int and stoll a long long; the result
\* is then converted to the column's type before its range is tested.
VarlenCastAs(v, t) ==
  IF t = "VARCHAR" THEN v
  ELSE IF v.null \/ ~IsNumeral(v.text) THEN Throw("invalid argument")
  ELSE LET n == ParseInt(v.text)
           parsed == IF t = "BIGINT" THEN "BIGINT" ELSE "INTEGER"
           w == NewValue(t, n)
       IN  IF n \notin Lowest(parsed) .. MaxOf(parsed) \/ w.num < MinOf(t)
           THEN Throw("out of range") ELSE w

\* Value::CastAs, dispatched on the type of the value.
CastAs(v, t) ==
  CASE v.type = "TINYINT"  -> TinyintCastAs(v, t)
    [] v.type = "SMALLINT" -> SmallintCastAs(v, t)
    [] v.type = "INTEGER"  -> IntegerCastAs(v, t)
    [] v.type = "BIGINT"   -> BigintCastAs(v, t)
    [] v.type = "VARCHAR"  -> VarlenCastAs(v, t)
    [] OTHER               -> v                  \* BooleanType::Copy

-----------------------------------------------------------------------------
(* Arithmetic.  Both operands are integers and not NULL in the templates   *)
(* of IntegerParentType; x and y are first promoted to a common width.     *)

Promote(l, r, n) ==
  Wrap(Max({Bits["INTEGER"], Bits[l.type], Bits[r.type]}), n)
Wider(l, r) == IF Bits[l.type] >= Bits[r.type] THEN l.type ELSE r.type

\* C++'s / and %, which truncate towards zero.
Abs(n) == IF n < 0 THEN -n ELSE n
Quotient(x, y) ==
  IF (x < 0) = (y < 0) THEN Abs(x) \div Abs(y) ELSE -(Abs(x) \div Abs(y))
Remainder(x, y) == x - y * Quotient(x, y)

\* n, computed in the promoted width and converted to the wider type.
Converted(l, r, n) == Wrap(Bits[Wider(l, r)], Promote(l, r, n))

\* The common shape of AddValue, SubtractValue and MultiplyValue: n, computed in
\* the promoted width, must survive the conversion to one of the two types, and
\* the result must not look overflowed.
Narrowed(l, r, n, overflowed) ==
  LET p == Promote(l, r, n)
  IN  IF \/ p # Wrap(Bits[l.type], p) /\ p # Wrap(Bits[r.type], p)
         \/ overflowed
      THEN Throw("out of range") ELSE NewValue(Wider(l, r), Converted(l, r, n))

\* A mutant: no test on the sign of the sum.
AddUntested(l, r) == Narrowed(l, r, l.num + r.num, FALSE)

AddValue(l, r) ==
  LET sum == l.num + r.num
  IN  Narrowed(l, r, sum, \/ l.num > 0 /\ r.num > 0 /\ Converted(l, r, sum) < 0
                          \/ l.num < 0 /\ r.num < 0 /\ Converted(l, r, sum) > 0)
SubtractValue(l, r) ==
  LET diff == l.num - r.num
  IN  Narrowed(l, r, diff, \/ l.num > 0 /\ r.num < 0 /\ Converted(l, r, diff) < 0
                           \/ l.num < 0 /\ r.num > 0 /\ Converted(l, r, diff) > 0)
MultiplyValue(l, r) ==
  LET prod == l.num * r.num
  IN  Narrowed(l, r, prod, r.num # 0 /\ Quotient(Converted(l, r, prod), r.num) # l.num)
DivideValue(l, r) ==
  IF r.num = 0 THEN Throw("divide by zero")
  ELSE NewValue(Wider(l, r), Quotient(l.num, r.num))
ModuloValue(l, r) ==
  IF r.num = 0 THEN Throw("divide by zero")
  ELSE NewValue(Wider(l, r), Remainder(l.num, r.num))

ArithmeticOps == {"Add", "Subtract", "Multiply", "Divide", "Modulo"}

Method(op, l, r) ==
  CASE op = "Add"      -> AddValue(l, r)
    [] op = "Subtract" -> SubtractValue(l, r)
    [] op = "Multiply" -> MultiplyValue(l, r)
    [] op = "Divide"   -> DivideValue(l, r)
    [] op = "Modulo"   -> ModuloValue(l, r)

\* OperateNull: NULL of the left type when the right one is among absorbed.
NullResult(t, absorbed, r) ==
  IF r.type \in absorbed THEN NullOf(t)
  ELSE IF r.type \in IntTypes THEN NullOf(r.type) ELSE Throw("type error")
TinyintOperateNull(r) == NullResult("TINYINT", {"TINYINT"}, r)
SmallintOperateNull(r) == NullResult("SMALLINT", {"TINYINT", "SMALLINT"}, r)
IntegerOperateNull(r) ==
  NullResult("INTEGER", {"TINYINT", "SMALLINT", "INTEGER"}, r)
BigintOperateNull(r) == NullResult("BIGINT", IntTypes, r)
OperateNull(l, r) ==
  CASE l.type = "TINYINT"  -> TinyintOperateNull(r)
    [] l.type = "SMALLINT" -> SmallintOperateNull(r)
    [] l.type = "INTEGER"  -> IntegerOperateNull(r)
    [] l.type = "BIGINT"   -> BigintOperateNull(r)

\* Add .. Modulo of an integer type.  Type::IsZero, which VARCHAR inherits,
\* throws.
Modify(op, l, r) ==
  IF l.null \/ r.null THEN OperateNull(l, r)
  ELSE IF op \in {"Divide", "Modulo"} /\ r.type = "VARCHAR"
       THEN Throw("not implemented")
  ELSE IF op \in {"Divide", "Modulo"} /\ r.num = 0 THEN Throw("divide by zero")
  ELSE IF r.type # "VARCHAR" THEN Method(op, l, r)
  ELSE LET y == CastAs(r, l.type) IN IF IsValue(y) THEN Method(op, l, y) ELSE y
TinyintModify(op, l, r) == Modify(op, l, r)
SmallintModify(op, l, r) == Modify(op, l, r)
IntegerModify(op, l, r) == Modify(op, l, r)
BigintModify(op, l, r) == Modify(op, l, r)

\* Value::Add .. Value::Modulo; the other types inherit Type's, which throw.
Arithmetic(op, l, r) ==
  CASE l.type = "TINYINT"  -> TinyintModify(op, l, r)
    [] l.type = "SMALLINT" -> SmallintModify(op, l, r)
    [] l.type = "INTEGER"  -> IntegerModify(op, l, r)
    [] l.type = "BIGINT"   -> BigintModify(op, l, r)
    [] OTHER               -> Throw("not implemented")

-----------------------------------------------------------------------------
(* Comparisons: the name of the CmpBool, or of an exception.               *)

CheckComparable(l, r) ==
  \/ l.type = "BOOLEAN" /\ r.type \in {"BOOLEAN", "VARCHAR"}
  \/ l.type \in IntTypes /\ r.type \in IntTypes \cup {"VARCHAR"}
  \/ l.type = "VARCHAR"

CompareOps == {"==", "!=", "<", "<=", ">", ">="}

GetCmpBool(b) == IF b THEN "CMP_TRUE" ELSE "CMP_FALSE"

Op(op, a, b) ==
  GetCmpBool(CASE op = "==" -> a = b      [] op = "!=" -> a # b
               [] op = "<" -> a < b       [] op = "<=" -> a <= b
               [] op = ">" -> a > b       [] op = ">=" -> a >= b)

\* Compare* of an integer type: a string is cast to the left type.
IntegralCompare(op, l, r) ==
  IF l.null \/ r.null THEN "CMP_NULL"
  ELSE LET y == IF r.type = "VARCHAR" THEN CastAs(r, l.type) ELSE r
       IN  IF IsValue(y) THEN Op(op, l.num, y.num) ELSE y.type
TinyintCompare(op, l, r) == IntegralCompare(op, l, r)
SmallintCompare(op, l, r) == IntegralCompare(op, l, r)
IntegerCompare(op, l, r) == IntegralCompare(op, l, r)
BigintCompare(op, l, r) == IntegralCompare(op, l, r)
BooleanCompare(op, l, r) == IntegralCompare(op, l, r)

\* VarlenType's: the right value is cast to a string.
VarlenCompare(op, l, r) ==
  IF l.null \/ r.null THEN "CMP_NULL"
  ELSE Op(op, CompareStrings(l.text, CastAs(r, "VARCHAR").text), 0)

Compare(op, l, r) ==
  CASE l.type = "TINYINT"  -> TinyintCompare(op, l, r)
    [] l.type = "SMALLINT" -> SmallintCompare(op, l, r)
    [] l.type = "INTEGER"  -> IntegerCompare(op, l, r)
    [] l.type = "BIGINT"   -> BigintCompare(op, l, r)
    [] l.type = "BOOLEAN"  -> BooleanCompare(op, l, r)
    [] l.type = "VARCHAR"  -> VarlenCompare(op, l, r)

\* IntegerParentType::Min and Max.
MinValue(l, r) ==
  IF l.null \/ r.null THEN OperateNull(l, r)
  ELSE IF Compare("<", l, r) = "CMP_TRUE" THEN l ELSE r
MaxValue(l, r) ==
  IF l.null \/ r.null THEN OperateNull(l, r)
  ELSE IF Compare(">=", l, r) = "CMP_TRUE" THEN l ELSE r
=============================================================================
