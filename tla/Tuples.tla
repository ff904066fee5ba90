------------------------------ MODULE Tuples -------------------------------
(***************************************************************************)
(* Rows and index keys: a row of SQL arguments becomes a vector of Values  *)
(* (ConstructTuple), the bytes of a Tuple laid out by its Schema, and the  *)
(* bytes of a GenericKey that a GenericComparator orders.  One step of the *)
(* specification is one iteration of ConstructTuple's loop.                *)
(*                                                                         *)
(* A tuple's bytes are kept as the sequence of the writes that made them:  *)
(* which bytes, and what they hold.  A read that does not meet exactly the *)
(* bytes of the last write there reads garbage.                            *)
(***************************************************************************)
EXTENDS Types, SequencesExt

CONSTANTS Schemas,     \* the schemas, sequences of types
          Args         \* the SQL arguments, [num, text, null] records

VARIABLES schema,      \* the schema of the row
          argv,        \* the arguments taken so far
          values,      \* the vector of Values built from them
          thrown       \* std::string(nullptr) threw std::logic_error

vars == <<schema, argv, values, thrown>>

IntArg(n) == [num |-> n, text |-> ValueToString(n), null |-> FALSE]
TextArg(s) == [num |-> 0, text |-> s, null |-> FALSE]
NullArg == [num |-> 0, text |-> <<>>, null |-> TRUE]

-----------------------------------------------------------------------------
(* Schema and Column.                                                      *)

IsInlined(t) == t # "VARCHAR"

\* Type::GetTypeSize, and Column::SetLength for the slot of a VARCHAR.
FixedLength(t) ==
  CASE t \in {"BOOLEAN", "TINYINT"} -> 1
    [] t = "SMALLINT"               -> 2
    [] t \in {"INTEGER", "VARCHAR"} -> 4
    [] t = "BIGINT"                 -> 8

\* Schema::Schema: column_offset before column i, and the length at the end.
GetOffset(s, i) == MapThenSumSet(LAMBDA j : FixedLength(s[j]), 1 .. (i - 1))
GetLength(s) == GetOffset(s, Len(s) + 1)
GetUnlinedColumns(s) == {i \in DOMAIN s : ~IsInlined(s[i])}

-----------------------------------------------------------------------------
(* Tuple.                                                                  *)

\* Value::GetLength of a VARCHAR, with the final NUL; that of a NULL is
\* PELOTON_VALUE_NULL, -1 in the 32-bit sums it enters.
ByteLength(v) == IF v.null THEN -1 ELSE Len(v.text) + 1

\* The bytes column i takes behind the fixed part: its length field and data.
VarlenLength(v) == ByteLength(v) + 4

TupleSize(s, vs) ==
  GetLength(s) + MapThenSumSet(LAMBDA i : VarlenLength(vs[i]), GetUnlinedColumns(s))

\* A mutant: the offset of the next string forgets the length field.
NextToText(s, vs, i) ==
  GetLength(s) + MapThenSumSet(LAMBDA j : ByteLength(vs[j]),
                               {j \in GetUnlinedColumns(s) : j < i})

VarlenOffset(s, vs, i) ==
  GetLength(s) + MapThenSumSet(LAMBDA j : VarlenLength(vs[j]),
                               {j \in GetUnlinedColumns(s) : j < i})

Write(at, len, num, text) == [at |-> at, len |-> len, num |-> num, text |-> text]

\* The writes of column i: an integer in place, or the offset of a string in
\* place and its length and characters there (VarlenType::SerializeTo).
SerializeColumn(s, vs, i) ==
  LET slot == GetOffset(s, i)
      off == VarlenOffset(s, vs, i)
      v == vs[i]
  IN  IF IsInlined(s[i]) THEN <<Write(slot, FixedLength(s[i]), v.num, <<>>)>>
      ELSE <<Write(slot, 4, off, <<>>), Write(off, 4, ByteLength(v), <<>>)>>
           \o IF v.null THEN <<>>
              ELSE <<Write(off + 4, ByteLength(v), 0, v.text)>>

\* Tuple::Tuple(values, schema).
Tuple(s, vs) == FlattenSeq([i \in DOMAIN s |-> SerializeColumn(s, vs, i)])

Garbage == Write(0, 0, 0, <<>>)
Overlap(w, at, len) == w.at < at + len /\ at < w.at + w.len
Read(data, at, len) ==
  LET met == {k \in DOMAIN data : Overlap(data[k], at, len)}
  IN  IF met # {} /\ data[Max(met)].at = at /\ data[Max(met)].len = len
      THEN data[Max(met)] ELSE Garbage

\* Tuple::GetValue and GetDataPtr, GenericKey::ToValue: DeserializeFrom there.
GetValue(s, data, i) ==
  LET slot == Read(data, GetOffset(s, i), FixedLength(s[i]))
      len == Read(data, slot.num, 4).num
  IN  IF IsInlined(s[i]) THEN NewValue(s[i], slot.num)
      ELSE IF len = -1 THEN NullText
      ELSE NewText(Read(data, slot.num + 4, len).text)

-----------------------------------------------------------------------------
(* Index keys.                                                             *)

\* ConstructIndex: the size of the GenericKey for a key schema.
KeyBytes(s) == GetLength(s) + 16 * Cardinality(GetUnlinedColumns(s))

KeySize(s) == Min({n \in {4, 8, 16, 32, 64} : KeyBytes(s) <= n} \cup {64})

\* The columns GenericComparator tells apart.
Apart(a, b) ==
  {i \in DOMAIN a : \E op \in {"<", ">"} : Compare(op, a[i], b[i]) = "CMP_TRUE"}

\* A mutant: only the first column decides.
FirstColumn(a, b) ==
  IF Compare("<", a[1], b[1]) = "CMP_TRUE" THEN -1
  ELSE IF Compare(">", a[1], b[1]) = "CMP_TRUE" THEN 1 ELSE 0

\* GenericComparator::operator(): the first column that differs decides.
Comparator(a, b) ==
  IF Apart(a, b) = {} THEN 0
  ELSE LET i == Min(Apart(a, b))
       IN  IF Compare("<", a[i], b[i]) = "CMP_TRUE" THEN -1 ELSE 1

-----------------------------------------------------------------------------
(* ConstructTuple and VtabColumn.                                          *)

\* One column: sqlite3_value_int truncates to an int, sqlite3_value_int64 does
\* not, and NULL is 0 for both.
ColumnValue(t, a) ==
  CASE t = "VARCHAR" -> NewText(a.text)
    [] t = "BIGINT"  -> NewValue(t, a.num)
    [] OTHER         -> NewValue(t, Wrap(Bits["INTEGER"], a.num))

Init ==
  /\ schema \in Schemas
  /\ argv = <<>> /\ values = <<>> /\ thrown = FALSE

ConstructColumn(a) ==
  LET t == schema[Len(values) + 1]
  IN  /\ Len(values) < Len(schema) /\ ~thrown
      /\ argv' = Append(argv, a)
      /\ IF t = "VARCHAR" /\ a.null
         THEN thrown' = TRUE /\ UNCHANGED values
         ELSE values' = Append(values, ColumnValue(t, a)) /\ UNCHANGED thrown
      /\ UNCHANGED schema

Next == \E a \in Args : ConstructColumn(a)

Spec == Init /\ [][Next]_vars

\* VtabColumn: the number or text sqlite is given for column i.
VtabColumn(data, i) ==
  LET v == GetValue(schema, data, i) IN [num |-> v.num, text |-> v.text]

-----------------------------------------------------------------------------
Built == Len(values) = Len(schema)

\* SQL argument a is a value of type t: a string, or a number in range.
Fits(t, a) ==
  IF t = "VARCHAR" THEN ~a.null
  ELSE a = IntArg(a.num) /\ a.num \in MinOf(t) .. MaxOf(t)

\* The values the arguments give a column of type t.
ValuesOf(t) == {ColumnValue(t, a) : a \in {b \in Args : t = "VARCHAR" => ~b.null}}
IntValues == UNION {ValuesOf(t) : t \in IntTypes}

TypeOK ==
  /\ schema \in Schemas
  /\ Len(values) <= Len(argv) /\ Len(argv) <= Len(schema)
  /\ \A i \in DOMAIN values : values[i].type = schema[i]
  /\ thrown \in BOOLEAN

\* What the operations of a row of one integer column are checked on.
Operand == Len(schema) = 1 /\ Built /\ schema[1] \in IntTypes

\* res is the result of op on x and y in the integers; division truncates.
IsResult(op, x, y, res) ==
  CASE op = "Add"      -> res = x + y
    [] op = "Subtract" -> res = x - y
    [] op = "Multiply" -> res = x * y
    [] op = "Divide"   -> \E m \in -Abs(y) + 1 .. Abs(y) - 1 :
                             x = y * res + m /\ x * m >= 0
    [] op = "Modulo"   -> /\ Abs(res) < Abs(y) /\ x * res >= 0
                          /\ \E q \in -Abs(x) .. Abs(x) : x = y * q + res

\* The overflow tests of IntegerParentType neither miss an overflow nor refuse a
\* result that fits: an operation on two integers that are not NULL gives the
\* exact result in the wider type, or throws because the divisor is zero or no
\* number of that type, its NULL pattern included, is the result.
ArithmeticExact ==
  Operand => \A op \in ArithmeticOps, r \in IntValues :
    LET l == values[1]
        res == Arithmetic(op, l, r)
        zero == op \in {"Divide", "Modulo"} /\ r.num = 0
    IN  IF l.null \/ r.null THEN res = NullOf(Wider(l, r))
        ELSE CASE res.type = "divide by zero" -> zero
               [] res.type = "out of range" ->
                    ~\E n \in Lowest(Wider(l, r)) .. MaxOf(Wider(l, r)) :
                        IsResult(op, l.num, r.num, n)
               [] OTHER -> /\ ~zero /\ res.type = Wider(l, r)
                           /\ IsResult(op, l.num, r.num, res.num)

\* The comparisons of two values that are not NULL derive from CompareLessThan
\* as the comment of type.h says they could, when both are of integer types; and
\* Min and Max pick the operands the comparisons say.
ComparisonsAgree ==
  Operand => \A r \in IntValues :
    LET l == values[1]
        Is(op) == Compare(op, l, r) = "CMP_TRUE"
        Less == Is("<")
        Greater == Compare("<", r, l) = "CMP_TRUE"
    IN  ~l.null /\ ~r.null =>
          /\ Is("==") = (~Less /\ ~Greater)
          /\ Is("!=") = ~Is("==")
          /\ Is("<=") = (Less \/ Is("=="))
          /\ Is(">") = ~Is("<=")
          /\ Is(">=") = ~Less
          /\ {MinValue(l, r).num, MaxValue(l, r).num} = {l.num, r.num}
          /\ MinValue(l, r).num <= MaxValue(l, r).num

\* A cast either throws or keeps the number, and never makes a value NULL; a
\* number that fits survives the way through its string, and so does every
\* number on its way to INTEGER or BIGINT.  (A string cast to a narrower type is
\* truncated before its range is tested.)
CastsKeepNumbers ==
  Operand => \A t \in IntTypes :
    LET v == values[1]
        direct == CastAs(v, t)
        string == CastAs(CastAs(v, "VARCHAR"), t)
    IN  /\ v.null => direct = NullOf(t)
        /\ ~v.null => /\ IsValue(direct) = (v.num \in MinOf(t) .. MaxOf(t))
                      /\ IsValue(direct) => direct.num = v.num /\ ~direct.null
                      /\ IsValue(direct) \/ t \in {"INTEGER", "BIGINT"}
                           => string = direct

\* The operations on integer values are those of the integers, or say that they
\* are not.
IntegersExact == ArithmeticExact /\ ComparisonsAgree /\ CastsKeepNumbers

\* What a tuple's bytes hold is what was put in: every column reads back the
\* value written, inside the tuple's size, no column's bytes on another's; and
\* sqlite is given the argument back when it fits the column.
RowsReadBack ==
  TypeOK /\ (Built =>
    LET data == Tuple(schema, values)
    IN  /\ \A i \in DOMAIN schema : GetValue(schema, data, i) = values[i]
        /\ \A k \in DOMAIN data :
             data[k].at >= 0 /\ data[k].at + data[k].len <= TupleSize(schema, values)
        /\ \A i \in DOMAIN schema : Fits(schema[i], argv[i]) =>
             IF IsInlined(schema[i])
             THEN VtabColumn(data, i).num = argv[i].num
             ELSE VtabColumn(data, i).text = argv[i].text)

\* GenericKey::SetFromKey copies the whole tuple: the key chosen by
\* ConstructIndex has room for it when each string takes at most the 16 bytes
\* assumed there, its length field included, and the key schema at most 64.
KeysFit ==
  /\ Built
  /\ KeyBytes(schema) <= 64
  /\ \A i \in GetUnlinedColumns(schema) : VarlenLength(values[i]) <= 16
  => TupleSize(schema, values) <= KeySize(schema)

\* Arguments a and b of a column of type t, in SQL's order of numbers or texts.
ArgLess(t, a, b) ==
  IF t # "VARCHAR" THEN a.num < b.num
  ELSE \E n \in 0 .. Len(b.text) - 1 :
         /\ n <= Len(a.text)
         /\ SubSeq(a.text, 1, n) = SubSeq(b.text, 1, n)
         /\ n < Len(a.text) => a.text[n + 1] < b.text[n + 1]

\* The rows of the schema, as arguments.
Rows == [DOMAIN schema -> Args]

\* GenericComparator orders keys as SQL orders the arguments they come from,
\* column by column, when every argument fits its column: the total order that
\* the B+ tree relies on.
ColumnsOrdered ==
  Built /\ (\A i \in DOMAIN schema : Fits(schema[i], argv[i])) =>
    \A b \in Rows : (\A i \in DOMAIN schema : Fits(schema[i], b[i])) =>
      LET key == [i \in DOMAIN schema |-> ColumnValue(schema[i], b[i])]
          Same(n) == \A i \in 1 .. n : ~ArgLess(schema[i], argv[i], b[i])
                                       /\ ~ArgLess(schema[i], b[i], argv[i])
          Before(x, y) == \E n \in DOMAIN schema :
                            Same(n - 1) /\ ArgLess(schema[n], x[n], y[n])
      IN  /\ (Comparator(values, key) < 0) = Before(argv, b)
          /\ (Comparator(values, key) > 0) = Before(b, argv)

\* A key holds the whole tuple and is ordered as SQL orders it.
KeysOrdered == KeysFit /\ ColumnsOrdered
=============================================================================
