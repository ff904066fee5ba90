------------------------------ MODULE MCTuples -----------------------------
(* Rows of one and two columns, of integers of 3, 4, 8 and 9 bits.         *)
EXTENDS Tuples

MCBits == [t \in TypeIds \ {"VARCHAR"} |->
             CASE t = "SMALLINT" -> 4 [] t = "INTEGER" -> 8
               [] t = "BIGINT" -> 9 [] OTHER -> 3]

\* The ends of every range, and the numbers around them, in sqlite's 64 bits.
MCArgs ==
  {IntArg(n) : n \in UNION {e - 1 .. e + 1 : e \in {-255, -128, -8, -4, 0, 3, 7, 127}}
                     \cup {11, 12, 254, 255}}
    \cup {TextArg([i \in 1 .. 11 |-> 97]), NullArg}

MCSchemas ==
  {<<t>> : t \in TypeIds}
    \cup {<<"TINYINT", "VARCHAR">>, <<"VARCHAR", "SMALLINT">>,
          <<"VARCHAR", "VARCHAR">>, <<"BOOLEAN", "BIGINT">>,
          <<"INTEGER", "TINYINT">>}
=============================================================================
