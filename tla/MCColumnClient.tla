---------------------------- MODULE MCColumnClient ----------------------------
(***************************************************************************)
(* Instances of ColumnClient for TLC.  A block has four tuples, one AVX    *)
(* unit of two words of two bits; a column has one to three blocks, the    *)
(* last of them full or not.  Two threads run the loops.                   *)
(***************************************************************************)
EXTENDS ColumnClientInvariant

CONSTANTS t1, t2

TwoThreads == {t1, t2}

Make(c, type, width, n) ==
  [op |-> "Column", column |-> c, type |-> type, bit_width |-> width, num |-> n]
Grow(c, n) == [op |-> "Resize", column |-> c, num |-> n]
Bulk(c, codes, pos) == [op |-> "BulkLoadArray", column |-> c, codes |-> codes, pos |-> pos]
Text(c, codes) == [op |-> "LoadTextFile", column |-> c, codes |-> codes]
Put(c, pos, value) == [op |-> "SetTuple", column |-> c, pos |-> pos, value |-> value]
Ser(c) == [op |-> "SerToFile", column |-> c]
Deser(c) == [op |-> "DeserFromFile", column |-> c]
Vector(v, c) == [op |-> "BitVector", bv |-> v, column |-> c]
Scan(c, cmp, literal, v, bit_opt) ==
  [op |-> "Scan", column |-> c, cmp |-> cmp, right |-> 0, literal |-> literal,
   bv |-> v, bit_opt |-> bit_opt]
ScanColumn(c, cmp, right, v, bit_opt) ==
  [op |-> "Scan", column |-> c, cmp |-> cmp, right |-> right, literal |-> 0,
   bv |-> v, bit_opt |-> bit_opt]
Combine(op, v, w) == [op |-> op, bv |-> v, other |-> w]
On(op, v) == [op |-> op, bv |-> v]
Bit(op, v, pos) == [op |-> op, bv |-> v, pos |-> pos]

(* Codes of width bits that differ in the first and in the last byte.      *)
Low(width) == 2^(width - 1) - 1
High(width) == 2^(width - 1)

(* n codes: High at the multiples of period, Low elsewhere. *)
Pattern(width, n, period) ==
  [k \in 1..n |-> IF k % period = 0 THEN High(width) ELSE Low(width)]

Comparators == {"kEqual", "kInequal", "kLess", "kLessEqual", "kGreater", "kGreaterEqual"}

(***************************************************************************)
(* Loads: a column is filled, resized from n to m, filled again over the   *)
(* end it had, written to a file, and read back into another column.       *)
(***************************************************************************)
Refill(width, n, m) ==
  IF m > n THEN Bulk(1, Pattern(width, m - n + 1, 3), n - 1) ELSE Bulk(1, <<High(width)>>, 0)

Loads(type, width, n, m, cmp) ==
  <<Make(1, type, width, n), Bulk(1, Pattern(width, n, 2), 0), Grow(1, m), Refill(width, n, m),
    Make(2, type, width, m), Text(2, Pattern(width, 5, 2)), Ser(1), Ser(1), Deser(2),
    Put(1, m - 1, High(width)), Put(1, 0, High(width)), Deser(1), Put(1, m - 1, Low(width)),
    Vector(1, 1), ScanColumn(1, cmp, 2, 1, "kSet"), On("CountOnes", 1), On("Iterate", 1)>>

LoadScripts ==
  {Loads(type, width, nm[1], nm[2], cmp) :
     type \in ColumnType, width \in {7, 8, 12, 20},
     nm \in {<<1, 3>>, <<3, 2>>, <<3, 6>>, <<2, 8>>, <<6, 7>>, <<6, 10>>, <<4, 9>>},
     cmp \in {"kInequal", "kGreaterEqual"}}

(***************************************************************************)
(* Queries: two scans of a column joined in one bit vector, and another    *)
(* bit vector combined with it.                                            *)
(***************************************************************************)
QueryCalls(type, n, period, cmp, bit_opt, clear, combine) ==
  <<Make(1, type, 12, n), Text(1, Pattern(12, n + 1, period)), Vector(1, 1), Vector(2, 1),
    Bit("UnsetBit", 1, n - 1), Scan(1, cmp, High(12), 1, bit_opt), Bit("SetBit", 1, n \div 2),
    On(clear, 2), Scan(1, "kLess", High(12), 2, "kAnd"), Bit("SetBit", 2, 0),
    Combine(combine, 1, 2), On("CountOnes", 1), On("Iterate", 1)>>

QueryScripts ==
  {QueryCalls(type, n, period, cmp, bit_opt, clear, combine) :
     type \in ColumnType, n \in {1, 4, 7, 10}, period \in {2, 3}, cmp \in Comparators,
     bit_opt \in {"kSet", "kAnd", "kOr"}, clear \in {"SetOnes", "SetZeros"},
     combine \in {"And", "Or"}}

ClientScripts == LoadScripts \cup QueryScripts

(* A column is resized to any other number of tuples. *)
ResizeScripts ==
  {<<Make(1, "kNaive", 12, n), Grow(1, m), Vector(1, 1), Scan(1, "kLess", 5, 1, "kSet")>> :
     n \in 1..10, m \in 1..10}
=============================================================================
