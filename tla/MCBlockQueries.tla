--------------------------- MODULE MCBlockQueries ---------------------------
(***************************************************************************)
(* Instances of BlockQueries for TLC.  Registers have two lanes, words two *)
(* registers, and AVX units two words.  Two rows alternate through the     *)
(* block, so that the lanes of a register part; what lies behind the last  *)
(* tuple follows the same pattern.                                         *)
(***************************************************************************)
EXTENDS BlockQueries, BlockScanInvariant

TwoLanes == {0, 1}

(***************************************************************************)
(* A row that answers each query, and the codes at which its verdict may   *)
(* turn: around the literals on a column and around the codes of that row. *)
(***************************************************************************)
Answer ==
  [Q1 |-> <<3250>>, Q14 |-> <<2120>>, Q15 |-> <<2300>>, Q3 |-> <<2, 1922, 1954>>,
   Q5 |-> <<3, 1488>>, Q10 |-> <<3, 1400>>, Q6 |-> <<1488, 5, 23>>, Q8 |-> <<2, 1861, 4>>,
   Q7 |-> <<9, 8, 1861>>, Q12 |-> <<3, 1489, 1490, 1488>>, Q17 |-> <<8, 18, 5>>,
   Q19 |-> <<2, 28, 1, 1, 1, 2>>]

Boundary(k, c) ==
  LET turns == {k.value[p] : p \in {q \in 1..k.n : k.column[q] = c /\ k.right[q] = 0}}
                 \cup {Answer[k.query][c]}
  IN {v \in UNION {{l - 1, l, l + 1} : l \in turns} : v \in 0..(2^k.width[c] - 1)}

(* The rows that leave the answer in at most one column. *)
NearAnswer(k) ==
  {[Answer[k.query] EXCEPT ![cv[1]] = cv[2]] :
     cv \in UNION {{<<c, v>> : v \in Boundary(k, c)} : c \in 1..Len(k.width)}}

Alternating(num, even, odd) ==
  [x \in Loaded(num) |-> IF x % 2 = 0 THEN even ELSE odd]

QueryTables(k, num) ==
  {Alternating(num, row, other) :
     row \in NearAnswer(k),
     other \in {Answer[k.query], [c \in 1..Len(k.width) |-> 0]}}

QueryPrograms ==
  UNION {ConjunctiveModels(k, 3) : k \in {Q1, Q14, Q15, Q3, Q5_byteslice, Q10, Q6, Q8, Q17}}
    \cup Q7_models(3) \cup Q12_models(3) \cup {Q19_model(3)}

OrPrograms == Q7_or_models(3) \cup Q12_or_models(3)

(***************************************************************************)
(* Two scans of a column, first into and then joined with the bits, by     *)
(* every comparator, with a literal and with a column, in columns of one   *)
(* to four bytes, and in blocks that fill their last word or do not.       *)
(***************************************************************************)
Middle == [w \in {8, 12, 20, 29} |->
             CASE w = 8 -> 128 [] w = 12 -> 2056 [] w = 20 -> 526344 [] w = 29 -> 2105377]

(* Below and above the middle, in the last byte and in the first. *)
Around(w) ==
  LET top == CASE w = 8 -> 1 [] w = 12 -> 16 [] w = 20 -> 4096 [] w = 29 -> 2097152
  IN {Middle[w] + d : d \in {-top, -1, 0, 1, top}}

Pair(w, cmp, right, bit_opt, num) ==
  LET second == [cmp |-> cmp, column |-> 1, right |-> right, value |-> Middle[w]]
      k == [Query("pair", <<w, w>>, <<Compare("kLessEqual", 1, Middle[w]), second>>,
                  <<{}>>, <<>>)
            EXCEPT !.query = "pair"]
  IN Program(k, num, 1, <<Scan(k, 1, 1, "kSet"), Scan(k, 2, 1, bit_opt)>>)

Pairs(widths, sizes) ==
  {Pair(w, cmp, right, bit_opt, num) :
     w \in widths, cmp \in Comparator, right \in {0, 2},
     bit_opt \in {"kSet", "kAnd", "kOr"}, num \in sizes}

PairTables(w, num) ==
  {Alternating(num, <<even, Middle[w]>>, <<odd, Middle[w]>>) :
     even \in Around(w), odd \in Around(w)}

TestPrograms ==
  {ColumnTest(12, <<2056, 2056, 2055>>, 5), ColumnTest(20, <<526343, 526345, 526343, 526346>>, 3),
   ColumnCTest(12, <<2055, 2057, 2056, 2058>>, 5)}

KernelPrograms ==
  UNION {{column_cmp_with_literal_nP_nS(w, Middle[w], 3), column_cmp_with_literal_nP_S(w, Middle[w], 3),
          column_cmp_with_literal_P_nS(w, Middle[w], 3), column_cmp_with_literal_P_S(w, Middle[w], 3)} :
           w \in {8, 12, 20, 29}}
    \cup {two_column_cmp(w, 3) : w \in {8, 12, 20, 29}}

(* Every column of a row holds one of the codes around the middle. *)
TestTables(p) ==
  LET w == p.width[1] IN
  {Alternating(p.num, [c \in 1..Len(p.width) |-> IF c = a THEN even ELSE Middle[w]],
                      [c \in 1..Len(p.width) |-> IF c = b THEN odd ELSE Middle[w]]) :
     a \in 1..Len(p.width), b \in 1..Len(p.width), even \in Around(w), odd \in Around(w)}

AllPrograms ==
  QueryPrograms \cup TestPrograms \cup KernelPrograms
    \cup Pairs({8}, {1, 4, 5, 8, 9}) \cup Pairs({12, 20, 29}, {4})

TablesOf(p) ==
  CASE p.kernel.query \in DOMAIN Answer -> QueryTables(p.kernel, p.num)
    [] p.kernel.query = "pair" -> PairTables(p.width[1], p.num)
    [] OTHER -> TestTables(p)
=============================================================================
