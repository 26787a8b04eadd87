----------------------------- MODULE ColumnStore -----------------------------
(***************************************************************************)
(* What the columns and bit vectors of ByteSlice promise to a client that  *)
(* calls them one after another.  A column is a function from positions to *)
(* codes, a bit vector a set of positions; there are no blocks, words or   *)
(* threads.  A call that works on many positions takes them in any order   *)
(* and in any groups, and has returned when none is left.                  *)
(***************************************************************************)
EXTENDS Integers, Sequences, FiniteSets, Functions

VARIABLES script,       \* The calls of the client, in order.
          ip,           \* The call in progress or next.
          busy,         \* Whether a call is in progress.
          undone,       \* The positions it has still to work on.
          values,       \* The code of each position of each column.
          num,          \* The positions of each bit vector.
          selected,     \* The positions of each bit vector that are set.
          file,         \* The codes of the file, and how many have been read.
          file_pos,
          result        \* What the call has returned.

vars == <<script, ip, busy, undone, values, num, selected, file, file_pos, result>>

Call == script[ip]

Joined(bit_opt, before, verdict) ==
  CASE bit_opt = "kSet" -> verdict
    [] bit_opt = "kAnd" -> before /\ verdict
    [] bit_opt = "kOr" -> before \/ verdict

Satisfies(cmp, code, right) ==
  CASE cmp = "kEqual" -> code = right
    [] cmp = "kInequal" -> code # right
    [] cmp = "kLess" -> code < right
    [] cmp = "kLessEqual" -> code <= right
    [] cmp = "kGreater" -> code > right
    [] cmp = "kGreaterEqual" -> code >= right

Right(x) == IF Call.right = 0 THEN Call.literal ELSE values[Call.right][x]

(* Whether x is to be set in the bit vector of the call. *)
Verdict(x, before) ==
  CASE Call.op = "Scan" -> Joined(Call.bit_opt, before, Satisfies(Call.cmp, values[Call.column][x], Right(x)))
    [] Call.op = "And" -> before /\ x \in selected[Call.other]
    [] Call.op = "Or" -> before \/ x \in selected[Call.other]
    [] Call.op \in {"BitVector", "SetOnes"} -> TRUE
    [] Call.op = "SetZeros" -> FALSE

Size(c) == Cardinality(DOMAIN values[c])
Codes(c) == [p \in 1..Size(c) |-> values[c][p - 1]]

Init ==
  /\ ip = 1
  /\ ~busy
  /\ undone = {}
  /\ values = [c \in DOMAIN values |-> <<>>]
  /\ selected = [v \in DOMAIN selected |-> {}]
  /\ num = [v \in DOMAIN selected |-> 0]
  /\ file = <<>>
  /\ file_pos = 0
  /\ result = <<>>

----------------------------------------------------------------------------
(* The calls that return at once. *)

(* A new column or new positions of a column hold any codes. *)
Resized(c, n) ==
  /\ DOMAIN values'[c] = 0..(n - 1)
  /\ \A x \in DOMAIN values'[c] \cap DOMAIN values[c] : values'[c][x] = values[c][x]
  /\ \A d \in DOMAIN values \ {c} : values'[d] = values[d]
  /\ UNCHANGED <<num, selected, file, file_pos>>

Column == Call.op = "Column" /\ DOMAIN values[Call.column] = {} /\ Resized(Call.column, Call.num)

Resize == Call.op = "Resize" /\ Resized(Call.column, Call.num)

SetTuple ==
  /\ Call.op = "SetTuple"
  /\ values' = [values EXCEPT ![Call.column][Call.pos] = Call.value]
  /\ UNCHANGED <<num, selected, file, file_pos>>

LoadTextFile ==
  /\ Call.op = "LoadTextFile"
  /\ values' = [values EXCEPT ![Call.column] =
                  [x \in DOMAIN @ |-> IF x < Len(Call.codes) THEN Call.codes[x + 1] ELSE @[x]]]
  /\ UNCHANGED <<num, selected, file, file_pos>>

SerToFile ==
  /\ Call.op = "SerToFile"
  /\ file' = file \o Codes(Call.column)
  /\ UNCHANGED <<num, values, selected, file_pos>>

DeserFromFile ==
  /\ Call.op = "DeserFromFile"
  /\ values' = [values EXCEPT ![Call.column] = [x \in DOMAIN @ |-> file[file_pos + x + 1]]]
  /\ file_pos' = file_pos + Size(Call.column)
  /\ UNCHANGED <<num, selected, file>>

SetBit ==
  /\ Call.op = "SetBit"
  /\ selected' = [selected EXCEPT ![Call.bv] = @ \cup {Call.pos}]
  /\ UNCHANGED <<num, values, file, file_pos>>

UnsetBit ==
  /\ Call.op = "UnsetBit"
  /\ selected' = [selected EXCEPT ![Call.bv] = @ \ {Call.pos}]
  /\ UNCHANGED <<num, values, file, file_pos>>

Immediate ==
  /\ ~busy /\ ip <= Len(script)
  /\ \/ Column \/ Resize \/ SetTuple \/ LoadTextFile
     \/ SerToFile \/ DeserFromFile \/ SetBit \/ UnsetBit
  /\ ip' = ip + 1
  /\ UNCHANGED <<script, busy, undone, result>>

----------------------------------------------------------------------------
(* The calls that take many steps. *)

(* The positions of the call, of which there is at least one. *)
Positions ==
  CASE Call.op = "BulkLoadArray" -> Call.pos..(Call.pos + Len(Call.codes) - 1)
    [] Call.op = "BitVector" -> DOMAIN values[Call.column]
    [] Call.op = "Iterate" -> {}
    [] OTHER -> 0..(num[Call.bv] - 1)

Begin ==
  /\ ~busy /\ ip <= Len(script)
  /\ Call.op \in {"BulkLoadArray", "BitVector", "Scan", "And", "Or", "SetOnes", "SetZeros",
                  "CountOnes", "Iterate"}
  /\ busy' = TRUE
  /\ undone' = Positions
  /\ result' = <<>>
  /\ IF Call.op = "BitVector"
     THEN /\ num' = [num EXCEPT ![Call.bv] = Size(Call.column)]
          /\ selected'[Call.bv] \subseteq 0..(num'[Call.bv] - 1)
          /\ \A v \in DOMAIN selected \ {Call.bv} : selected'[v] = selected[v]
     ELSE UNCHANGED <<num, selected>>
  /\ UNCHANGED <<script, ip, values, file, file_pos>>

Work ==
  LET now == undone \ undone' IN
  /\ busy
  /\ undone' \subseteq undone /\ now # {}
  /\ IF Call.op = "BulkLoadArray"
     THEN /\ values' = [values EXCEPT ![Call.column] =
                          [x \in DOMAIN @ |-> IF x \in now THEN Call.codes[x - Call.pos + 1]
                                              ELSE @[x]]]
          /\ UNCHANGED selected
     ELSE /\ selected' =
               IF Call.op = "CountOnes" THEN selected
               ELSE [selected EXCEPT ![Call.bv] =
                       {x \in 0..(num[Call.bv] - 1) :
                          IF x \in now THEN Verdict(x, x \in @) ELSE x \in @}]
          /\ UNCHANGED values
  /\ UNCHANGED <<script, ip, busy, num, file, file_pos, result>>

(* The next position, in increasing order. *)
NextPosition ==
  LET left == selected[Call.bv] \ Range(result) IN
  /\ busy /\ Call.op = "Iterate" /\ left # {}
  /\ result' = Append(result, CHOOSE x \in left : \A y \in left : x <= y)
  /\ UNCHANGED <<script, ip, busy, undone, values, num, selected, file, file_pos>>

Return ==
  /\ busy /\ undone = {}
  /\ Call.op = "Iterate" => selected[Call.bv] \subseteq Range(result)
  /\ busy' = FALSE
  /\ ip' = ip + 1
  /\ result' = IF Call.op = "CountOnes" THEN <<Cardinality(selected[Call.bv])>> ELSE result
  /\ UNCHANGED <<script, undone, values, num, selected, file, file_pos>>

Next == Immediate \/ Begin \/ Work \/ NextPosition \/ Return

Spec == Init /\ [][Next]_vars
=============================================================================
