------------------------- MODULE InterleavedSlices -------------------------
(***************************************************************************)
(* The layouts of file_tool.cpp that keep two, three or four columns in    *)
(* the same byte slices: slice b holds, for every slide_size positions, a  *)
(* run of slide_size bytes of each column that has a byte b, one column    *)
(* after the other.  SetTuple_3 and SetTuple_4 suppose that the columns    *)
(* come with their numbers of bytes in ascending order.                    *)
(***************************************************************************)
EXTENDS ByteSlices, FiniteSets

(* The numbers of bytes of so many columns. *)
Layout(n) == [1..n -> 1..4]
Ascending(bytes) == \A i, j \in DOMAIN bytes : i <= j => bytes[i] <= bytes[j]

(* The columns that have a byte b, counted from 1, and those before column c. *)
Sharing(bytes, b) == {c \in DOMAIN bytes : bytes[c] >= b}
Before(bytes, b, c) == {d \in Sharing(bytes, b) : d < c}

(* The index in data_[b] of byte b of column c at position pos. *)
Index(slide_size, bytes, b, c, pos) ==
  LET run == Cardinality(Sharing(bytes, b)) * (pos \div slide_size) + Cardinality(Before(bytes, b, c))
  IN run * slide_size + (pos % slide_size)

BytesOf(width) == [c \in DOMAIN width |-> kNumBytesPerCode(width[c])]

(* data_[b][i] after values[c], a code of width[c] bits, is set for every c. *)
Interleaved(slide_size, data_, pos, values, width) ==
  LET bytes == BytesOf(width)
      At(b, i) == {c \in Sharing(bytes, b) : Index(slide_size, bytes, b, c, pos) = i}
  IN [b \in DOMAIN data_ |-> [i \in DOMAIN data_[b] |->
        IF At(b, i) = {} THEN data_[b][i]
        ELSE LET c == CHOOSE d \in At(b, i) : TRUE IN SetTuple(values[c], width[c])[b]]]

SetTuple_2(data_, pos, values, width) == Interleaved(32, data_, pos, values, width)
SetTuple_3(data_, pos, values, width) == Interleaved(16, data_, pos, values, width)
SetTuple_4(data_, pos, values, width) == Interleaved(16, data_, pos, values, width)

(***************************************************************************)
(* GetTuple_2 takes every byte from where both columns have one: index is  *)
(* 0 for the first column and 1 for the second.                            *)
(***************************************************************************)
GetTuple_2(data_, pos, index, width) ==
  LET at == (pos \div 32) * 64 + (pos % 32) + 32 * index
  IN GetTuple([b \in 1..kNumBytesPerCode(width) |-> data_[b][at]], width)
=============================================================================
