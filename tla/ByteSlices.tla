----------------------------- MODULE ByteSlices -----------------------------
(***************************************************************************)
(* How a code is laid out in byte slices (file_tool.cpp of                 *)
(* complex_predicates, byteslice_column_block.h of ByteSlice).             *)
(*                                                                         *)
(* A code of w bits is padded with zeros on the right to whole bytes, its  *)
(* most significant byte goes to slice 1, and every byte is stored with    *)
(* its top bit flipped, because AVX2 compares bytes as signed numbers.     *)
(***************************************************************************)
EXTENDS Integers, Sequences

ByteUnit == 0..255

SignedByte == -128..127

(* value ^ 0x80 *)
FLIP(u) == IF u < 128 THEN u + 128 ELSE u - 128

(* A byte as avx_cmplt, avx_cmpgt and avx_cmpeq take it. *)
AsSigned(u) == IF u < 128 THEN u ELSE u - 256

kNumBytesPerCode(width) == (width + 7) \div 8
kNumPaddingBits(width) == kNumBytesPerCode(width) * 8 - width

PowerOfTwo == <<1, 2, 4, 8, 16, 32, 64, 128>>

(* value <<= kNumPaddingBits.  A code of the column's width loses no bit;  *)
(* what a wider one loses is in no byte that is kept.                      *)
Padded(value, padding) == value * PowerOfTwo[padding + 1]

Weight == <<1, 256, 256 * 256, 256 * 256 * 256>>

(* Byte k of a value of so many bytes, from the most significant: v >> 8 * (bytes - k). *)
ByteOf(v, bytes, k) == (v \div Weight[bytes - k + 1]) % 256

(***************************************************************************)
(* SetTuple and GetTuple of one position: slice k holds SetTuple(...)[k].  *)
(***************************************************************************)
SetTuple(value, width) ==
  LET bytes == kNumBytesPerCode(width)
      padded == Padded(value, kNumPaddingBits(width))
  IN [k \in 1..bytes |-> FLIP(ByteOf(padded, bytes, k))]

Joined(slices, bytes) ==
  LET part[k \in 0..bytes] ==
        IF k = 0 THEN 0 ELSE part[k - 1] + FLIP(slices[k]) * Weight[bytes - k + 1]
  IN part[bytes]

GetTuple(slices, width) ==
  Joined(slices, kNumBytesPerCode(width)) \div PowerOfTwo[kNumPaddingBits(width) + 1]
=============================================================================
