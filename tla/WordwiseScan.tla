---------------------------- MODULE WordwiseScan ----------------------------
(***************************************************************************)
(* What a sequence of scans of one column block promises about the bits it *)
(* leaves: every scan joins the verdict of its comparison into the bits of *)
(* its block, a word at a time and in order, and changes no other bit.     *)
(* Nothing is said of the contents a block has before it is first written. *)
(***************************************************************************)
EXTENDS Integers, Sequences

CONSTANT kNumWordBits

VARIABLES ops,          \* The operations, in order.
          num,          \* The tuples of the block.
          qualifying,   \* The tuples that satisfy the comparison of a scan.
          bits,         \* The tuples whose bit is set in each bit vector.
          done,         \* The operations that are complete.
          words         \* The words the scan in progress has written.

vars == <<ops, num, qualifying, bits, done, words>>

Joined(bit_opt, before, verdict) ==
  CASE bit_opt = "kSet" -> verdict
    [] bit_opt = "kAnd" -> before /\ verdict
    [] bit_opt = "kOr" -> before \/ verdict

Init ==
  /\ done = 0
  /\ words = 0
  /\ \A v \in DOMAIN bits : bits[v] \subseteq 0..(num - 1)

Current == ops[done + 1]

InWord(x) == x \div kNumWordBits = words

WriteWord ==
  /\ done < Len(ops)
  /\ Current.op = "Scan"
  /\ words * kNumWordBits < num
  /\ bits' = [bits EXCEPT ![Current.bv] =
                {x \in 0..(num - 1) :
                   IF InWord(x) THEN Joined(Current.bit_opt, x \in @, x \in qualifying[done + 1])
                                ELSE x \in @}]
  /\ words' = words + 1
  /\ UNCHANGED <<ops, num, qualifying, done>>

EndScan ==
  /\ done < Len(ops)
  /\ Current.op = "Scan"
  /\ words * kNumWordBits >= num
  /\ done' = done + 1
  /\ words' = 0
  /\ UNCHANGED <<ops, num, qualifying, bits>>

Combine ==
  /\ done < Len(ops)
  /\ Current.op \in {"And", "Or"}
  /\ bits' = [bits EXCEPT ![Current.bv] =
                IF Current.op = "And" THEN @ \cap bits[Current.other]
                                      ELSE @ \cup bits[Current.other]]
  /\ done' = done + 1
  /\ UNCHANGED <<ops, num, qualifying, words>>

Spec == Init /\ [][WriteWord \/ EndScan \/ Combine]_vars
=============================================================================
