--------------------------- MODULE SelectionScan ---------------------------
(***************************************************************************)
(* What every scan of the repository promises: the bit vector is produced  *)
(* word after word, and the word that is stored holds a one exactly at the *)
(* positions of the tuples that qualify.  How many byte slices are looked  *)
(* at to find that out is the implementation's business.                   *)
(***************************************************************************)
EXTENDS Integers

CONSTANTS NumWords,     \* The number of words of the bit vector.
          Position      \* The bit positions of one word.

VARIABLES qualifying,   \* The <<word, position>> pairs of the qualifying tuples.
          stored,       \* How many words have been stored.
          bitmap        \* The bit vector: the set of one bits of each word.

vars == <<qualifying, stored, bitmap>>

Init ==
  /\ qualifying \in SUBSET ((1..NumWords) \X Position)
  /\ stored = 0
  /\ bitmap \in [1..NumWords -> SUBSET Position]

StoreWord ==
  /\ stored < NumWords
  /\ stored' = stored + 1
  /\ bitmap' = [bitmap EXCEPT
                  ![stored + 1] = {b \in Position : <<stored + 1, b>> \in qualifying}]
  /\ UNCHANGED qualifying

Next == StoreWord

Spec == Init /\ [][Next]_vars
=============================================================================
