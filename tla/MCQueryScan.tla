----------------------------- MODULE MCQueryScan -----------------------------
(***************************************************************************)
(* Instances of QueryScan for TLC.  The codes of one lane are the values   *)
(* around every literal of the query, and the smallest, the middle and the *)
(* largest code of each column; the other lane holds a tuple that is equal *)
(* to a literal in every column, or one that is below all of them, so that *)
(* the chunk goes on, or does not, whatever the first lane decides.        *)
(***************************************************************************)
EXTENDS QueryScan

Q19Only == {Q19}

(* The literals on a column, or, of a column compared with columns, on those. *)
Literals(k, c) ==
  LET direct == {k.value[p] : p \in {q \in 1..k.n : k.column[q] = c /\ k.right[q] = 0}}
  IN IF direct # {} THEN direct
     ELSE {k.value[p] : p \in {q \in 1..k.n : k.width[k.column[q]] = k.width[c]
                                              /\ k.right[q] = 0}}

LargestCode(width) == 2^width - 1

Boundary(k, c) ==
  {v \in UNION {{l - 1, l, l + 1} : l \in Literals(k, c)} : v \in 0..LargestCode(k.width[c])}
    \cup {0, LargestCode(k.width[c]) \div 2, LargestCode(k.width[c])}

Columns(k) == 1..Len(k.width)

Rows(k) ==
  {r \in [Columns(k) -> UNION {Boundary(k, c) : c \in Columns(k)}] :
     \A c \in Columns(k) : r[c] \in Boundary(k, c)}

Companions(k) ==
  {[c \in Columns(k) |-> CHOOSE v \in Literals(k, c) : TRUE], [c \in Columns(k) |-> 0]}

FirstLane == CHOOSE l \in Lane : TRUE

BoundaryTables(k) ==
  {[x \in Tuple |-> IF x[2][2] = FirstLane THEN row ELSE companion] :
     row \in Rows(k), companion \in Companions(k)}

(* Codes that pass and fail the first of the three sets of Q19. *)
Q19Tables(k) ==
  {[x \in Tuple |-> row] : row \in [Columns(k) -> {1, 2, 28}]}
=============================================================================
