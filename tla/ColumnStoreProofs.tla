-------------------------- MODULE ColumnStoreProofs --------------------------
(***************************************************************************)
(* A client of ByteSlice's columns that keeps to what it is asked sees a   *)
(* ColumnStore, for every script, every number of threads and every size   *)
(* of block and word: by StoreInv, every action is an action of the store, *)
(* or changes nothing of it.                                               *)
(*                                                                         *)
(* First sums, flattened sequences, and what the store sees of a column    *)
(* and of a bit vector; then the actions, one lemma each (...Maps); then   *)
(* that StoreInv is inductive; and last the theorems.                      *)
(***************************************************************************)
EXTENDS ColumnClientProofs, SequenceTheorems

----------------------------------------------------------------------------
(***************************************************************************)
(* The sum of a function on a finite set, which FoldFunction takes of its  *)
(* elements in some order, is the number of pairs of an element and one of *)
(* the numbers up to its value.                                            *)
(***************************************************************************)
Shares(f, S) == {p \in S \X Nat : p[2] \in 1..f[p[1]]}

(* Only finitely many pairs.                                               *)
LEMMA FiniteShares ==
  ASSUME NEW S, IsFiniteSet(S), NEW f \in [S -> Nat], NEW T \in SUBSET S
  PROVE  IsFiniteSet(Shares(f, T))
<1> DEFINE Of(x) == {x} \X (1..f[x])
           g == [x \in S |-> Of(x)]
           image == {Of(x) : x \in S}
<1>1. ASSUME NEW x \in S
      PROVE  IsFiniteSet(Of(x))
  <2>1. IsFiniteSet(1..f[x]) /\ IsFiniteSet({x})
    <3>1. f[x] \in Int /\ 1 \in Int
      OBVIOUS
    <3> QED BY <3>1, FS_Interval, FS_Singleton
  <2> QED BY <2>1, FS_Product
<1>2. IsFiniteSet(image)
  <2>1. g \in Surjection(S, image)
    BY DEF Surjection
  <2> HIDE DEF g, image
  <2> QED BY <2>1, FS_Surjection
<1>3. IsFiniteSet(UNION image)
  <2>1. \A U \in image : IsFiniteSet(U)
    BY <1>1
  <2> HIDE DEF image
  <2> QED BY <1>2, <2>1, FS_UNION
<1>4. Shares(f, T) \in SUBSET UNION image
  <2> SUFFICES ASSUME NEW p \in Shares(f, T)
               PROVE  p \in UNION image
    OBVIOUS
  <2>1. p \in S \X Nat /\ p[2] \in 1..f[p[1]]
    BY DEF Shares
  <2>2. p \in Of(p[1])
    BY <2>1
  <2> QED BY <2>1, <2>2
<1> HIDE DEF image
<1> QED BY <1>3, <1>4, FS_Subset

(* Any of the elements may be taken first.                                 *)
LEMMA SharesOfOne ==
  ASSUME NEW S, IsFiniteSet(S), NEW f \in [S -> Nat], NEW T \in SUBSET S, NEW x \in T
  PROVE  Cardinality(Shares(f, T)) = f[x] + Cardinality(Shares(f, T \ {x}))
<1> DEFINE A == {x} \X (1..f[x])
           B == Shares(f, T \ {x})
<1>1. IsFiniteSet(A) /\ Cardinality(A) = f[x]
  <2> DEFINE n == f[x]
  <2>1. n \in Nat
    OBVIOUS
  <2> HIDE DEF n
  <2>2. IsFiniteSet(1..n) /\ Cardinality(1..n) = n
    <3>1. IsFiniteSet(1..n) /\ Cardinality(1..n) = IF 1 > n THEN 0 ELSE n - 1 + 1
      BY <2>1, FS_Interval
    <3> QED BY <2>1, <3>1
  <2>3. IsFiniteSet({x}) /\ Cardinality({x}) = 1
    BY FS_Singleton
  <2>4. IsFiniteSet({x} \X (1..n)) /\ Cardinality({x} \X (1..n)) = Cardinality({x}) * Cardinality(1..n)
    BY <2>2, <2>3, FS_Product
  <2>5. Cardinality({x} \X (1..n)) = n
    BY <2>1, <2>2, <2>3, <2>4
  <2> QED BY <2>4, <2>5 DEF n
<1>2. IsFiniteSet(B)
  <2>1. T \ {x} \in SUBSET S
    OBVIOUS
  <2> QED BY <2>1, FiniteShares
<1>3. Shares(f, T) = A \cup B /\ A \cap B = {}
  <2>1. f[x] \in Nat
    OBVIOUS
  <2> QED BY <2>1 DEF Shares
<1> HIDE DEF A, B
<1>4. /\ Cardinality(A \cup B) = Cardinality(A) + Cardinality(B) - Cardinality(A \cap B)
      /\ Cardinality(A) \in Nat /\ Cardinality(B) \in Nat
  BY <1>1, <1>2, FS_Union, FS_CardinalityType
<1>5. Cardinality(A \cap B) = 0
  BY <1>3, FS_EmptySet, Zenon
<1>6. Cardinality(Shares(f, T)) = Cardinality(A \cup B)
  BY <1>3, Zenon
<1> QED BY <1>1, <1>4, <1>5, <1>6 DEF B

(* The sum is the number of the pairs.                                     *)
LEMMA SumOfFunction ==
  ASSUME NEW S, IsFiniteSet(S), NEW f \in [S -> Nat]
  PROVE  FoldFunction(+, 0, f) = Cardinality(Shares(f, S))
<1> DEFINE IsFold(g) ==
             g = [s \in SUBSET S |->
                    IF s = {} THEN 0
                    ELSE LET x == CHOOSE x \in s : TRUE IN f[x] + g[s \ {x}]]
           sum == CHOOSE g : IsFold(g)
           count == [s \in SUBSET S |-> Cardinality(Shares(f, s))]
<1>1. FoldFunction(+, 0, f) = sum[S]
  <2>1. DOMAIN f = S
    OBVIOUS
  <2> QED BY <2>1 DEF FoldFunction, FoldFunctionOnSet, MapThenFoldSet
<1>2. IsFold(count)
  <2> SUFFICES ASSUME NEW s \in SUBSET S
               PROVE  count[s] = IF s = {} THEN 0
                                 ELSE LET x == CHOOSE x \in s : TRUE IN f[x] + count[s \ {x}]
    BY Zenon
  <2>1. CASE s = {}
    <3>1. Shares(f, s) = {}
      BY <2>1 DEF Shares
    <3>2. count[s] = 0
      BY <3>1, FS_EmptySet, Zenon
    <3> QED BY <2>1, <3>2
  <2>2. CASE s # {}
    <3> DEFINE y == CHOOSE x \in s : TRUE
    <3>1. y \in s
      BY <2>2
    <3> HIDE DEF y
    <3>2. Cardinality(Shares(f, s)) = f[y] + Cardinality(Shares(f, s \ {y}))
      BY <3>1, SharesOfOne
    <3>3. s \ {y} \in SUBSET S
      OBVIOUS
    <3>4. count[s] = f[y] + count[s \ {y}]
      BY <3>2, <3>3
    <3> HIDE DEF count
    <3> QED BY <2>2, <3>4 DEF y
  <2> QED BY <2>1, <2>2
<1>3. IsFold(sum)
  BY <1>2, Zenon
<1> HIDE DEF sum
<1>4. \A s \in SUBSET S : sum[s] = count[s]
  <2> DEFINE wrong == {n \in Nat : \E s \in SUBSET S : Cardinality(s) = n /\ sum[s] # count[s]}
  <2> SUFFICES ASSUME NEW t \in SUBSET S, sum[t] # count[t]
               PROVE  FALSE
    OBVIOUS
  <2>1. \A s \in SUBSET S : IsFiniteSet(s) /\ Cardinality(s) \in Nat
    BY FS_Subset, FS_CardinalityType
  <2>2. wrong # {} /\ wrong \subseteq Nat
    BY <2>1
  <2>3. PICK n \in wrong : \A m \in wrong : n <= m
    <3> HIDE DEF wrong
    <3> QED BY <2>2, Smallest
  <2>4. PICK s \in SUBSET S : Cardinality(s) = n /\ sum[s] # count[s]
    BY <2>3
  <2> DEFINE y == CHOOSE x \in s : TRUE
  <2>5. s # {}
    <3>1. sum[{}] = 0 /\ count[{}] = 0
      BY <1>2, <1>3
    <3> QED BY <2>4, <3>1
  <2>6. sum[s] = f[y] + sum[s \ {y}] /\ count[s] = f[y] + count[s \ {y}]
    BY <1>2, <1>3, <2>5, Zenon
  <2>7. y \in s
    BY <2>5
  <2> HIDE DEF y, count
  <2>8. sum[s \ {y}] # count[s \ {y}]
    BY <2>4, <2>6
  <2>9. Cardinality(s \ {y}) = n - 1 /\ n \in Nat /\ Cardinality(s \ {y}) \in Nat
    BY <2>1, <2>3, <2>4, <2>7, FS_RemoveElement
  <2>10. n - 1 \in wrong
    BY <2>8, <2>9
  <2> HIDE DEF wrong
  <2> QED BY <2>3, <2>9, <2>10
<1> QED BY <1>1, <1>4

----------------------------------------------------------------------------
(***************************************************************************)
(* FlattenSeq joins the sequences of a sequence.  The function it is       *)
(* defined by exists, and is the only one: both by the first i at which    *)
(* it would not be.                                                        *)
(***************************************************************************)
Joins(s, f, n) ==
  \A i \in 1..n : f[i] = IF i = 1 THEN s[i] ELSE f[i - 1] \o s[i]

(* There is no other such function.                                        *)
LEMMA SameJoins ==
  ASSUME NEW n \in Nat, NEW s, NEW t, NEW f, NEW g, Joins(s, f, n), Joins(t, g, n),
         \A i \in 1..n : s[i] = t[i]
  PROVE  \A i \in 1..n : f[i] = g[i]
<1> DEFINE wrong == {i \in 1..n : f[i] # g[i]}
<1> SUFFICES ASSUME wrong # {}
             PROVE  FALSE
  OBVIOUS
<1>1. wrong \subseteq Nat
  OBVIOUS
<1> HIDE DEF wrong
<1>2. PICK i \in wrong : \A j \in wrong : i <= j
  BY <1>1, Smallest
<1>3. i \in 1..n /\ f[i] # g[i]
  BY <1>2 DEF wrong
<1>4. i # 1 => i - 1 \in 1..n /\ ~(i <= i - 1)
  BY <1>3
<1>5. i # 1 => f[i - 1] = g[i - 1]
  BY <1>2, <1>4 DEF wrong
<1> QED BY <1>3, <1>5 DEF Joins

(* There is one.                                                           *)
LEMMA JoinsExist ==
  ASSUME NEW T, NEW s \in Seq(Seq(T))
  PROVE  \E f \in [1..Len(s) -> Seq(T)] : Joins(s, f, Len(s))
<1> DEFINE Exists(n) == \E f \in [1..n -> Seq(T)] : Joins(s, f, n)
           wrong == {n \in 0..Len(s) : ~Exists(n)}
<1>1. Len(s) \in Nat /\ \A i \in 1..Len(s) : s[i] \in Seq(T)
  BY LenProperties, ElementOfSeq
<1> SUFFICES ASSUME wrong # {}
             PROVE  FALSE
  BY <1>1
<1>2. wrong \subseteq Nat
  BY <1>1
<1> HIDE DEF wrong
<1>3. PICK n \in wrong : \A m \in wrong : n <= m
  BY <1>2, Smallest
<1>4. n \in 0..Len(s) /\ ~Exists(n)
  BY <1>3 DEF wrong
<1>5. n # 0
  <2>1. Exists(0)
    <3> DEFINE f == [i \in 1..0 |-> <<>>]
    <3>1. f \in [1..0 -> Seq(T)] /\ Joins(s, f, 0)
      BY DEF Joins
    <3> QED BY <3>1
  <2> QED BY <1>4, <2>1
<1>6. n - 1 \in 0..Len(s) /\ n \in 1..Len(s) /\ ~(n <= n - 1)
  BY <1>1, <1>4, <1>5
<1>7. Exists(n - 1)
  <2> HIDE DEF Exists
  <2> QED BY <1>3, <1>6 DEF wrong
<1>8. PICK f \in [1..(n - 1) -> Seq(T)] : Joins(s, f, n - 1)
  BY <1>7
<1> DEFINE last == IF n = 1 THEN s[n] ELSE f[n - 1] \o s[n]
           g == [i \in 1..n |-> IF i = n THEN last ELSE f[i]]
<1>9. last \in Seq(T)
  <2>1. s[n] \in Seq(T)
    BY <1>1, <1>6
  <2>2. n # 1 => f[n - 1] \in Seq(T)
    <3>1. n # 1 => n - 1 \in 1..(n - 1)
      BY <1>6
    <3> QED BY <1>8, <3>1
  <2>3. n # 1 => f[n - 1] \o s[n] \in Seq(T)
    BY <2>1, <2>2, ConcatProperties
  <2> QED BY <2>1, <2>3
<1> HIDE DEF last
<1>10. g \in [1..n -> Seq(T)]
  BY <1>6, <1>8, <1>9
<1>11. Joins(s, g, n)
  <2> SUFFICES ASSUME NEW i \in 1..n
               PROVE  g[i] = IF i = 1 THEN s[i] ELSE g[i - 1] \o s[i]
    BY DEF Joins
  <2>1. CASE i = n
    <3>1. i # 1 => i - 1 \in 1..n /\ i - 1 # n
      BY <1>6, <2>1
    <3>2. i # 1 => g[i - 1] = f[i - 1]
      BY <3>1
    <3>3. g[i] = last
      BY <2>1
    <3> HIDE DEF g
    <3> QED BY <2>1, <3>2, <3>3 DEF last
  <2>2. CASE i # n
    <3>1. i \in 1..(n - 1) /\ (i # 1 => i - 1 \in 1..n /\ i - 1 # n)
      BY <1>6, <2>2
    <3>2. g[i] = f[i] /\ (i # 1 => g[i - 1] = f[i - 1])
      BY <2>2, <3>1
    <3> HIDE DEF g
    <3> QED BY <1>8, <3>1, <3>2 DEF Joins
  <2> QED BY <2>1, <2>2
<1> HIDE DEF g
<1> QED BY <1>4, <1>10, <1>11

(* FlattenSeq is the last of the function.                                 *)
LEMMA FlattenJoins ==
  ASSUME NEW T, NEW s \in Seq(Seq(T)), s # <<>>
  PROVE  \E f \in [1..Len(s) -> Seq(T)] : Joins(s, f, Len(s)) /\ FlattenSeq(s) = f[Len(s)]
<1> DEFINE n == Len(s)
           IsJoins(h) == h = [i \in 1..n |-> IF i = 1 THEN s[i] ELSE h[i - 1] \o s[i]]
           g == CHOOSE h : IsJoins(h)
<1>1. n \in Nat \ {0}
  BY EmptySeq
<1>2. PICK f \in [1..n -> Seq(T)] : Joins(s, f, n)
  BY JoinsExist
<1>3. FlattenSeq(s) = g[n]
  BY <1>1 DEF FlattenSeq
<1> HIDE DEF n
<1>4. IsJoins(f)
  BY <1>2 DEF Joins
<1>5. IsJoins(g)
  BY <1>4, Zenon
<1>6. Joins(s, g, n)
  BY <1>5, Zenon DEF Joins
<1> HIDE DEF g
<1>7. \A i \in 1..n : f[i] = g[i]
  BY <1>1, <1>2, <1>6, SameJoins
<1>8. n \in 1..n
  BY <1>1
<1> QED BY <1>2, <1>3, <1>7, <1>8 DEF n

(* No sequences make the empty one.                                        *)
LEMMA FlattenNone == FlattenSeq(<<>>) = <<>>
<1>1. Len(<<>>) = 0
  OBVIOUS
<1> QED BY <1>1 DEF FlattenSeq

(* The elements are those of the sequences.                                *)
LEMMA FlattenType ==
  ASSUME NEW T, NEW s \in Seq(Seq(T))
  PROVE  FlattenSeq(s) \in Seq(T)
<1>1. CASE s = <<>>
  BY <1>1, FlattenNone, EmptySeq
<1>2. CASE s # <<>>
  <2>1. PICK f \in [1..Len(s) -> Seq(T)] : FlattenSeq(s) = f[Len(s)]
    BY <1>2, FlattenJoins
  <2>2. Len(s) \in 1..Len(s)
    BY <1>2, EmptySeq
  <2> QED BY <2>1, <2>2
<1> QED BY <1>1, <1>2

(* A sequence more is joined to the end.                                   *)
LEMMA FlattenAppend ==
  ASSUME NEW T, NEW s \in Seq(Seq(T)), NEW e \in Seq(T)
  PROVE  FlattenSeq(Append(s, e)) = FlattenSeq(s) \o e
<1> DEFINE longer == Append(s, e)
<1>0. PICK n \in Nat : n = Len(s)
  BY LenProperties
<1>1. /\ longer \in Seq(Seq(T)) /\ longer # <<>> /\ Len(longer) = n + 1 /\ n \in Nat
      /\ \A i \in 1..n : longer[i] = s[i]
      /\ longer[n + 1] = e
  BY <1>0, AppendProperties
<1> HIDE DEF longer
<1>2. PICK g : Joins(longer, g, n + 1) /\ FlattenSeq(longer) = g[n + 1]
  BY <1>1, FlattenJoins
<1>3. n + 1 \in 1..(n + 1)
  BY <1>1
<1>4. CASE s = <<>>
  <2>1. n = 0
    BY <1>0, <1>4
  <2>2. g[n + 1] = e
    BY <1>1, <1>2, <1>3, <2>1 DEF Joins
  <2>3. <<>> \o e = e
    BY ConcatEmptySeq
  <2> QED BY <1>2, <1>4, <2>2, <2>3, FlattenNone DEF longer
<1>5. CASE s # <<>>
  <2>1. PICK f : Joins(s, f, n) /\ FlattenSeq(s) = f[n]
    BY <1>0, <1>5, FlattenJoins
  <2>2. n \in 1..n /\ n + 1 # 1 /\ (n + 1) - 1 = n
    BY <1>0, <1>5, EmptySeq
  <2>3. Joins(longer, g, n)
    <3>1. \A i \in 1..n : i \in 1..(n + 1)
      BY <1>1
    <3> QED BY <1>2, <3>1 DEF Joins
  <2>4. \A i \in 1..n : f[i] = g[i]
    <3>1. \A i \in 1..n : s[i] = longer[i]
      BY <1>1
    <3> QED BY <2>1, <2>3, <3>1, SameJoins
  <2>5. g[n + 1] = g[n] \o e
    BY <1>1, <1>2, <1>3, <2>2 DEF Joins
  <2> QED BY <1>2, <2>1, <2>2, <2>4, <2>5 DEF longer
<1> QED BY <1>4, <1>5

(* Sequences of anything, of sequences too. *)
JoinInAnyOrder(a, b, c) == (a \o b) \o c = a \o (b \o c)

AppendsBehind(a, b, e) == a \o Append(b, e) = Append(a \o b, e)

(* Three sequences.                                                        *)
LEMMA ThreeSequences ==
  ASSUME NEW S, NEW a, NEW b, NEW c, a \in Seq(S), b \in Seq(S), c \in Seq(S)
  PROVE  JoinInAnyOrder(a, b, c)
  BY ConcatAssociative DEF JoinInAnyOrder

(* An element behind two sequences.                                        *)
LEMMA ElementBehind ==
  ASSUME NEW S, NEW a, NEW b, NEW e, a \in Seq(S), b \in Seq(S), e \in S
  PROVE  AppendsBehind(a, b, e)
  BY DEF AppendsBehind

(* By the length of the shortest t for which it would not be so.           *)
LEMMA FlattenConcat ==
  ASSUME NEW T, NEW s \in Seq(Seq(T)), NEW t \in Seq(Seq(T))
  PROVE  FlattenSeq(s \o t) = FlattenSeq(s) \o FlattenSeq(t)
<1> DEFINE Right(u) == FlattenSeq(s \o u) = FlattenSeq(s) \o FlattenSeq(u)
           wrong == {n \in Nat : \E u \in Seq(Seq(T)) : Len(u) = n /\ ~Right(u)}
<1> SUFFICES ASSUME ~Right(t)
             PROVE  FALSE
  OBVIOUS
<1>1. wrong # {} /\ wrong \subseteq Nat
  <2>1. Len(t) \in Nat
    BY LenProperties
  <2> QED BY <2>1
<1>2. PICK n \in wrong : \A m \in wrong : n <= m
  <2> HIDE DEF wrong
  <2> QED BY <1>1, Smallest
<1>3. PICK u \in Seq(Seq(T)) : Len(u) = n /\ ~Right(u)
  BY <1>2
<1>4. Right(<<>>)
  <2>1. s \o <<>> = s
    BY ConcatEmptySeq
  <2>2. FlattenSeq(s) \o <<>> = FlattenSeq(s)
    BY FlattenType, ConcatEmptySeq
  <2> QED BY <2>1, <2>2, FlattenNone
<1>5. u # <<>>
  BY <1>3, <1>4
<1>6. PICK v \in Seq(Seq(T)), e \in Seq(T) : u = Append(v, e)
  BY <1>5, SequenceEmptyOrAppend
<1>7. Len(v) \in Nat /\ n = Len(v) + 1
  BY <1>3, <1>6, LenProperties, AppendProperties
<1>8. Right(v)
  <2> SUFFICES ASSUME ~Right(v)
               PROVE  FALSE
    OBVIOUS
  <2>1. Len(v) \in wrong
    BY <1>7
  <2> HIDE DEF wrong
  <2> QED BY <1>2, <1>7, <2>1
<1>9. s \o Append(v, e) = Append(s \o v, e)
  <2>1. AppendsBehind(s, v, e)
    <3> HIDE DEF wrong, Right
    <3> QED BY ElementBehind
  <2> QED BY <2>1, Zenon DEF AppendsBehind
<1>10. FlattenSeq(Append(s \o v, e)) = FlattenSeq(s \o v) \o e
  <2>1. s \o v \in Seq(Seq(T))
    BY ConcatProperties
  <2> QED BY <2>1, FlattenAppend
<1>11. FlattenSeq(Append(v, e)) = FlattenSeq(v) \o e
  BY FlattenAppend
<1>12. (FlattenSeq(s) \o FlattenSeq(v)) \o e = FlattenSeq(s) \o (FlattenSeq(v) \o e)
  <2>1. JoinInAnyOrder(FlattenSeq(s), FlattenSeq(v), e)
    <3>1. FlattenSeq(s) \in Seq(T) /\ FlattenSeq(v) \in Seq(T)
      BY FlattenType
    <3> HIDE DEF wrong, Right
    <3> QED BY <3>1, ThreeSequences
  <2> QED BY <2>1, Zenon DEF JoinInAnyOrder
<1>13. Right(u)
  BY <1>6, <1>8, <1>9, <1>10, <1>11, <1>12, Zenon
<1> QED BY <1>3, <1>13

----------------------------------------------------------------------------
(***************************************************************************)
(* What a ColumnStore sees of a column: the code of each position.         *)
(***************************************************************************)
LEMMA CodesOfColumn ==
  ASSUME NEW column, IsColumn(column)
  PROVE  /\ column.num_tuples \in Nat
         /\ DOMAIN ColumnCodes(column) = 0..(column.num_tuples - 1)
         /\ Cardinality(DOMAIN ColumnCodes(column)) = column.num_tuples
         /\ \A x \in 0..(column.num_tuples - 1) :
              /\ ColumnCodes(column)[x] = GetTuple_(column, x)
              /\ x \in Nat
              /\ block_id(x) + 1 \in 1..NumBlocks(column.num_tuples)
              /\ pos_in_block(x) < BlockSize(column.num_tuples, block_id(x))
              /\ pos_in_block(x) \in Positions
<1> DEFINE n == column.num_tuples
<1>1. n \in Nat
  BY ColumnFields
<1>2. DOMAIN ColumnCodes(column) = 0..(n - 1)
  BY DEF ColumnCodes
<1> HIDE DEF n
<1>3. Cardinality(0..(n - 1)) = n
  <2>1. 0 \in Int /\ n - 1 \in Int
    BY <1>1
  <2>2. Cardinality(0..(n - 1)) = IF 0 > n - 1 THEN 0 ELSE (n - 1) - 0 + 1
    BY <2>1, FS_Interval
  <2> QED BY <1>1, <2>2
<1>4. Cardinality(DOMAIN ColumnCodes(column)) = n
  BY <1>2, <1>3, Zenon
<1>5. ASSUME NEW x \in 0..(n - 1)
      PROVE  /\ ColumnCodes(column)[x] = GetTuple_(column, x)
             /\ x \in Nat
             /\ block_id(x) + 1 \in 1..NumBlocks(n)
             /\ pos_in_block(x) < BlockSize(n, block_id(x))
             /\ pos_in_block(x) \in Positions
  <2>1. x \in Nat /\ x < n
    BY <1>1
  <2>2. block_id(x) + 1 \in 1..NumBlocks(n) /\ pos_in_block(x) < BlockSize(n, block_id(x))
    BY <1>1, <2>1, BlockOfTuple
  <2>3. pos_in_block(x) \in Positions
    BY <2>1, PositionOfBlock
  <2>4. ColumnCodes(column)[x] = GetTuple_(column, x)
    BY DEF ColumnCodes, n
  <2> QED BY <2>1, <2>2, <2>3, <2>4
<1> QED BY <1>1, <1>2, <1>4, <1>5 DEF n

(* Two positions of a column are in different places.                      *)
LEMMA SamePlace ==
  ASSUME NEW x \in Nat, NEW y \in Nat, block_id(x) = block_id(y), pos_in_block(x) = pos_in_block(y)
  PROVE  x = y
  BY PositionOfBlock

(* The values of a column are its codes.                                   *)
LEMMA ValuesOfColumns ==
  ASSUME DOMAIN columns = {1, 2}
  PROVE  DOMAIN AllValues = {1, 2} /\ \A c \in {1, 2} : AllValues[c] = ColumnCodes(columns[c])
  BY DEF AllValues

(* A column is changed.                                                    *)
LEMMA ChangedValues ==
  ASSUME DOMAIN columns = {1, 2}, NEW c \in {1, 2}, NEW column,
         columns' = [columns EXCEPT ![c] = column]
  PROVE  AllValues' = [AllValues EXCEPT ![c] = ColumnCodes(column)]
<1>1. AllValues' = [d \in DOMAIN columns' |-> ColumnCodes(columns'[d])]
  BY DEF AllValues
<1>2. DOMAIN columns' = {1, 2} /\ \A d \in {1, 2} : columns'[d] = IF d = c THEN column ELSE columns[d]
  OBVIOUS
<1>3. AllValues' = [d \in {1, 2} |-> ColumnCodes(IF d = c THEN column ELSE columns[d])]
  BY <1>1, <1>2
<1> QED BY <1>3 DEF AllValues

(* The store's bit vectors stay as they are.                               *)
LEMMA KeptVectors ==
  ASSUME UNCHANGED bitvectors
  PROVE  AllNums' = AllNums /\ AllSelected' = AllSelected
  BY DEF AllNums, AllSelected, Selected, IsSet, GetBit, block_id, pos_in_block

(* What the file holds is read as the first column reads it.               *)
LEMMA KeptFile ==
  ASSUME UNCHANGED file,
         \/ columns'[1].type = columns[1].type /\ columns'[1].bit_width = columns[1].bit_width
         \/ file = <<>>
  PROVE  FileCodes' = FileCodes /\ AllWritten' = AllWritten
<1>1. FileCodes' = [b \in DOMAIN file |-> [p \in 1..file[b].num_tuples |->
                                             Code(columns'[1], file[b].data[p - 1])]]
  BY DEF FileCodes
<1>2. FileCodes' = FileCodes
  <2>1. CASE columns'[1].type = columns[1].type /\ columns'[1].bit_width = columns[1].bit_width
    <3>1. \A d : Code(columns'[1], d) = Code(columns[1], d)
      BY <2>1 DEF Code
    <3> QED BY <1>1, <3>1 DEF FileCodes
  <2>2. CASE file = <<>>
    <3>1. DOMAIN file = {}
      BY <2>2
    <3> QED BY <1>1, <3>1 DEF FileCodes
  <2> QED BY <2>1, <2>2
<1> QED BY <1>2 DEF AllWritten

(* As many codes of the file have been read.                               *)
LEMMA KeptFilePosition ==
  ASSUME FileCodes' = FileCodes, UNCHANGED file_pos
  PROVE  AllRead' = AllRead
  BY DEF AllRead

(* A call that returns at once.                                            *)
LEMMA ImmediateStep ==
  ASSUME NEW ops, Calls(ops), Returns, InStep,
         \/ Store!Column \/ Store!Resize \/ Store!SetTuple \/ Store!LoadTextFile
         \/ Store!SerToFile \/ Store!DeserFromFile \/ Store!SetBit \/ Store!UnsetBit
  PROVE  Store!Immediate
<1>1. /\ pc = "call" /\ ip <= Len(script) /\ pc' = "call" /\ ip' = ip + 1
      /\ script' = script /\ result' = result
  BY DEF Calls, Returns, InStep
<1>2. Undone = {} /\ Undone' = {}
  BY <1>1 DEF Undone
<1> QED BY <1>1, <1>2 DEF Store!Immediate

----------------------------------------------------------------------------
(* The calls on a column that return at once do what a ColumnStore does.   *)
LEMMA ColumnMaps ==
  ASSUME StoreInv, ClientFitsStore, Column
  PROVE  Store!Immediate
<1>1. /\ TypeOK /\ IsCall(Call) /\ Call.op = "Column" /\ pc = "call" /\ ip <= Len(script)
  BY BetweenCalls DEF Column, StoreInv
<1> DEFINE c == Call.column
<1>2. /\ c \in {1, 2} /\ Call.type \in ColumnType /\ Call.bit_width \in 1..32 /\ Call.num \in Nat
      /\ DOMAIN columns = {1, 2} /\ \A d \in {1, 2} : IsColumn(columns[d])
  BY <1>1 DEF IsCall, ColumnCalls, TypeOK
<1>3. columns[c].num_tuples = 0 /\ (c = 1 => file = <<>>)
  BY <1>1 DEF ClientFitsStore, FitsStore
<1>4. PICK fresh \in FreshData(Call) :
        columns' = [columns EXCEPT ![c] =
          [type |-> Call.type, bit_width |-> Call.bit_width, num_tuples |-> Call.num,
           blocks |-> [b \in 1..NumBlocks(Call.num) |->
                         [num_tuples |-> BlockSize(Call.num, b - 1), data |-> fresh]]]]
  BY DEF Column
<1> DEFINE column == [type |-> Call.type, bit_width |-> Call.bit_width, num_tuples |-> Call.num,
                      blocks |-> [b \in 1..NumBlocks(Call.num) |->
                                    [num_tuples |-> BlockSize(Call.num, b - 1), data |-> fresh]]]
<1>5. columns' = [columns EXCEPT ![c] = column] /\ column.num_tuples = Call.num
  BY <1>4
<1>6. Calls({"Column"}) /\ Returns /\ InStep /\ UNCHANGED <<bitvectors, file, file_pos>>
  BY DEF Column
<1> HIDE DEF column
<1>7. AllValues' = [AllValues EXCEPT ![c] = ColumnCodes(column)]
  BY <1>2, <1>5, ChangedValues
<1>8. DOMAIN AllValues = {1, 2} /\ \A d \in {1, 2} : AllValues[d] = ColumnCodes(columns[d])
  BY <1>2, ValuesOfColumns
<1>9. DOMAIN AllValues[c] = {}
  <2>1. DOMAIN ColumnCodes(columns[c]) = 0..(0 - 1)
    BY <1>3 DEF ColumnCodes
  <2> QED BY <1>2, <1>8, <2>1
<1>10. DOMAIN ColumnCodes(column) = 0..(Call.num - 1)
  BY <1>5 DEF ColumnCodes
<1>11. AllNums' = AllNums /\ AllSelected' = AllSelected
  BY <1>6, KeptVectors
<1>12. AllWritten' = AllWritten /\ AllRead' = AllRead
  <2>1. columns'[1] = columns[1] \/ file = <<>>
    BY <1>2, <1>3, <1>5
  <2> QED BY <1>6, <2>1, KeptFile, KeptFilePosition
<1>13. Store!Column
  <2>1. Store!Call.op = "Column" /\ Store!Call.column = c /\ Store!Call.num = Call.num
    BY <1>1 DEF Store!Call, Call
  <2>2. Store!Resized(c, Call.num)
    <3>1. DOMAIN AllValues'[c] = 0..(Call.num - 1)
      BY <1>2, <1>7, <1>8, <1>10
    <3>2. \A d \in DOMAIN AllValues \ {c} : AllValues'[d] = AllValues[d]
      BY <1>7, <1>8
    <3> QED BY <1>9, <1>11, <1>12, <3>1, <3>2 DEF Store!Resized
  <2> QED BY <1>9, <2>1, <2>2 DEF Store!Column
<1> QED BY <1>6, <1>13, ImmediateStep

(* Resize keeps the codes of the blocks that stay.                         *)
LEMMA ResizedData ==
  ASSUME NEW column, IsColumn(column), NEW num \in Nat \ {0},
         NEW fresh \in [Positions -> StoredCode(column)],
         \/ NumBlocks(num) > NumBlocks(column.num_tuples)
         \/ NumBlocks(num) = NumBlocks(column.num_tuples),
         NEW b \in 1..NumBlocks(column.num_tuples)
  PROVE  ResizedBlocks(column.blocks, num, fresh)[b].data = column.blocks[b].data
<1> DEFINE k == kNumTuplesPerBlock
           old == NumBlocks(column.num_tuples)
           new == NumBlocks(num)
           last == num % k
           D == [Positions -> StoredCode(column)]
           B == [num_tuples : 1..k, data : D]
           grown == [a \in 1..new |->
                       IF a > old THEN [num_tuples |-> k, data |-> fresh]
                       ELSE IF a = old THEN [column.blocks[a] EXCEPT !.num_tuples = k]
                       ELSE column.blocks[a]]
           changed == IF new > old THEN grown ELSE column.blocks
           blocks == IF last = 0 THEN changed ELSE [changed EXCEPT ![Len(changed)].num_tuples = last]
<1>1. old \in Nat /\ new \in Nat /\ Len(column.blocks) = old /\ CEIL(num, k) = new
  <2>1. old \in Nat /\ Len(column.blocks) = old
    BY ColumnFields
  <2>2. new \in Nat /\ CEIL(num, k) = new
    BY BlockSizes
  <2> QED BY <2>1, <2>2
<1>2. column.blocks \in [1..old -> B]
  BY DEF IsColumn
<1> HIDE DEF old, new, last, D
<1>3. b \in 1..old /\ b \in 1..new /\ ~(new < old)
  BY <1>1 DEF old, new
<1>4. ResizedBlocks(column.blocks, num, fresh) = blocks
  BY <1>1, <1>3 DEF ResizedBlocks, last
<1>5. column.blocks[b] \in B
  BY <1>2, <1>3
<1>6. changed[b].data = column.blocks[b].data /\ b \in DOMAIN changed
      /\ \E X : changed[b] \in [num_tuples : X, data : D]
  <2>1. CASE new > old
    <3>1. grown[b] = IF b = old THEN [column.blocks[b] EXCEPT !.num_tuples = k] ELSE column.blocks[b]
      BY <1>1, <1>3
    <3>2. grown[b].data = column.blocks[b].data /\ grown[b] \in [num_tuples : 1..k \cup {k}, data : D]
      BY <1>5, <3>1
    <3> HIDE DEF B
    <3> QED BY <1>3, <2>1, <3>2
  <2>2. CASE ~(new > old)
    BY <1>2, <1>3, <1>5, <2>2
  <2> QED BY <2>1, <2>2
<1> HIDE DEF changed
<1>7. blocks[b].data = changed[b].data
  <2>1. CASE last = 0
    BY <2>1
  <2>2. CASE last # 0
    <3> DEFINE m == Len(changed)
               filled == [changed[m] EXCEPT !.num_tuples = last]
    <3>1. blocks = [changed EXCEPT ![m] = filled]
      BY <2>2
    <3>2. b = m => filled.data = changed[b].data
      BY <1>6
    <3> HIDE DEF m, filled, blocks
    <3>3. blocks[b] = IF b = m THEN filled ELSE changed[b]
      BY <1>6, <3>1
    <3> QED BY <3>2, <3>3
  <2> QED BY <2>1, <2>2
<1> QED BY <1>4, <1>6, <1>7

(* Resize.                                                                 *)
LEMMA ResizeMaps ==
  ASSUME StoreInv, ClientFitsStore, Resize
  PROVE  Store!Immediate
<1>1. IsCall(Call) /\ Call.op = "Resize" /\ TypeOK /\ pc = "call" /\ ip <= Len(script)
  BY BetweenCalls DEF Resize, StoreInv
<1> DEFINE c == Call.column
           column == columns[c]
           num == Call.num
<1>2. /\ c \in {1, 2} /\ num \in Nat /\ IsColumn(column)
      /\ DOMAIN columns = {1, 2}
  BY <1>1 DEF IsCall, ColumnCalls, TypeOK
<1>3. ResizesRight
  BY <1>1 DEF ClientFitsStore, IsAllowed
<1>4. /\ num \in Nat \ {0} /\ CEIL(num, kNumTuplesPerBlock) = NumBlocks(num)
      /\ Len(column.blocks) = NumBlocks(column.num_tuples) /\ column.num_tuples \in Nat
  <2>1. Call.num > 0
    BY <1>3, Zenon DEF ResizesRight
  <2>2. num \in Nat \ {0}
    BY <1>2, <2>1
  <2>3. CEIL(num, kNumTuplesPerBlock) = NumBlocks(num)
    BY <2>2 DEF NumBlocks
  <2>4. Len(column.blocks) = NumBlocks(column.num_tuples) /\ column.num_tuples \in Nat
    <3> HIDE DEF column
    <3> QED BY <1>2, ColumnFields, Zenon
  <2> QED BY <2>2, <2>3, <2>4
<1>5. \/ NumBlocks(num) > NumBlocks(column.num_tuples)
      \/ NumBlocks(num) = NumBlocks(column.num_tuples)
  BY <1>3, <1>4 DEF ResizesRight
<1>6. PICK fresh \in FreshData(column) :
        columns' = [columns EXCEPT ![c].num_tuples = num,
                                   ![c].blocks = ResizedBlocks(@, num, fresh)]
  BY DEF Resize
<1>7. fresh \in [Positions -> StoredCode(column)]
  BY FreshType
<1> DEFINE blocks == ResizedBlocks(column.blocks, num, fresh)
           new == [column EXCEPT !.num_tuples = num, !.blocks = blocks]
<1>8. columns' = [columns EXCEPT ![c] = new]
  BY <1>2, <1>6
<1>9. Calls({"Resize"}) /\ Returns /\ InStep /\ UNCHANGED <<bitvectors, file, file_pos>>
  BY DEF Resize
<1> HIDE DEF c, column, num
<1>10. ASSUME NEW b \in 1..NumBlocks(column.num_tuples)
       PROVE  blocks[b].data = column.blocks[b].data
  <2> HIDE DEF blocks
  <2> QED BY <1>2, <1>4, <1>5, <1>7, ResizedData DEF blocks
<1> HIDE DEF blocks
<1>11. /\ new.num_tuples = num /\ new.blocks = blocks /\ new.type = column.type
       /\ new.bit_width = column.bit_width
  BY <1>2 DEF IsColumn
<1> HIDE DEF new
<1>12. AllValues' = [AllValues EXCEPT ![c] = ColumnCodes(new)]
  BY <1>2, <1>8, ChangedValues
<1>13. DOMAIN AllValues = {1, 2} /\ AllValues[c] = ColumnCodes(column)
  BY <1>2, ValuesOfColumns DEF column
<1>14. DOMAIN ColumnCodes(new) = 0..(num - 1)
  BY <1>11 DEF ColumnCodes
<1>15. ASSUME NEW x \in DOMAIN ColumnCodes(new) \cap DOMAIN ColumnCodes(column)
       PROVE  ColumnCodes(new)[x] = ColumnCodes(column)[x]
  <2>1. x \in 0..(num - 1) /\ x \in 0..(column.num_tuples - 1)
    BY <1>14 DEF ColumnCodes
  <2>2. block_id(x) + 1 \in 1..NumBlocks(column.num_tuples)
    BY <1>2, <2>1, CodesOfColumn
  <2>3. new.blocks[block_id(x) + 1].data = column.blocks[block_id(x) + 1].data
    BY <1>10, <1>11, <2>2
  <2>4. GetTuple_(new, x) = GetTuple_(column, x)
    BY <1>11, <2>3 DEF GetTuple_, Code
  <2>5. ColumnCodes(new)[x] = GetTuple_(new, x) /\ ColumnCodes(column)[x] = GetTuple_(column, x)
    BY <1>11, <2>1 DEF ColumnCodes
  <2> QED BY <2>4, <2>5
<1>16. AllNums' = AllNums /\ AllSelected' = AllSelected
  BY <1>9, KeptVectors
<1>17. AllWritten' = AllWritten /\ AllRead' = AllRead
  <2>1. columns'[1].type = columns[1].type /\ columns'[1].bit_width = columns[1].bit_width
    BY <1>2, <1>8, <1>11 DEF column
  <2> QED BY <1>9, <2>1, KeptFile, KeptFilePosition
<1>18. Store!Resize
  <2>1. Store!Call.op = "Resize" /\ Store!Call.column = c /\ Store!Call.num = num
    BY <1>1 DEF Store!Call, Call, c, num
  <2>2. Store!Resized(c, num)
    <3>1. AllValues'[c] = ColumnCodes(new)
      BY <1>2, <1>12, <1>13
    <3>2. \A d \in DOMAIN AllValues \ {c} : AllValues'[d] = AllValues[d]
      BY <1>12, <1>13
    <3> QED BY <1>13, <1>14, <1>15, <1>16, <1>17, <3>1, <3>2 DEF Store!Resized
  <2> QED BY <2>1, <2>2 DEF Store!Resize
<1> QED BY <1>9, <1>18, ImmediateStep

----------------------------------------------------------------------------
(* A code that fits a column is read as it was written, and compared with  *)
(* as it is.                                                               *)
LEMMA FittingCodes ==
  ASSUME NEW column, column.type \in ColumnType, column.bit_width \in 1..32, NEW value \in Nat,
         Fits(column, value)
  PROVE  Code(column, Stored(column, value)) = value /\ Literal(column, value) = value
<1> DEFINE w == column.bit_width
           m == 2^w
           p == PowerOfTwo[kNumPaddingBits(w) + 1]
           n == kNumBytesPerCode(w)
<1>1. w \in 1..32
  OBVIOUS
<1> HIDE DEF w
<1>2. /\ n \in 1..4 /\ p \in {1, 2, 4, 8, 16, 32, 64, 128} /\ m \in Nat \ {0}
      /\ m * p = 256 * Weight[n]
  BY <1>1, Widths
<1>3. value < m
  BY DEF Fits, w
<1> HIDE DEF m, p, n
<1>4. value \in CodesOf(w)
  <2>1. value \in 0..(m - 1)
    BY <1>2, <1>3
  <2> QED BY <2>1 DEF CodesOf, m
<1>5. n = 1 => value < 256
  <2>1. n = 1 => m * p = 256
    BY <1>2 DEF Weight
  <2> QED BY <1>2, <1>3, <2>1
<1>6. n = 2 => value < 65536
  <2>1. n = 2 => m * p = 65536
    BY <1>2 DEF Weight
  <2> QED BY <1>2, <1>3, <2>1
<1>7. AsDtype(w, value) = value
  BY <1>5, <1>6 DEF AsDtype, n
<1>8. value % m = value
  BY <1>2, <1>3
<1>9. CASE column.type = "kNaive"
  BY <1>7, <1>9 DEF Code, Stored, Literal, w
<1>10. CASE column.type # "kNaive"
  <2>1. GetTuple(SetTuple(value, w), w) = value
    BY <1>1, <1>4, RoundTrip
  <2>2. Literal(column, value) = value
    BY <1>8, <1>10 DEF Literal, w, m
  <2> QED BY <1>10, <2>1, <2>2 DEF Code, Stored, w
<1> QED BY <1>9, <1>10

(* The codes of one column change.                                         *)
LEMMA OnlyCodesChange ==
  ASSUME DOMAIN columns = {1, 2}, NEW c \in {1, 2}, NEW column,
         columns' = [columns EXCEPT ![c] = column],
         column.type = columns[c].type, column.bit_width = columns[c].bit_width,
         UNCHANGED <<bitvectors, file>>
  PROVE  /\ AllValues' = [AllValues EXCEPT ![c] = ColumnCodes(column)]
         /\ DOMAIN AllValues = {1, 2} /\ AllValues[c] = ColumnCodes(columns[c])
         /\ UNCHANGED <<AllNums, AllSelected, FileCodes, AllWritten>>
         /\ UNCHANGED file_pos => UNCHANGED AllRead
<1>1. AllValues' = [AllValues EXCEPT ![c] = ColumnCodes(column)]
  BY ChangedValues
<1>2. DOMAIN AllValues = {1, 2} /\ AllValues[c] = ColumnCodes(columns[c])
  BY ValuesOfColumns
<1>3. columns'[1].type = columns[1].type /\ columns'[1].bit_width = columns[1].bit_width
  OBVIOUS
<1>4. UNCHANGED <<AllNums, AllSelected, FileCodes, AllWritten>>
  BY <1>3, KeptVectors, KeptFile
<1>5. UNCHANGED file_pos => UNCHANGED AllRead
  BY <1>4, KeptFilePosition
<1> QED BY <1>1, <1>2, <1>4, <1>5

(* SetTuple.                                                               *)
LEMMA SetTupleMaps ==
  ASSUME StoreInv, ClientFitsStore, SetTuple_
  PROVE  Store!Immediate
<1>1. IsCall(Call) /\ Call.op = "SetTuple" /\ TypeOK /\ pc = "call" /\ ip <= Len(script)
  BY BetweenCalls DEF SetTuple_, StoreInv
<1> DEFINE c == Call.column
           column == columns[c]
           pos == Call.pos
           value == Call.value
           b == block_id(pos) + 1
           p == pos_in_block(pos)
           data == [column.blocks[b].data EXCEPT ![p] = Stored(column, value)]
           new == [column EXCEPT !.blocks[b].data = data]
<1>2. /\ c \in {1, 2} /\ pos \in Nat /\ value \in Nat
      /\ IsColumn(column) /\ DOMAIN columns = {1, 2}
  BY <1>1 DEF IsCall, ColumnCalls, TypeOK
<1>3. pos < column.num_tuples /\ Fits(column, value)
  BY <1>1 DEF ClientFitsStore, IsAllowed, FitsStore
<1>4. columns' = [columns EXCEPT ![c] = new]
  BY <1>2 DEF SetTuple_, Written
<1>5. Calls({"SetTuple"}) /\ Returns /\ InStep /\ UNCHANGED <<bitvectors, file, file_pos>>
  BY DEF SetTuple_
<1>6. Store!Call.op = "SetTuple" /\ Store!Call.column = c /\ Store!Call.pos = pos /\ Store!Call.value = value
  BY <1>1 DEF Store!Call, Call
<1> HIDE DEF c, column, pos, value
<1>7. /\ column.num_tuples \in Nat /\ column.type \in ColumnType /\ column.bit_width \in 1..32
      /\ DOMAIN column.blocks = 1..NumBlocks(column.num_tuples)
  BY <1>2, ColumnFields
<1>8. b \in 1..NumBlocks(column.num_tuples) /\ p \in Positions
  BY <1>2, <1>3, <1>7, BlockOfTuple, PositionOfBlock
<1>9. column.blocks[b].data \in [Positions -> StoredCode(column)]
  BY <1>2, <1>8, ColumnFields
<1>10. Code(column, Stored(column, value)) = value
  BY <1>2, <1>3, <1>7, FittingCodes
<1>11. /\ new.num_tuples = column.num_tuples /\ new.type = column.type
       /\ new.bit_width = column.bit_width
       /\ \A a \in 1..NumBlocks(column.num_tuples) :
            new.blocks[a].data = IF a = b THEN data ELSE column.blocks[a].data
  <2> HIDE DEF b, data
  <2>1. column \in [type : ColumnType, bit_width : 1..32, num_tuples : Nat,
                    blocks : [1..NumBlocks(column.num_tuples) ->
                      [num_tuples : 1..kNumTuplesPerBlock, data : [Positions -> StoredCode(column)]]]]
    BY <1>2 DEF IsColumn
  <2> QED BY <1>8, <2>1
<1> HIDE DEF new
<1>12. ColumnCodes(new) = [ColumnCodes(column) EXCEPT ![pos] = value]
  <2>1. DOMAIN ColumnCodes(new) = 0..(column.num_tuples - 1)
    BY <1>11 DEF ColumnCodes
  <2>2. DOMAIN ColumnCodes(column) = 0..(column.num_tuples - 1)
    BY DEF ColumnCodes
  <2>3. ASSUME NEW x \in 0..(column.num_tuples - 1)
        PROVE  ColumnCodes(new)[x] = IF x = pos THEN value ELSE ColumnCodes(column)[x]
    <3> DEFINE a == block_id(x) + 1
               q == pos_in_block(x)
    <3>1. /\ x \in Nat /\ a \in 1..NumBlocks(column.num_tuples) /\ q \in Positions
          /\ ColumnCodes(column)[x] = GetTuple_(column, x)
      BY <1>2, CodesOfColumn
    <3>2. ColumnCodes(new)[x] = Code(column, new.blocks[a].data[q])
      BY <1>11 DEF ColumnCodes, GetTuple_, Code
    <3>3. GetTuple_(column, x) = Code(column, column.blocks[a].data[q])
      BY DEF GetTuple_
    <3>4. CASE x = pos
      <4>1. a = b /\ q = p
        BY <3>4
      <4>2. new.blocks[a].data[q] = Stored(column, value)
        BY <1>8, <1>9, <1>11, <4>1
      <4> QED BY <1>10, <3>2, <3>4, <4>2
    <3>5. CASE x # pos
      <4>1. ~(a = b /\ q = p)
        <5>1. ~(block_id(x) = block_id(pos) /\ pos_in_block(x) = pos_in_block(pos))
          BY <1>2, <3>1, <3>5, SamePlace
        <5>2. block_id(x) \in Nat /\ block_id(pos) \in Nat
          BY <1>2, <3>1, PositionOfBlock
        <5> QED BY <5>1, <5>2
      <4>2. new.blocks[a].data[q] = column.blocks[a].data[q]
        <5> HIDE DEF a, q, b, p
        <5> QED BY <1>8, <1>9, <1>11, <3>1, <4>1
      <4> QED BY <3>1, <3>2, <3>3, <3>5, <4>2
    <3> QED BY <3>4, <3>5
  <2> HIDE DEF data, b, p
  <2>4. ColumnCodes(new) = [x \in 0..(column.num_tuples - 1) |-> ColumnCodes(new)[x]]
    BY <2>1 DEF ColumnCodes
  <2>5. [ColumnCodes(column) EXCEPT ![pos] = value]
          = [x \in 0..(column.num_tuples - 1) |-> IF x = pos THEN value ELSE ColumnCodes(column)[x]]
    BY <2>2
  <2> QED BY <2>3, <2>4, <2>5
<1>13. new.type = columns[c].type /\ new.bit_width = columns[c].bit_width
  BY <1>11 DEF column
<1>14. /\ AllValues' = [AllValues EXCEPT ![c] = ColumnCodes(new)] /\ DOMAIN AllValues = {1, 2}
       /\ AllValues[c] = ColumnCodes(columns[c])
       /\ UNCHANGED <<AllNums, AllSelected, AllWritten, AllRead>>
  BY <1>2, <1>4, <1>5, <1>13, OnlyCodesChange
<1>17. Store!SetTuple
  <2>1. AllValues' = [AllValues EXCEPT ![c][pos] = value]
    BY <1>2, <1>12, <1>14 DEF column
  <2> QED BY <1>6, <1>14, <2>1 DEF Store!SetTuple
<1> QED BY <1>5, <1>17, ImmediateStep

(* LoadTextFile.                                                           *)
LEMMA LoadTextFileMaps ==
  ASSUME StoreInv, ClientFitsStore, LoadTextFile
  PROVE  Store!Immediate
<1>1. IsCall(Call) /\ Call.op = "LoadTextFile" /\ TypeOK /\ pc = "call" /\ ip <= Len(script)
  BY BetweenCalls DEF LoadTextFile, StoreInv
<1> DEFINE c == Call.column
           column == columns[c]
           codes == Call.codes
           n == NumBlocks(column.num_tuples)
           read == Min2(column.num_tuples, Len(codes))
           At(b, p) == (b - 1) * kNumTuplesPerBlock + p
           data(b) == [p \in Positions |-> IF At(b, p) < read
                                           THEN Stored(column, codes[At(b, p) + 1])
                                           ELSE column.blocks[b].data[p]]
           blocks == [b \in 1..n |-> [column.blocks[b] EXCEPT !.data = data(b)]]
           new == [column EXCEPT !.blocks = blocks]
<1>2. c \in {1, 2} /\ codes \in Seq(Nat) /\ IsColumn(column) /\ DOMAIN columns = {1, 2}
  BY <1>1 DEF IsCall, ColumnCalls, TypeOK
<1>3. /\ column.num_tuples \in Nat /\ column.type \in ColumnType /\ column.bit_width \in 1..32
      /\ n \in Nat /\ DOMAIN column.blocks = 1..n
      /\ \A b \in 1..n : column.blocks[b] \in [num_tuples : {BlockSize(column.num_tuples, b - 1)},
                                               data : [Positions -> StoredCode(column)]]
  BY <1>2, ColumnFields
<1>4. columns' = [columns EXCEPT ![c] = new]
  <2>1. columns' = [columns EXCEPT ![c].blocks = blocks]
    BY <1>2, <1>3 DEF LoadTextFile
  <2> HIDE DEF blocks
  <2> QED BY <1>2, <2>1
<1>5. Calls({"LoadTextFile"}) /\ Returns /\ InStep /\ UNCHANGED <<bitvectors, file, file_pos>>
  BY DEF LoadTextFile
<1>6. Store!Call.op = "LoadTextFile" /\ Store!Call.column = c /\ Store!Call.codes = codes
  BY <1>1 DEF Store!Call, Call
<1>7. \A k \in DOMAIN codes : Fits(column, codes[k])
  BY <1>1 DEF ClientFitsStore, FitsStore
<1> HIDE DEF c, column, codes
<1>8. /\ new.num_tuples = column.num_tuples /\ new.type = column.type
      /\ new.bit_width = column.bit_width
      /\ \A b \in 1..n : \A p \in Positions :
           new.blocks[b].data[p] = IF At(b, p) < read THEN Stored(column, codes[At(b, p) + 1])
                                                     ELSE column.blocks[b].data[p]
  <2>1. \A b \in 1..n : blocks[b].data = data(b)
    BY <1>3
  <2> HIDE DEF blocks
  <2>2. /\ new.num_tuples = column.num_tuples /\ new.type = column.type
        /\ new.bit_width = column.bit_width /\ new.blocks = blocks
    BY <1>2 DEF IsColumn
  <2> HIDE DEF new, n, At, read
  <2> QED BY <2>1, <2>2
<1> HIDE DEF new
<1>9. ASSUME NEW x \in 0..(column.num_tuples - 1)
      PROVE  ColumnCodes(new)[x] = IF x < Len(codes) THEN codes[x + 1] ELSE ColumnCodes(column)[x]
  <2> DEFINE b == block_id(x) + 1
             p == pos_in_block(x)
  <2>1. /\ x \in Nat /\ b \in 1..n /\ p \in Positions
        /\ ColumnCodes(column)[x] = GetTuple_(column, x)
    BY <1>2, CodesOfColumn
  <2>2. At(b, p) = x
    <3>1. block_id(x) \in Nat /\ x = block_id(x) * kNumTuplesPerBlock + pos_in_block(x)
      BY <2>1, PositionOfBlock
    <3>2. b - 1 = block_id(x)
      BY <3>1
    <3> QED BY <3>1, <3>2
  <2>3. ColumnCodes(new)[x] = Code(column, new.blocks[b].data[p])
    BY <1>8 DEF ColumnCodes, GetTuple_, Code
  <2>4. GetTuple_(column, x) = Code(column, column.blocks[b].data[p])
    BY DEF GetTuple_
  <2> HIDE DEF b, p, At, n
  <2>5. x < read <=> x < Len(codes)
    BY <1>2, <1>3, <2>1 DEF Min2
  <2>6. new.blocks[b].data[p] = IF x < Len(codes) THEN Stored(column, codes[x + 1])
                                                  ELSE column.blocks[b].data[p]
    <3> HIDE DEF read
    <3> QED BY <1>8, <2>1, <2>2, <2>5
  <2>7. CASE x < Len(codes)
    <3> DEFINE value == codes[x + 1]
    <3>1. x + 1 \in DOMAIN codes /\ value \in Nat
      BY <1>2, <2>1, <2>7
    <3>2. Fits(column, value)
      BY <1>7, <3>1
    <3> HIDE DEF value
    <3>3. Code(column, Stored(column, value)) = value
      BY <1>3, <3>1, <3>2, FittingCodes
    <3> QED BY <2>3, <2>6, <2>7, <3>3 DEF value
  <2>8. CASE ~(x < Len(codes))
    BY <2>1, <2>3, <2>4, <2>6, <2>8
  <2> QED BY <2>7, <2>8
<1>10. ColumnCodes(new) = [x \in DOMAIN ColumnCodes(column) |->
                             IF x < Len(codes) THEN codes[x + 1] ELSE ColumnCodes(column)[x]]
  <2>1. DOMAIN ColumnCodes(column) = 0..(column.num_tuples - 1)
    BY DEF ColumnCodes
  <2>2. ColumnCodes(new) = [x \in 0..(column.num_tuples - 1) |-> ColumnCodes(new)[x]]
    BY <1>8 DEF ColumnCodes
  <2> QED BY <1>9, <2>1, <2>2
<1>11. new.type = columns[c].type /\ new.bit_width = columns[c].bit_width
  BY <1>8 DEF column
<1>12. /\ AllValues' = [AllValues EXCEPT ![c] = ColumnCodes(new)] /\ DOMAIN AllValues = {1, 2}
       /\ AllValues[c] = ColumnCodes(columns[c])
       /\ UNCHANGED <<AllNums, AllSelected, AllWritten, AllRead>>
  BY <1>2, <1>4, <1>5, <1>11, OnlyCodesChange
<1>13. Store!LoadTextFile
  <2>1. AllValues' = [AllValues EXCEPT ![c] =
                        [x \in DOMAIN @ |-> IF x < Len(codes) THEN codes[x + 1] ELSE @[x]]]
    BY <1>2, <1>10, <1>12 DEF column
  <2> QED BY <1>6, <1>12, <2>1 DEF Store!LoadTextFile
<1> QED BY <1>5, <1>13, ImmediateStep

----------------------------------------------------------------------------
(* A position is where its block and its place in it say.                  *)
LEMMA PlaceOf ==
  ASSUME NEW q \in Nat, NEW p \in Nat, p < kNumTuplesPerBlock
  PROVE  /\ q * kNumTuplesPerBlock \in Nat
         /\ block_id(q * kNumTuplesPerBlock + p) = q
         /\ pos_in_block(q * kNumTuplesPerBlock + p) = p
<1> DEFINE k == kNumTuplesPerBlock
           x == q * k + p
<1>1. k \in Nat \ {0}
  BY BlockCapacity
<1>2. q * k \in Nat /\ x \in Nat
  BY <1>1
<1>3. IsDivision(x, k, q, p)
  BY <1>1, <1>2 DEF IsDivision
<1> HIDE DEF x
<1>4. x \div k = q /\ x % k = p
  BY <1>1, <1>2, <1>3, UniqueDivision
<1> QED BY <1>2, <1>4 DEF x, block_id, pos_in_block

(* The store is kept when the columns, the bit vectors and the file are.   *)
LEMMA KeptStore ==
  ASSUME UNCHANGED <<columns, bitvectors, file, file_pos>>
  PROVE  UNCHANGED <<AllValues, AllNums, AllSelected, AllWritten, AllRead>>
<1>1. AllValues' = AllValues
  BY DEF AllValues, ColumnCodes, GetTuple_, Code, block_id, pos_in_block
<1>2. AllNums' = AllNums /\ AllSelected' = AllSelected
  BY KeptVectors
<1>3. AllWritten' = AllWritten /\ AllRead' = AllRead
  BY KeptFile, KeptFilePosition
<1> QED BY <1>1, <1>2, <1>3

(* BulkLoadArray begins with all its positions to do.                      *)
LEMMA BulkLoadArrayMaps ==
  ASSUME StoreInv, BulkLoadArray
  PROVE  Store!Begin
<1>1. /\ IsCall(Call) /\ Call.op = "BulkLoadArray" /\ pc = "call" /\ ip <= Len(script)
  BY BetweenCalls DEF BulkLoadArray, StoreInv
<1>2. Call.pos \in Nat
  BY <1>1 DEF IsCall
<1>3. /\ load'.data_ptr = 0 /\ result' = <<>> /\ pc' = "load"
      /\ UNCHANGED <<script, ip, columns, bitvectors, file, file_pos>>
  BY DEF BulkLoadArray, store
<1>4. UNCHANGED <<AllValues, AllNums, AllSelected, AllWritten, AllRead>>
  BY <1>3, KeptStore
<1>5. Undone' = Call.pos..(Call.pos + Len(Call.codes) - 1)
  <2>1. Call' = Call
    BY <1>3 DEF Call
  <2>2. Undone' = (Call.pos + 0)..(Call.pos + Len(Call.codes) - 1)
    BY <1>3, <2>1 DEF Undone
  <2> QED BY <1>2, <2>2
<1>6. Store!Positions = Call.pos..(Call.pos + Len(Call.codes) - 1) /\ Store!Call.op = "BulkLoadArray"
  BY <1>1 DEF Store!Positions, Store!Call, Call
<1> QED BY <1>1, <1>3, <1>4, <1>5, <1>6 DEF Store!Begin

(* A block of codes is loaded: those of the positions from data_ptr on.    *)
LEMMA LoadBlockMaps ==
  ASSUME StoreInv, LoadBlock
  PROVE  Store!Work
<1> DEFINE c == Call.column
           column == columns[c]
           num == column.num_tuples
           n == NumBlocks(num)
           k == kNumTuplesPerBlock
           q == load.block_id
           p == load.pos_in_block
           d == load.data_ptr
           pos == Call.pos
           codes == Call.codes
           len == Len(codes)
           block == column.blocks[q + 1]
           bs == BlockSize(num, q)
           size == Min2(block.num_tuples - p, len - d)
           part == Min2(bs - p, len - d)
           data == [y \in Positions |->
                      IF y \in p..(p + size - 1) THEN Stored(column, codes[d + y - p + 1])
                                                ELSE block.data[y]]
           new == [column EXCEPT !.blocks[q + 1].data = data]
<1>1. /\ ClientInv /\ pc = "load" /\ ip <= Len(script) /\ Call.op = "BulkLoadArray" /\ TypeOK
      /\ FitsStore
  BY DEF LoadBlock, StoreInv, ClientInv, CallInv
<1>2. IsCall(Call)
  BY <1>1, CallType
<1>3. c \in {1, 2} /\ pos \in Nat /\ codes \in Seq(Nat) /\ len \in Nat
  BY <1>1, <1>2 DEF IsCall, ColumnCalls
<1>4. DOMAIN columns = {1, 2} /\ IsColumn(column)
  BY <1>1, <1>3 DEF TypeOK
<1>5. q \in Nat /\ p \in Nat /\ d \in Nat
  BY <1>1 DEF TypeOK
<1>6. d < len /\ pos + len <= num
  <2>1. len - d > 0
    BY DEF LoadBlock
  <2> QED BY <1>1, <1>3, <1>5, <2>1 DEF ClientInv, LoadInv
<1>7. p < k /\ q * k + p = pos + d /\ k \in Nat \ {0}
  BY <1>1, <1>6, BlockCapacity DEF ClientInv, LoadInv
<1>8. /\ num \in Nat /\ n \in Nat /\ column.type \in ColumnType /\ column.bit_width \in 1..32
      /\ \A b \in 1..n : /\ column.blocks[b].num_tuples = BlockSize(num, b - 1)
                         /\ column.blocks[b].data \in [Positions -> StoredCode(column)]
  BY <1>4, ColumnFields
<1>9. q + 1 \in 1..n /\ part \in 1..(len - d) /\ p + part <= bs /\ bs <= k
  <2>1. q + 1 \in 1..n /\ part \in 1..(len - d) /\ p + part <= bs
    BY <1>1, <1>2, <1>6, LoadPosition
  <2>2. BlockSize(num, (q + 1) - 1) \in 1..k
    BY <1>8, <2>1, BlockSizes
  <2>3. (q + 1) - 1 = q
    BY <1>5
  <2> QED BY <1>7, <2>1, <2>2, <2>3
<1>10. size = part /\ block.data \in [Positions -> StoredCode(column)]
  <2>1. (q + 1) - 1 = q
    BY <1>5
  <2> QED BY <1>8, <1>9, <2>1
<1>11. /\ columns' = [columns EXCEPT ![c] = new] /\ load'.data_ptr = d + size
       /\ UNCHANGED <<script, ip, pc, bitvectors, file, file_pos, result>>
  <2>1. columns' = [columns EXCEPT ![c].blocks[q + 1].data = data]
    BY DEF LoadBlock
  <2> HIDE DEF data
  <2>2. columns' = [columns EXCEPT ![c] = new]
    BY <1>3, <1>4, <2>1
  <2>3. load' = [block_id |-> q + 1, pos_in_block |-> 0, data_ptr |-> d + size]
    BY DEF LoadBlock
  <2>4. UNCHANGED <<script, ip, pc, bitvectors, file, file_pos, result>>
    BY DEF LoadBlock
  <2>5. load'.data_ptr = d + size
    <3> HIDE DEF size
    <3> QED BY <2>3
  <2> QED BY <2>2, <2>4, <2>5
<1>12. \A j \in DOMAIN codes : Fits(column, codes[j])
  BY <1>1 DEF FitsStore
<1>13. /\ Store!Call.op = "BulkLoadArray" /\ Store!Call.column = c /\ Store!Call.codes = codes
       /\ Store!Call.pos = pos
  BY <1>1 DEF Store!Call, Call
<1>14. Undone = (pos + d)..(pos + len - 1) /\ Undone' = (pos + (d + size))..(pos + len - 1)
  <2>1. Call' = Call
    BY <1>11 DEF Call
  <2> HIDE DEF size
  <2> QED BY <1>1, <1>11, <2>1 DEF Undone
<1> HIDE DEF part
<1>15. data = [y \in Positions |->
                 IF y \in p..(p + part - 1) THEN Stored(column, codes[d + y - p + 1])
                                            ELSE block.data[y]]
  BY <1>10
<1>16. pos + (d + size) = pos + (d + part)
  BY <1>10
<1> HIDE DEF c, column, num, n, k, q, p, d, pos, codes, len, block, bs, size, data
<1> DEFINE now == (pos + d)..(pos + d + part - 1)
<1>17. Undone \ Undone' = now /\ Undone' \subseteq Undone /\ now # {}
  <2> DEFINE first == pos + d
             end == pos + len - 1
  <2>1. first \in Int /\ end \in Int /\ part \in Nat \ {0} /\ first + part <= end + 1
    BY <1>3, <1>5, <1>6, <1>9
  <2>2. Undone = first..end /\ Undone' = (first + part)..end /\ now = first..(first + part - 1)
    BY <1>3, <1>5, <1>14, <1>16, <2>1
  <2> HIDE DEF first, end, now
  <2>3. first \in now
    BY <2>1, <2>2
  <2> QED BY <2>1, <2>2, <2>3
<1>18. /\ new.num_tuples = num /\ new.type = column.type /\ new.bit_width = column.bit_width
       /\ \A a \in 1..n : new.blocks[a].data = IF a = q + 1 THEN data ELSE column.blocks[a].data
  <2>1. column \in [type : ColumnType, bit_width : 1..32, num_tuples : Nat,
                    blocks : [1..n ->
                      [num_tuples : 1..kNumTuplesPerBlock, data : [Positions -> StoredCode(column)]]]]
    BY <1>4 DEF IsColumn, n, num
  <2> QED BY <1>9, <2>1 DEF num
<1> HIDE DEF new
<1>19. ASSUME NEW x \in 0..(num - 1)
       PROVE  ColumnCodes(new)[x] = IF x \in now THEN codes[x - pos + 1] ELSE ColumnCodes(column)[x]
  <2> DEFINE a == block_id(x)
             y == pos_in_block(x)
  <2>1. /\ x \in Nat /\ a + 1 \in 1..n /\ y \in Positions
        /\ ColumnCodes(column)[x] = GetTuple_(column, x)
    BY <1>4, CodesOfColumn DEF n, num
  <2>2. a \in Nat /\ y \in Nat /\ y < k /\ a * k \in Nat /\ x = a * k + y
    BY <1>7, <2>1, PositionOfBlock DEF Positions, k
  <2>3. ColumnCodes(new)[x] = Code(column, new.blocks[a + 1].data[y])
    BY <1>18 DEF ColumnCodes, GetTuple_, Code
  <2>4. GetTuple_(column, x) = Code(column, column.blocks[a + 1].data[y])
    BY DEF GetTuple_
  <2> HIDE DEF a, y
  <2>5. CASE x \in now
    <3> DEFINE j == x - (pos + d)
    <3>1. j \in 0..(part - 1) /\ j + p \in Nat /\ j + p < k /\ x = q * k + (p + j)
      <4> DEFINE m == q * k
      <4>1. m \in Nat /\ m + p = pos + d
        BY <1>5, <1>7
      <4>2. part \in Nat /\ bs \in Int
        <5>1. BlockSize(num, q) \in Int
          BY <1>5, <1>7, <1>8 DEF BlockSize, Min2, k
        <5> QED BY <1>3, <1>5, <1>9, <5>1 DEF bs
      <4> HIDE DEF m
      <4>3. j \in 0..(part - 1)
        BY <1>3, <1>5, <1>9, <2>1, <2>5, <4>2
      <4>4. x = m + (p + j)
        BY <1>3, <1>5, <2>1, <4>1
      <4> HIDE DEF j
      <4>5. j + p \in Nat /\ j + p < k
        BY <1>5, <1>7, <1>9, <4>2, <4>3
      <4> QED BY <4>3, <4>4, <4>5 DEF m
    <3>2. block_id(q * k + (p + j)) = q /\ pos_in_block(q * k + (p + j)) = p + j
      <4>1. p + j \in Nat /\ p + j < kNumTuplesPerBlock
        BY <1>5, <3>1 DEF k
      <4> HIDE DEF j
      <4> QED BY <1>5, <4>1, PlaceOf DEF k
    <3>3. a = q /\ y = p + j
      BY <3>1, <3>2 DEF a, y
    <3>4. new.blocks[a + 1].data = data
      BY <1>18, <2>1, <3>3
    <3>5. y \in p..(p + part - 1) /\ d + y - p + 1 = x - pos + 1 /\ x - pos + 1 \in 1..len
      BY <1>3, <1>5, <1>9, <2>1, <3>1, <3>3
    <3>6. new.blocks[a + 1].data[y] = Stored(column, codes[x - pos + 1])
      <4> HIDE DEF j
      <4> QED BY <1>15, <2>1, <3>4, <3>5
    <3> DEFINE i == x - pos + 1
               value == codes[i]
    <3>7. i \in DOMAIN codes /\ value \in Nat
      <4>1. i \in 1..Len(codes)
        BY <3>5 DEF len
      <4> HIDE DEF i
      <4> QED BY <1>3, <4>1
    <3>8. Fits(column, value)
      BY <1>12, <3>7
    <3> HIDE DEF value
    <3>9. Code(column, Stored(column, value)) = value
      BY <1>8, <3>7, <3>8, FittingCodes
    <3> QED BY <2>3, <2>5, <3>6, <3>9 DEF value
  <2>6. CASE x \notin now
    <3>1. new.blocks[a + 1].data[y] = column.blocks[a + 1].data[y]
      <4>1. CASE a = q
        <5>1. y \notin p..(p + part - 1)
          BY <1>3, <1>5, <1>7, <1>9, <2>1, <2>2, <2>6, <4>1
        <5>2. new.blocks[a + 1].data = data
          BY <1>18, <2>1, <4>1
        <5> QED BY <1>15, <2>1, <4>1, <5>1, <5>2 DEF block
      <4>2. CASE a # q
        <5>1. a + 1 # q + 1
          BY <1>5, <2>2, <4>2
        <5> QED BY <1>18, <2>1, <5>1
      <4> QED BY <4>1, <4>2
    <3> QED BY <2>1, <2>3, <2>4, <2>6, <3>1
  <2> QED BY <2>5, <2>6
<1> HIDE DEF now
<1>20. ColumnCodes(new) = [x \in DOMAIN ColumnCodes(column) |->
                             IF x \in now THEN codes[x - pos + 1] ELSE ColumnCodes(column)[x]]
  <2>1. DOMAIN ColumnCodes(column) = 0..(num - 1)
    BY DEF ColumnCodes, num
  <2>2. ColumnCodes(new) = [x \in 0..(num - 1) |-> ColumnCodes(new)[x]]
    BY <1>18 DEF ColumnCodes
  <2> QED BY <1>19, <2>1, <2>2
<1>21. new.type = columns[c].type /\ new.bit_width = columns[c].bit_width
  BY <1>18 DEF column
<1>22. /\ AllValues' = [AllValues EXCEPT ![c] = ColumnCodes(new)] /\ DOMAIN AllValues = {1, 2}
       /\ AllValues[c] = ColumnCodes(columns[c])
       /\ UNCHANGED <<AllNums, AllSelected, AllWritten, AllRead>>
  BY <1>3, <1>4, <1>11, <1>21, OnlyCodesChange
<1>23. AllValues' = [AllValues EXCEPT ![c] =
                       [x \in DOMAIN @ |-> IF x \in now THEN codes[x - pos + 1] ELSE @[x]]]
  BY <1>3, <1>20, <1>22 DEF column
<1> QED BY <1>1, <1>11, <1>13, <1>17, <1>22, <1>23 DEF Store!Work

(* It returns when it has done them all.                                   *)
LEMMA EndLoadMaps ==
  ASSUME StoreInv, EndLoad
  PROVE  Store!Return
<1>1. /\ pc = "load" /\ load.data_ptr = Len(Call.codes) /\ Returns /\ result' = result
      /\ UNCHANGED <<columns, bitvectors, file, file_pos>>
  BY DEF EndLoad, store
<1>2. Call.op = "BulkLoadArray" /\ ip <= Len(script) /\ TypeOK
  BY <1>1 DEF StoreInv, ClientInv, CallInv
<1>3. Call.pos \in Nat /\ Len(Call.codes) \in Nat
  BY <1>2, CallType DEF IsCall
<1>4. UNCHANGED <<AllValues, AllNums, AllSelected, AllWritten, AllRead>>
  BY <1>1, KeptStore
<1>5. Undone = {} /\ Undone' = {}
  BY <1>1, <1>3 DEF Undone, Returns
<1>6. Store!Call.op = "BulkLoadArray"
  BY <1>2 DEF Store!Call, Call
<1> QED BY <1>1, <1>4, <1>5, <1>6 DEF Store!Return, Returns

----------------------------------------------------------------------------
(***************************************************************************)
(* What a ColumnStore sees of a bit vector: the positions that are set.    *)
(***************************************************************************)
LEMMA SelectedBits ==
  ASSUME NEW bv, IsBitVector(bv), NEW x \in 0..(bv.num - 1)
  PROVE  LET b == block_id(x) + 1
             p == pos_in_block(x)
             block == bv.blocks[b]
         IN /\ x \in Nat /\ b \in 1..NumBlocks(bv.num) /\ p \in 0..(block.num - 1)
            /\ block.num \in Nat \ {0} /\ block.data \in Words(block.num)
            /\ x \in Selected(bv) <=> GetBit(block.data, p)
<1> DEFINE b == block_id(x) + 1
           p == pos_in_block(x)
           block == bv.blocks[b]
<1>1. /\ bv.num \in Nat
      /\ \A k \in 1..NumBlocks(bv.num) : /\ bv.blocks[k].num = BlockSize(bv.num, k - 1)
                                         /\ bv.blocks[k].num \in 1..kNumTuplesPerBlock
                                         /\ bv.blocks[k].data \in Words(bv.blocks[k].num)
  BY VectorFields
<1>2. x \in Nat /\ x < bv.num
  BY <1>1
<1>3. /\ b \in 1..NumBlocks(bv.num) /\ p < BlockSize(bv.num, block_id(x)) /\ p \in Nat
      /\ block_id(x) \in Nat
  BY <1>1, <1>2, BlockOfTuple, PositionOfBlock
<1>4. b - 1 = block_id(x)
  BY <1>3
<1>5. block.num \in 1..kNumTuplesPerBlock /\ block.data \in Words(block.num) /\ p < block.num
  BY <1>1, <1>3, <1>4
<1>6. x \in Selected(bv) <=> GetBit(block.data, p)
  BY DEF Selected, IsSet
<1> HIDE DEF b, p, block
<1>7. block.num \in Nat \ {0} /\ p \in 0..(block.num - 1)
  BY <1>3, <1>5, BlockCapacity
<1> QED BY <1>2, <1>3, <1>5, <1>6, <1>7 DEF b, p, block

(* A bit vector is changed.                                                *)
LEMMA ChangedSelection ==
  ASSUME DOMAIN bitvectors = {1, 2}, NEW v \in {1, 2}, NEW bv,
         bitvectors' = [bitvectors EXCEPT ![v] = bv]
  PROVE  /\ AllSelected' = [AllSelected EXCEPT ![v] = Selected(bv)]
         /\ AllNums' = [AllNums EXCEPT ![v] = bv.num]
         /\ DOMAIN AllSelected = {1, 2} /\ AllSelected[v] = Selected(bitvectors[v])
         /\ DOMAIN AllNums = {1, 2} /\ AllNums[v] = bitvectors[v].num
         /\ bv.num = bitvectors[v].num => UNCHANGED AllNums
<1>1. DOMAIN bitvectors' = {1, 2} /\ \A w \in {1, 2} : bitvectors'[w] = IF w = v THEN bv ELSE bitvectors[w]
  OBVIOUS
<1>2. AllSelected' = [w \in {1, 2} |-> Selected(IF w = v THEN bv ELSE bitvectors[w])]
  <2>1. AllSelected' = [w \in DOMAIN bitvectors' |-> Selected(bitvectors'[w])]
    BY DEF AllSelected
  <2> QED BY <1>1, <2>1
<1>3. AllNums' = [w \in {1, 2} |-> (IF w = v THEN bv ELSE bitvectors[w]).num]
  <2>1. AllNums' = [w \in DOMAIN bitvectors' |-> bitvectors'[w].num]
    BY DEF AllNums
  <2> QED BY <1>1, <2>1
<1>4. AllSelected' = [AllSelected EXCEPT ![v] = Selected(bv)]
  BY <1>2 DEF AllSelected
<1>5. AllNums' = [AllNums EXCEPT ![v] = bv.num]
  BY <1>3 DEF AllNums
<1>6. /\ DOMAIN AllSelected = {1, 2} /\ AllSelected[v] = Selected(bitvectors[v])
      /\ DOMAIN AllNums = {1, 2} /\ AllNums[v] = bitvectors[v].num
  BY DEF AllSelected, AllNums
<1>7. bv.num = bitvectors[v].num => UNCHANGED AllNums
  BY <1>3 DEF AllNums
<1> QED BY <1>4, <1>5, <1>6, <1>7

(* The store's columns and file stay as they are.                          *)
LEMMA KeptColumns ==
  ASSUME UNCHANGED <<columns, file, file_pos>>
  PROVE  UNCHANGED <<AllValues, AllWritten, AllRead>>
<1>1. AllValues' = AllValues
  BY DEF AllValues, ColumnCodes, GetTuple_, Code, block_id, pos_in_block
<1>2. AllWritten' = AllWritten /\ AllRead' = AllRead
  BY KeptFile, KeptFilePosition
<1> QED BY <1>1, <1>2

(* SetBit and UnsetBit change one position of a block.                     *)
LEMMA OneBit ==
  ASSUME NEW num \in Nat \ {0}, NEW data \in Words(num), NEW x \in 0..(num - 1),
         NEW y \in 0..(num - 1)
  PROVE  /\ GetBit(SetBit(data, x), y) <=> y = x \/ GetBit(data, y)
         /\ GetBit(UnsetBit(data, x), y) <=> y # x /\ GetBit(data, y)
<1> DEFINE q == x \div kNumWordBits
           r == x % kNumWordBits
           s == y \div kNumWordBits
           t == y % kNumWordBits
<1>1. q \in WordIds(num) /\ x = q * kNumWordBits + r
  BY PositionOfTuple
<1>2. s \in WordIds(num) /\ y = s * kNumWordBits + t
  BY PositionOfTuple
<1>3. y = x => s = q /\ t = r
  OBVIOUS
<1> HIDE DEF q, r, s, t
<1>4. y = x <=> s = q /\ t = r
  BY <1>1, <1>2, <1>3
<1>5. SetBit(data, x) = [data EXCEPT ![q] = @ \cup {r}] /\ UnsetBit(data, x) = [data EXCEPT ![q] = @ \ {r}]
  BY DEF SetBit, UnsetBit, q, r
<1>6. DOMAIN data = WordIds(num)
  BY DEF Words
<1>7. t \in SetBit(data, x)[s] <=> y = x \/ t \in data[s]
  <2>1. SetBit(data, x)[s] = IF s = q THEN data[s] \cup {r} ELSE data[s]
    BY <1>1, <1>2, <1>5, <1>6
  <2> QED BY <1>4, <2>1
<1>8. t \in UnsetBit(data, x)[s] <=> y # x /\ t \in data[s]
  BY <1>1, <1>2, <1>4, <1>5, <1>6
<1> QED BY <1>7, <1>8 DEF GetBit, s, t

(* SetBit and UnsetBit.                                                    *)
LEMMA SetBitMaps ==
  ASSUME StoreInv, ClientFitsStore, SetBit_
  PROVE  Store!Immediate
<1> DEFINE v == Call.bv
           bv == bitvectors[v]
           pos == Call.pos
           n == NumBlocks(bv.num)
           b == block_id(pos) + 1
           p == pos_in_block(pos)
           old == bv.blocks[b].data
           data == IF Call.op = "SetBit" THEN SetBit(old, p) ELSE UnsetBit(old, p)
           new == [bv EXCEPT !.blocks[b].data = data]
           after == IF Call.op = "SetBit" THEN Selected(bv) \cup {pos} ELSE Selected(bv) \ {pos}
<1>1. /\ IsCall(Call) /\ Call.op \in {"SetBit", "UnsetBit"} /\ TypeOK /\ pc = "call" /\ ip <= Len(script)
      /\ \A w \in {1, 2} : \A k \in 1..NumBlocks(bitvectors[w].num) :
           TailIsClear(bitvectors[w].blocks[k])
  BY BetweenCalls DEF SetBit_, StoreInv
<1>2. /\ v \in {1, 2} /\ pos \in Nat /\ IsBitVector(bv) /\ DOMAIN bitvectors = {1, 2}
      /\ bv.num \in Nat
  BY <1>1, VectorFields DEF IsCall, BitVectorCalls, TypeOK
<1>3. pos \in 0..(bv.num - 1)
  <2>1. pos < bv.num
    BY <1>1 DEF ClientFitsStore, IsAllowed
  <2> QED BY <1>2, <2>1
<1> DEFINE size == bv.blocks[b].num
<1>4. /\ b \in 1..n /\ p \in 0..(size - 1) /\ size \in Nat \ {0} /\ old \in Words(size)
  BY <1>2, <1>3, SelectedBits
<1>5. \A w \in WordIds(size) : \A bit \in old[w] : w * kNumWordBits + bit < size
  <2>1. TailIsClear(bv.blocks[b])
    BY <1>1, <1>2, <1>4
  <2> QED BY <2>1 DEF TailIsClear
<1>6. bitvectors' = [bitvectors EXCEPT ![v] = new]
  <2>1. bitvectors' = [bitvectors EXCEPT ![v].blocks[b].data =
                         IF Call.op = "SetBit" THEN SetBit(@, p) ELSE UnsetBit(@, p)]
    BY DEF SetBit_
  <2> HIDE DEF p
  <2> QED BY <1>2, <2>1
<1>7. Calls({"SetBit", "UnsetBit"}) /\ Returns /\ InStep /\ UNCHANGED <<columns, file, file_pos>>
  BY DEF SetBit_
<1>8. Store!Call.op = Call.op /\ Store!Call.bv = v /\ Store!Call.pos = pos
  BY DEF Store!Call, Call
<1>9. data \in {SetBit(old, p), UnsetBit(old, p)}
  OBVIOUS
<1>10. ASSUME NEW y \in 0..(size - 1)
       PROVE  GetBit(data, y) <=> IF Call.op = "SetBit" THEN y = p \/ GetBit(old, y)
                                                        ELSE y # p /\ GetBit(old, y)
  <2> HIDE DEF size, p, old
  <2>1. /\ GetBit(SetBit(old, p), y) <=> y = p \/ GetBit(old, y)
        /\ GetBit(UnsetBit(old, p), y) <=> y # p /\ GetBit(old, y)
    BY <1>4, OneBit
  <2> QED BY <2>1
<1> HIDE DEF p, data, old, pos
<1>11. data \in Words(size)
  BY <1>4, <1>5, <1>9, WrittenBit
<1>12. /\ IsBitVector(new) /\ new.num = bv.num
       /\ \A k \in 1..n : /\ new.blocks[k].num = bv.blocks[k].num
                          /\ new.blocks[k].data = IF k = b THEN data ELSE bv.blocks[k].data
  <2>1. b \in 1..NumBlocks(bv.num) /\ data \in Words(bv.blocks[b].num) /\ IsBitVector(bv)
    BY <1>2, <1>4, <1>11
  <2> HIDE DEF bv, b, n, size
  <2>2. /\ IsBitVector(new) /\ new.num = bv.num
        /\ \A k \in 1..NumBlocks(bv.num) :
             /\ new.blocks[k].num = bv.blocks[k].num
             /\ new.blocks[k].data = IF k = b THEN data ELSE bv.blocks[k].data
    BY <2>1, ChangedVector
  <2> QED BY <2>2 DEF n
<1> HIDE DEF new
<1>13. ASSUME NEW x \in 0..(bv.num - 1)
       PROVE  x \in Selected(new) <=> x \in after
  <2> DEFINE a == block_id(x) + 1
             y == pos_in_block(x)
  <2>1. /\ x \in Nat /\ a \in 1..n /\ y \in 0..(bv.blocks[a].num - 1)
        /\ x \in Selected(bv) <=> GetBit(bv.blocks[a].data, y)
    BY <1>2, SelectedBits
  <2>2. x \in Selected(new) <=> GetBit(new.blocks[a].data, y)
    BY <1>12, SelectedBits
  <2>3. x = pos <=> a = b /\ y = p
    <3>1. block_id(x) \in Nat /\ block_id(pos) \in Nat
      BY <1>2, <2>1, PositionOfBlock
    <3>2. block_id(x) = block_id(pos) /\ y = pos_in_block(pos) => x = pos
      BY <1>2, <2>1, SamePlace
    <3> QED BY <3>1, <3>2 DEF p
  <2> HIDE DEF a, y
  <2>4. CASE a = b
    <3>1. y \in 0..(size - 1) /\ new.blocks[a].data = data /\ bv.blocks[a].data = old
      BY <1>12, <2>1, <2>4 DEF old
    <3>2. GetBit(data, y) <=> IF Call.op = "SetBit" THEN y = p \/ GetBit(old, y)
                                                    ELSE y # p /\ GetBit(old, y)
      BY <1>10, <3>1
    <3> QED BY <2>1, <2>2, <2>3, <2>4, <3>1, <3>2
  <2>5. CASE a # b
    <3>1. new.blocks[a].data = bv.blocks[a].data
      BY <1>12, <2>1, <2>5
    <3> QED BY <2>1, <2>2, <2>3, <2>5, <3>1
  <2> QED BY <2>4, <2>5
<1>14. Selected(new) = after
  <2>1. Selected(new) \subseteq 0..(bv.num - 1)
    BY <1>12 DEF Selected
  <2>2. after \subseteq 0..(bv.num - 1)
    BY <1>3 DEF Selected
  <2> HIDE DEF after
  <2> QED BY <1>13, <2>1, <2>2
<1>15. /\ AllSelected' = [AllSelected EXCEPT ![v] = Selected(new)]
       /\ DOMAIN AllSelected = {1, 2} /\ AllSelected[v] = Selected(bitvectors[v])
       /\ UNCHANGED AllNums
  BY <1>2, <1>6, <1>12, ChangedSelection
<1>16. UNCHANGED <<AllValues, AllWritten, AllRead>>
  BY <1>7, KeptColumns
<1>17. CASE Call.op = "SetBit"
  <2>1. AllSelected' = [AllSelected EXCEPT ![v] = @ \cup {pos}]
    BY <1>14, <1>15, <1>17
  <2>2. Store!SetBit
    BY <1>8, <1>15, <1>16, <1>17, <2>1 DEF Store!SetBit
  <2> QED BY <1>7, <2>2, ImmediateStep
<1>18. CASE Call.op = "UnsetBit"
  <2>1. AllSelected' = [AllSelected EXCEPT ![v] = @ \ {pos}]
    BY <1>14, <1>15, <1>18
  <2>2. Store!UnsetBit
    BY <1>8, <1>15, <1>16, <1>18, <2>1 DEF Store!UnsetBit
  <2> QED BY <1>7, <2>2, ImmediateStep
<1> QED BY <1>1, <1>17, <1>18

----------------------------------------------------------------------------
(* The positions of a block of the bit vector of the call.                 *)
LEMMA PositionsOfBlock ==
  ASSUME IsBitVector(bitvectors[Call.bv]), NEW b \in 0..(NumBlocks(bitvectors[Call.bv].num) - 1)
  PROVE  /\ BlockPositions(b) = {x \in 0..(bitvectors[Call.bv].num - 1) : block_id(x) = b}
         /\ BlockPositions(b) # {}
<1> DEFINE bv == bitvectors[Call.bv]
           num == bv.num
           k == kNumTuplesPerBlock
           size == bv.blocks[b + 1].num
<1>1. num \in Nat /\ b \in Nat /\ b + 1 \in 1..NumBlocks(num) /\ k \in Nat \ {0} /\ NumBlocks(num) \in Nat
  BY VectorFields, BlockCapacity
<1>2. size = BlockSize(num, b) /\ size \in 1..k
  <2>1. bv.blocks[b + 1].num = BlockSize(num, (b + 1) - 1) /\ bv.blocks[b + 1].num \in 1..k
    BY <1>1, VectorFields
  <2>2. (b + 1) - 1 = b
    BY <1>1
  <2> QED BY <2>1, <2>2
<1>3. BlockPositions(b) = {b * k + p : p \in 0..(size - 1)}
  BY DEF BlockPositions
<1> HIDE DEF num, size, bv
<1>4. size <= num - b * k /\ b * k \in Nat
  BY <1>1, <1>2 DEF BlockSize, Min2
<1>5. ASSUME NEW p \in 0..(size - 1)
      PROVE  b * k + p \in 0..(num - 1) /\ block_id(b * k + p) = b
  <2>1. p \in Nat /\ p < k
    BY <1>1, <1>2
  <2>2. block_id(b * k + p) = b
    BY <1>1, <2>1, PlaceOf
  <2> QED BY <1>1, <1>2, <1>4, <2>1, <2>2
<1>6. ASSUME NEW x \in 0..(num - 1), block_id(x) = b
      PROVE  \E p \in 0..(size - 1) : x = b * k + p
  <2>1. x \in Nat /\ x < num
    BY <1>1
  <2>2. pos_in_block(x) < BlockSize(num, block_id(x))
    BY <1>1, <2>1, BlockOfTuple
  <2>3. pos_in_block(x) \in Nat /\ x = block_id(x) * k + pos_in_block(x)
    BY <2>1, PositionOfBlock
  <2> DEFINE p == pos_in_block(x)
  <2>4. p \in 0..(size - 1)
    BY <1>2, <1>6, <2>2, <2>3
  <2> QED BY <1>6, <2>3, <2>4
<1>7. BlockPositions(b) = {x \in 0..(num - 1) : block_id(x) = b}
  <2>1. BlockPositions(b) \subseteq {x \in 0..(num - 1) : block_id(x) = b}
    BY <1>3, <1>5
  <2>2. {x \in 0..(num - 1) : block_id(x) = b} \subseteq BlockPositions(b)
    BY <1>3, <1>6
  <2> QED BY <2>1, <2>2
<1>8. BlockPositions(b) # {}
  <2>1. 0 \in 0..(size - 1)
    BY <1>2
  <2> QED BY <1>3, <2>1
<1> QED BY <1>7, <1>8 DEF num, bv

(* A loop has still to do the positions of the blocks it has not finished. *)
LEMMA UndoneInLoop ==
  pc = "loop" /\ IsBitVector(bitvectors[Call.bv])
    /\ Iterations = NumBlocks(bitvectors[Call.bv].num)
  => Undone = {x \in 0..(bitvectors[Call.bv].num - 1) : block_id(x) \in Unfinished}
<1> SUFFICES ASSUME pc = "loop", IsBitVector(bitvectors[Call.bv]),
                    Iterations = NumBlocks(bitvectors[Call.bv].num)
             PROVE  Undone = {x \in 0..(bitvectors[Call.bv].num - 1) : block_id(x) \in Unfinished}
  OBVIOUS
<1> DEFINE num == bitvectors[Call.bv].num
<1>1. Undone = UNION {BlockPositions(b) : b \in Unfinished}
  BY DEF Undone
<1>2. \A b \in Unfinished : b \in 0..(NumBlocks(num) - 1)
  BY DEF Unfinished
<1>3. \A b \in Unfinished : BlockPositions(b) = {x \in 0..(num - 1) : block_id(x) = b}
  BY <1>2, PositionsOfBlock
<1> HIDE DEF num
<1> QED BY <1>1, <1>3 DEF num

----------------------------------------------------------------------------
(* The verdict of a scan on a tuple, and what is put in its bit.           *)
LEMMA ScannedBit ==
  ASSUME NEW num \in Nat \ {0}, NEW data \in Words(num), NEW column, NEW block, NEW right,
         NEW cmp, NEW bit_opt \in {"kSet", "kAnd", "kOr"}, block.num_tuples = num,
         NEW x \in 0..(num - 1)
  PROVE  GetBit(ScanBlock(column, block, right, cmp, bit_opt, data), x)
           <=> Store!Joined(bit_opt, GetBit(data, x),
                            Store!Satisfies(cmp, Code(column, block.data[x]), right[x]))
<1> DEFINE Compared(p) == column.type = "kNaive" => p < block.num_tuples
           holds(p) == Satisfies(cmp, Code(column, block.data[p]), right[p])
           verdicts(w) == {b \in WordBits : Compared(w * kNumWordBits + b) /\ holds(w * kNumWordBits + b)}
           scanned == [w \in WordIds(num) |->
                         IF w * kNumWordBits < block.num_tuples
                         THEN JoinWord(bit_opt, verdicts(w), data[w]) ELSE data[w]]
           new == ScanBlock(column, block, right, cmp, bit_opt, data)
           q == x \div kNumWordBits
           r == x % kNumWordBits
<1>1. data \in [WordIds(num) -> SUBSET WordBits]
  BY DEF Words
<1>2. new = IF column.type = "kNaive" THEN scanned ELSE ClearTail(scanned, num)
  BY <1>1 DEF ScanBlock
<1>3. q \in WordIds(num) /\ q \in Nat /\ r \in WordBits /\ x = q * kNumWordBits + r /\ x < num
  BY PositionOfTuple
<1>4. \A f : GetBit(f, x) <=> r \in f[q]
  BY DEF GetBit
<1> HIDE DEF new, holds, q, r
<1>5. scanned \in [WordIds(num) -> SUBSET WordBits]
  <2>1. \A w \in WordIds(num) : verdicts(w) \subseteq WordBits
    OBVIOUS
  <2> HIDE DEF verdicts
  <2>2. \A w \in WordIds(num) : scanned[w] \subseteq verdicts(w) \cup data[w]
    BY DEF JoinWord
  <2>3. \A w \in WordIds(num) : scanned[w] \subseteq WordBits
    BY <1>1, <2>1, <2>2
  <2> HIDE DEF scanned
  <2>4. DOMAIN scanned = WordIds(num) /\ scanned = [w \in WordIds(num) |-> scanned[w]]
    BY DEF scanned
  <2> QED BY <2>3, <2>4
<1>6. GetBit(new, x) <=> GetBit(scanned, x)
  <2>1. CASE column.type = "kNaive"
    BY <1>2, <2>1
  <2>2. CASE column.type # "kNaive"
    <3> HIDE DEF scanned
    <3>1. GetBit(ClearTail(scanned, num), x) <=> GetBit(scanned, x)
      BY <1>5, ClearedBits
    <3> QED BY <1>2, <2>2, <3>1
  <2> QED BY <2>1, <2>2
<1>7. q * kNumWordBits < num /\ (Compared(q * kNumWordBits + r) <=> TRUE)
  <2> DEFINE m == q * kNumWordBits
  <2>1. m \in Nat /\ r \in Nat
    BY <1>3, WordSizes DEF WordBits
  <2>2. m < num /\ m + r < num
    <3>1. x = m + r
      BY <1>3
    <3> HIDE DEF m
    <3> QED BY <1>3, <2>1, <3>1
  <2> QED BY <2>2
<1>8. r \in verdicts(q) <=> holds(x)
  BY <1>3, <1>7
<1>9. r \in scanned[q] <=> r \in JoinWord(bit_opt, verdicts(q), data[q])
  BY <1>3, <1>7
<1>10. holds(x) <=> Store!Satisfies(cmp, Code(column, block.data[x]), right[x])
  BY DEF holds, Satisfies, Store!Satisfies
<1> DEFINE verdict == Store!Satisfies(cmp, Code(column, block.data[x]), right[x])
           V == verdicts(q)
           before == GetBit(data, x)
<1>11. (r \in V <=> verdict) /\ (before <=> r \in data[q])
  BY <1>4, <1>8, <1>10
<1> HIDE DEF V, scanned, verdict, before
<1>12. r \in JoinWord(bit_opt, V, data[q]) <=> Store!Joined(bit_opt, before, verdict)
  BY <1>11 DEF JoinWord, Store!Joined
<1>13. GetBit(new, x) <=> Store!Joined(bit_opt, before, verdict)
  BY <1>4, <1>6, <1>9, <1>12 DEF V
<1> QED BY <1>13 DEF new, before, verdict

----------------------------------------------------------------------------
(* What a loop leaves in the bit of a position is the call's verdict.      *)
LEMMA ResultBits ==
  ASSUME StoreInv, pc = "loop", Call.op # "CountOnes",
         NEW x \in 0..(bitvectors[Call.bv].num - 1)
  PROVE  GetBit(BlockResult(block_id(x)), pos_in_block(x))
           <=> Store!Verdict(x, x \in Selected(bitvectors[Call.bv]))
<1> DEFINE bv == bitvectors[Call.bv]
           b == block_id(x)
           p == pos_in_block(x)
           block == bv.blocks[b + 1]
           num == block.num
           old == block.data
           before == x \in Selected(bv)
<1>1. /\ IsCall(Call) /\ Call.op \in LoopCalls /\ Call.bv \in {1, 2} /\ TypeOK /\ SameSizes
      /\ IsBitVector(bv) /\ bv.num \in Nat /\ NumBlocks(bv.num) \in Nat /\ Iterations = NumBlocks(bv.num)
      /\ FitsStore /\ ClientInv
  BY InLoop DEF StoreInv
<1>2. /\ x \in Nat /\ b + 1 \in 1..NumBlocks(bv.num) /\ p \in 0..(num - 1)
      /\ num \in Nat \ {0} /\ old \in Words(num)
      /\ before <=> GetBit(old, p)
  BY <1>1, SelectedBits
<1>3. b \in 0..(Iterations - 1) /\ p \in Positions
  BY <1>1, <1>2, PositionOfBlock
<1>4. /\ Call.op = "Scan" => columns[Call.column].blocks[b + 1].num_tuples = num
      /\ Call.op \in {"And", "Or"} => bitvectors[Call.other].blocks[b + 1].data \in Words(num)
  BY <1>1, <1>3, BlockFits
<1>5. Store!Call = Call
  BY DEF Store!Call, Call
<1>6. DOMAIN columns = {1, 2} /\ DOMAIN bitvectors = {1, 2}
  BY <1>1 DEF TypeOK
<1>7. CASE Call.op = "Scan"
  <2> DEFINE column == columns[Call.column]
             right == RightCodes(b)
             code == Code(column, column.blocks[b + 1].data[p])
  <2>1. /\ Call.column \in {1, 2} /\ Call.right \in 0..2 /\ Call.literal \in Nat
        /\ Call.bit_opt \in {"kSet", "kAnd", "kOr"}
    BY <1>1, <1>7 DEF IsCall, ColumnCalls
  <2>2. /\ IsColumn(column) /\ column.num_tuples = bv.num
        /\ Call.right # 0 => /\ columns[Call.right].type = column.type
                             /\ columns[Call.right].bit_width = column.bit_width
                             /\ columns[Call.right].num_tuples = column.num_tuples
    BY <1>1, <1>7, <2>1 DEF TypeOK, SameSizes
  <2>3. column.type \in ColumnType /\ column.bit_width \in 1..32
    BY <2>2, ColumnFields
  <2>4. AllValues[Call.column][x] = code
    <3>1. AllValues[Call.column] = ColumnCodes(column)
      BY <1>6, <2>1, ValuesOfColumns
    <3>2. ColumnCodes(column)[x] = GetTuple_(column, x)
      BY <2>2, CodesOfColumn
    <3> QED BY <3>1, <3>2 DEF GetTuple_
  <2>5. right[p] = Store!Right(x)
    <3>1. right[p] = IF Call.right = 0 THEN Literal(column, Call.literal)
                     ELSE Code(column, columns[Call.right].blocks[b + 1].data[p])
      BY <1>3 DEF RightCodes
    <3>2. CASE Call.right = 0
      <4>1. Fits(column, Call.literal)
        BY <1>1, <1>7, <3>2 DEF FitsStore
      <4>2. Literal(column, Call.literal) = Call.literal
        BY <2>1, <2>3, <4>1, FittingCodes
      <4> QED BY <1>5, <3>1, <3>2, <4>2 DEF Store!Right
    <3>3. CASE Call.right # 0
      <4> DEFINE other == columns[Call.right]
      <4>1. Call.right \in {1, 2}
        BY <2>1, <3>3
      <4>2. IsColumn(other) /\ other.num_tuples = bv.num
        BY <1>1, <2>2, <3>3, <4>1 DEF TypeOK
      <4>3. AllValues[Call.right] = ColumnCodes(other)
        BY <1>6, <4>1, ValuesOfColumns
      <4>4. ColumnCodes(other)[x] = GetTuple_(other, x)
        BY <4>2, CodesOfColumn
      <4>5. \A d : Code(other, d) = Code(column, d)
        BY <2>2, <3>3 DEF Code
      <4>6. GetTuple_(other, x) = Code(column, other.blocks[b + 1].data[p])
        BY <4>5 DEF GetTuple_
      <4> QED BY <1>5, <3>1, <3>3, <4>3, <4>4, <4>6 DEF Store!Right
    <3> QED BY <3>2, <3>3
  <2>6. BlockResult(b) = ScanBlock(column, column.blocks[b + 1], right, Call.cmp, Call.bit_opt, old)
    BY <1>7 DEF BlockResult
  <2> DEFINE scanned == column.blocks[b + 1]
             cmp == Call.cmp
             bit_opt == Call.bit_opt
             made == BlockResult(b)
  <2>7. Store!Verdict(x, before)
          = Store!Joined(bit_opt, before, Store!Satisfies(cmp, AllValues[Call.column][x], Store!Right(x)))
    BY <1>5, <1>7 DEF Store!Verdict
  <2>8. scanned.num_tuples = num /\ code = Code(column, scanned.data[p])
        /\ bit_opt \in {"kSet", "kAnd", "kOr"}
    BY <1>4, <1>7, <2>1
  <2> HIDE DEF before, right, code, cmp, bit_opt, made, old, num, p, scanned, column, block, bv
  <2>9. GetBit(ScanBlock(column, scanned, right, cmp, bit_opt, old), p)
          <=> Store!Joined(bit_opt, GetBit(old, p),
                           Store!Satisfies(cmp, Code(column, scanned.data[p]), right[p]))
    BY <1>2, <2>8, ScannedBit
  <2> DEFINE verdict == Store!Satisfies(cmp, code, right[p])
  <2>10. Store!Verdict(x, before) = Store!Joined(bit_opt, before, verdict)
    BY <2>4, <2>5, <2>7
  <2>11. GetBit(made, p) <=> Store!Joined(bit_opt, GetBit(old, p), verdict)
    BY <2>6, <2>8, <2>9 DEF made, scanned, cmp, bit_opt
  <2>12. Store!Joined(bit_opt, GetBit(old, p), verdict) <=> Store!Joined(bit_opt, before, verdict)
    <3> HIDE DEF verdict
    <3> QED BY <1>2, <2>8 DEF Store!Joined
  <2> HIDE DEF verdict
  <2>13. GetBit(made, p) <=> Store!Verdict(x, before)
    BY <2>10, <2>11, <2>12
  <2> QED BY <2>13 DEF made, p, before, bv
<1>8. CASE Call.op \in {"And", "Or"}
  <2> DEFINE other == bitvectors[Call.other]
             words == other.blocks[b + 1].data
             data == IF Call.op = "And" THEN [w \in DOMAIN old |-> old[w] \cap words[w]]
                                        ELSE [w \in DOMAIN old |-> old[w] \cup words[w]]
             q == p \div kNumWordBits
             r == p % kNumWordBits
  <2>1. Call.other \in {1, 2} /\ other.num = bv.num
    BY <1>1, <1>8 DEF IsCall, SameSizes
  <2>2. IsBitVector(other)
    BY <1>1, <2>1 DEF TypeOK
  <2>3. x \in Selected(other) <=> GetBit(words, p)
    <3>1. x \in 0..(other.num - 1)
      BY <2>1
    <3> HIDE DEF other
    <3> QED BY <2>2, <3>1, SelectedBits
  <2>4. Selected(other) = AllSelected[Call.other]
    BY <1>6, <2>1 DEF AllSelected
  <2>5. BlockResult(b) = ClearTail(data, num)
    BY <1>8 DEF BlockResult, AndBlock, OrBlock
  <2>6. old \in [WordIds(num) -> SUBSET WordBits] /\ words \in [WordIds(num) -> SUBSET WordBits]
    BY <1>2, <1>4, <1>8 DEF Words
  <2>7. q \in WordIds(num)
    BY <1>2, PositionOfTuple
  <2> DEFINE f == BlockResult(b)
  <2>8. Store!Verdict(x, before) <=>
          IF Call.op = "And" THEN before /\ x \in AllSelected[Call.other]
                             ELSE before \/ x \in AllSelected[Call.other]
    BY <1>5, <1>8 DEF Store!Verdict
  <2>9. GetBit(old, p) <=> r \in old[q]
    BY DEF GetBit
  <2>10. GetBit(words, p) <=> r \in words[q]
    BY DEF GetBit
  <2>11. \A d : GetBit(d, p) <=> r \in d[q]
    BY DEF GetBit
  <2> HIDE DEF num, old, words, q, r, f, p, before
  <2>12. data \in [WordIds(num) -> SUBSET WordBits]
    BY <2>6
  <2>13. r \in data[q] <=> IF Call.op = "And" THEN r \in old[q] /\ r \in words[q]
                                             ELSE r \in old[q] \/ r \in words[q]
    BY <2>6, <2>7
  <2> HIDE DEF data
  <2>14. GetBit(ClearTail(data, num), p) <=> GetBit(data, p)
    BY <1>2, <2>12, ClearedBits
  <2>15. GetBit(f, p) <=> GetBit(data, p)
    BY <2>5, <2>14 DEF f
  <2>16. GetBit(f, p) <=> Store!Verdict(x, before)
    <3>1. GetBit(data, p) <=> r \in data[q]
      BY <2>11
    <3> QED BY <1>2, <2>3, <2>4, <2>8, <2>9, <2>10, <2>13, <2>15, <3>1
  <2> QED BY <2>16 DEF f, p, before
<1>9. CASE Call.op \in {"BitVector", "SetOnes"}
  <2> DEFINE filled == [w \in WordIds(num) |-> WordBits]
             q == p \div kNumWordBits
             r == p % kNumWordBits
  <2>1. BlockResult(b) = ClearTail(filled, num)
    BY <1>9 DEF BlockResult, SetOnes
  <2>2. q \in WordIds(num) /\ r \in WordBits
    BY <1>2, PositionOfTuple
  <2>3. filled \in [WordIds(num) -> SUBSET WordBits]
    OBVIOUS
  <2>4. r \in filled[q]
    BY <2>2
  <2>5. GetBit(filled, p)
    BY <2>4 DEF GetBit
  <2>6. Store!Verdict(x, before) <=> TRUE
    BY <1>5, <1>9 DEF Store!Verdict
  <2> DEFINE f == BlockResult(b)
  <2> HIDE DEF filled, f, num, p, before
  <2>7. GetBit(ClearTail(filled, num), p)
    BY <1>2, <2>3, <2>5, ClearedBits
  <2>8. GetBit(f, p)
    BY <2>1, <2>7 DEF f
  <2> QED BY <2>6, <2>8 DEF f, p, before
<1>10. CASE Call.op = "SetZeros"
  <2> DEFINE q == p \div kNumWordBits
             r == p % kNumWordBits
  <2>1. BlockResult(b) = SetZeros(num)
    BY <1>10 DEF BlockResult
  <2>2. q \in WordIds(num)
    BY <1>2, PositionOfTuple
  <2>3. SetZeros(num)[q] = {}
    BY <2>2 DEF SetZeros
  <2>4. ~GetBit(SetZeros(num), p)
    BY <2>3 DEF GetBit
  <2>5. Store!Verdict(x, before) <=> FALSE
    BY <1>5, <1>10 DEF Store!Verdict
  <2> QED BY <2>1, <2>4, <2>5
<1> QED BY <1>1, <1>7, <1>8, <1>9, <1>10 DEF LoopCalls

----------------------------------------------------------------------------
(* The positions that a loop has still to do.                              *)
LEMMA LoopOver ==
  ClientInv /\ pc = "loop" =>
    LET num == bitvectors[Call.bv].num IN
    /\ Call.bv \in {1, 2} /\ num \in Nat /\ Iterations = NumBlocks(num) /\ Iterations \in Nat
    /\ Undone = {x \in 0..(num - 1) : block_id(x) \in Unfinished}
<1> SUFFICES ASSUME ClientInv, pc = "loop"
             PROVE  LET num == bitvectors[Call.bv].num IN
                    /\ Call.bv \in {1, 2} /\ num \in Nat /\ Iterations = NumBlocks(num)
                    /\ Iterations \in Nat
                    /\ Undone = {x \in 0..(num - 1) : block_id(x) \in Unfinished}
  OBVIOUS
<1> DEFINE bv == bitvectors[Call.bv]
<1>1. /\ Call.bv \in {1, 2} /\ IsBitVector(bv) /\ bv.num \in Nat
      /\ NumBlocks(bv.num) \in Nat /\ Iterations = NumBlocks(bv.num)
  BY InLoop
<1>2. Undone = {x \in 0..(bv.num - 1) : block_id(x) \in Unfinished}
  BY <1>1, UndoneInLoop
<1> QED BY <1>1, <1>2

(* A position of a bit vector is in one of its blocks.                     *)
LEMMA BlocksOfPositions ==
  ASSUME NEW num \in Nat
  PROVE  \A x \in 0..(num - 1) : block_id(x) \in 0..(NumBlocks(num) - 1)
<1> SUFFICES ASSUME NEW x \in 0..(num - 1)
             PROVE  block_id(x) \in 0..(NumBlocks(num) - 1)
  OBVIOUS
<1>1. x \in Nat /\ x < num
  OBVIOUS
<1>2. block_id(x) \in Nat /\ block_id(x) + 1 \in 1..NumBlocks(num) /\ NumBlocks(num) \in Nat
  BY <1>1, PositionOfBlock, BlockOfTuple, BlockSizes
<1> QED BY <1>2

(* A loop begins with every position of its bit vector to do.              *)
LEMMA StartLoopMaps ==
  ASSUME StoreInv, ClientFitsStore, StartLoop
  PROVE  Store!Begin
<1> DEFINE v == Call.bv
<1>1. ClientInv /\ ClientKeepsContract
  BY DEF StoreInv, ClientFitsStore, ClientKeepsContract
<1>2. /\ IsCall(Call) /\ Call.op \in LoopCalls /\ TypeOK /\ pc = "call" /\ ip <= Len(script)
  BY <1>1, BetweenCalls DEF StartLoop, LoopCalls
<1>3. /\ UNCHANGED <<script, ip, columns, file, file_pos, running>> /\ pc' = "loop"
      /\ next_block' = 0 /\ result' = <<>> /\ Call' = Call
  BY DEF StartLoop, Call
<1>4. /\ v \in {1, 2} /\ DOMAIN bitvectors = {1, 2}
  BY <1>2 DEF IsCall, BitVectorCalls, LoopCalls, TypeOK
<1>5. ClientInv'
  BY <1>1, StartLoopStep
<1> DEFINE num == bitvectors'[v].num
<1>6. num \in Nat /\ Undone' = 0..(num - 1)
  <2>1. (ClientInv /\ pc = "loop" =>
           LET m == bitvectors[Call.bv].num IN
           /\ Call.bv \in {1, 2} /\ m \in Nat /\ Iterations = NumBlocks(m) /\ Iterations \in Nat
           /\ Undone = {x \in 0..(m - 1) : block_id(x) \in Unfinished})'
    BY LoopOver, PTL
  <2>2. /\ num \in Nat /\ Iterations' = NumBlocks(num) /\ Iterations' \in Nat
        /\ Undone' = {x \in 0..(num - 1) : block_id(x) \in Unfinished'}
    BY <1>3, <1>5, <2>1
  <2>3. Unfinished' = 0..(Iterations' - 1)
    BY <1>3 DEF Unfinished
  <2> HIDE DEF num
  <2>4. \A x \in 0..(num - 1) : block_id(x) \in 0..(NumBlocks(num) - 1)
    BY <2>2, BlocksOfPositions
  <2> QED BY <2>2, <2>3, <2>4
<1>7. UNCHANGED <<AllValues, AllWritten, AllRead>>
  BY <1>3, KeptColumns
<1>8. Store!Call = Call
  BY DEF Store!Call, Call
<1>9. /\ Undone' = Store!Positions
      /\ IF Call.op = "BitVector"
         THEN /\ AllNums' = [AllNums EXCEPT ![v] = Store!Size(Call.column)]
              /\ AllSelected'[v] \subseteq 0..(AllNums'[v] - 1)
              /\ \A w \in DOMAIN AllSelected \ {v} : AllSelected'[w] = AllSelected[w]
         ELSE UNCHANGED <<AllNums, AllSelected>>
  <2>1. CASE Call.op = "BitVector"
    <3> DEFINE column == columns[Call.column]
               size == column.num_tuples
    <3>1. Call.column \in {1, 2}
      BY <1>2, <2>1 DEF IsCall, ColumnCalls
    <3>2. IsColumn(column) /\ DOMAIN columns = {1, 2}
      BY <1>2, <3>1 DEF TypeOK
    <3>3. /\ DOMAIN ColumnCodes(column) = 0..(size - 1)
          /\ Cardinality(DOMAIN ColumnCodes(column)) = size
      BY <3>2, CodesOfColumn
    <3>4. AllValues[Call.column] = ColumnCodes(column)
      BY <3>1, <3>2, ValuesOfColumns
    <3>5. PICK full \in BOOLEAN : bitvectors' = [bitvectors EXCEPT ![v] = Allocated(size, full)]
      BY <2>1 DEF StartLoop
    <3> DEFINE new == Allocated(size, full)
    <3>6. new.num = size
      BY DEF Allocated
    <3>7. num = size
      BY <1>4, <3>5, <3>6
    <3> HIDE DEF new, v
    <3>8. /\ AllSelected' = [AllSelected EXCEPT ![v] = Selected(new)]
          /\ AllNums' = [AllNums EXCEPT ![v] = new.num]
          /\ DOMAIN AllSelected = {1, 2} /\ DOMAIN AllNums = {1, 2}
      BY <1>4, <3>5, ChangedSelection DEF new
    <3>9. Selected(new) \subseteq 0..(new.num - 1)
      BY DEF Selected
    <3>10. Store!Size(Call.column) = size
      BY <3>3, <3>4 DEF Store!Size, Store!Cardinality, Cardinality
    <3>11. Store!Positions = 0..(size - 1)
      BY <1>8, <2>1, <3>3, <3>4 DEF Store!Positions
    <3>12. Undone' = Store!Positions
      BY <1>6, <3>7, <3>11
    <3>13. AllNums' = [AllNums EXCEPT ![v] = Store!Size(Call.column)]
      BY <3>6, <3>8, <3>10
    <3>14. /\ AllSelected'[v] \subseteq 0..(AllNums'[v] - 1)
           /\ \A w \in DOMAIN AllSelected \ {v} : AllSelected'[w] = AllSelected[w]
      BY <1>4, <3>8, <3>9
    <3> QED BY <2>1, <3>12, <3>13, <3>14 DEF v
  <2>2. CASE Call.op # "BitVector"
    <3>1. UNCHANGED bitvectors
      BY <2>2 DEF StartLoop
    <3>2. UNCHANGED <<AllNums, AllSelected>>
      BY <3>1, KeptVectors
    <3>3. Store!Positions = 0..(AllNums[v] - 1)
      BY <1>2, <1>8, <2>2 DEF Store!Positions, LoopCalls
    <3>4. AllNums[v] = num
      BY <1>4, <3>1 DEF AllNums
    <3> QED BY <1>6, <2>2, <3>2, <3>3, <3>4
  <2> QED BY <2>1, <2>2
<1>10. Store!Call.op \in {"BulkLoadArray", "BitVector", "Scan", "And", "Or", "SetOnes", "SetZeros",
                          "CountOnes", "Iterate"}
  BY <1>2, <1>8 DEF LoopCalls
<1> QED BY <1>2, <1>3, <1>7, <1>8, <1>9, <1>10 DEF Store!Begin

----------------------------------------------------------------------------
(* A thread that takes a block leaves it to do.                            *)
LEMMA TakenIsUnfinished ==
  ASSUME ClientInv, NEW t \in Threads, TakeBlock(t)
  PROVE  Iterations' = Iterations /\ Call' = Call /\ Unfinished' = Unfinished
<1>1. /\ pc = "loop" /\ running[t] = None /\ next_block < Iterations
      /\ running' = [running EXCEPT ![t] = next_block] /\ next_block' = next_block + 1
      /\ UNCHANGED <<script, ip, columns, bitvectors>>
  BY DEF TakeBlock, store
<1>2. TypeOK /\ Iterations \in Nat
  BY <1>1, LoopOver DEF ClientInv
<1>3. next_block \in Nat /\ DOMAIN running = Threads
  BY <1>2 DEF TypeOK
<1>4. Iterations' = Iterations /\ Call' = Call
  BY <1>1 DEF Iterations, Call
<1>5. /\ DOMAIN running' = Threads /\ running'[t] = next_block
      /\ \A u \in Threads : u # t => running'[u] = running[u]
  BY <1>1, <1>3
<1>6. ASSUME NEW b \in 0..(Iterations - 1)
      PROVE  b >= next_block \/ b \in Range(running) <=> b >= next_block' \/ b \in Range(running')
  <2>1. (b \in Range(running) <=> \E u \in Threads : b = running[u])
        /\ (b \in Range(running') <=> \E u \in Threads : b = running'[u])
    BY <1>3, <1>5 DEF Range
  <2>2. b # None
    BY <1>2 DEF None
  <2>3. ASSUME b \in Range(running)
        PROVE  b \in Range(running')
    <3>1. PICK u \in Threads : b = running[u]
      BY <2>1, <2>3
    <3>2. u # t
      BY <1>1, <2>2, <3>1
    <3> QED BY <1>5, <2>1, <3>1, <3>2
  <2>4. ASSUME b \in Range(running')
        PROVE  b \in Range(running) \/ b = next_block
    BY <1>5, <2>1, <2>4
  <2>5. b >= next_block <=> b >= next_block + 1 \/ b = next_block
    BY <1>2, <1>3
  <2>6. next_block \in Range(running')
    BY <1>5 DEF Range
  <2> QED BY <1>1, <2>3, <2>4, <2>5, <2>6
<1> QED BY <1>4, <1>6 DEF Unfinished

(* The store does not see it.                                              *)
LEMMA TakeBlockMaps ==
  ASSUME StoreInv, NEW t \in Threads, TakeBlock(t)
  PROVE  UNCHANGED Store!vars
<1>1. /\ pc = "loop"
      /\ UNCHANGED <<script, ip, pc, columns, bitvectors, file, file_pos, result>>
  BY DEF TakeBlock, store
<1>2. UNCHANGED <<AllValues, AllNums, AllSelected, AllWritten, AllRead>>
  BY <1>1, KeptStore
<1>3. Call' = Call /\ Unfinished' = Unfinished
  BY TakenIsUnfinished DEF StoreInv
<1>4. Undone' = Undone
  BY <1>1, <1>3 DEF Undone, BlockPositions
<1> QED BY <1>1, <1>2, <1>4 DEF Store!vars

----------------------------------------------------------------------------
(* A thread that has run a block has changed that block only.              *)
LEMMA RunsBlock ==
  ASSUME ClientInv, NEW t \in Threads, RunBlock(t)
  PROVE  LET v == Call.bv
             bv == bitvectors[v]
             new == bitvectors'[v]
             b == running[t]
         IN /\ pc = "loop" /\ b # None /\ b \in 0..(Iterations - 1) /\ ~failed'
            /\ UNCHANGED <<script, ip, pc, columns, file, file_pos, next_block, result>>
            /\ running' = [running EXCEPT ![t] = None]
            /\ bitvectors' = [bitvectors EXCEPT ![v] = new]
            /\ IsBitVector(new) /\ new.num = bv.num
            /\ \A k \in 1..NumBlocks(bv.num) :
                 /\ new.blocks[k].num = bv.blocks[k].num
                 /\ new.blocks[k].data = IF k = b + 1 THEN BlockResult(b) ELSE bv.blocks[k].data
            /\ Call' = Call /\ Iterations' = Iterations
<1> DEFINE v == Call.bv
           bv == bitvectors[v]
           n == NumBlocks(bv.num)
           b == running[t]
           data == BlockResult(b)
           new == [bv EXCEPT !.blocks[b + 1].data = data]
<1>1. /\ pc = "loop" /\ b # None /\ failed' = ~BlockSizesAgree(b)
      /\ bitvectors' = IF failed' THEN bitvectors
                       ELSE [bitvectors EXCEPT ![v].blocks[b + 1].data = data]
      /\ running' = [running EXCEPT ![t] = None]
      /\ UNCHANGED <<script, ip, pc, columns, file, file_pos, next_block, result>>
  BY DEF RunBlock
<1>2. TypeOK /\ CallInv
  BY DEF ClientInv
<1>3. b \in 0..(Iterations - 1)
  BY <1>1, <1>2 DEF CallInv
<1>4. /\ v \in {1, 2} /\ IsBitVector(bv) /\ bv.num \in Nat /\ n \in Nat
      /\ Iterations = n
  BY <1>1, InLoop
<1>5. ~failed'
  <2>1. BlockSizesAgree(b)
    BY <1>1, <1>3, BlockFits DEF BlockSizesAgree
  <2> QED BY <1>1, <2>1
<1>6. b + 1 \in 1..n /\ data \in Words(bv.blocks[b + 1].num)
  <2>1. b + 1 \in 1..n
    BY <1>1, <1>3, <1>4
  <2> QED BY <1>1, <1>3, <2>1, ResultTail
<1>7. DOMAIN bitvectors = {1, 2}
  BY <1>2 DEF TypeOK
<1>8. bitvectors' = [bitvectors EXCEPT ![v] = new]
  <2> HIDE DEF data, b
  <2> QED BY <1>1, <1>4, <1>5, <1>7
<1> HIDE DEF data, b
<1>9. /\ IsBitVector(new) /\ new.num = bv.num
      /\ \A k \in 1..n : /\ new.blocks[k].num = bv.blocks[k].num
                         /\ new.blocks[k].data = IF k = b + 1 THEN data ELSE bv.blocks[k].data
  <2> DEFINE m == b + 1
  <2>1. m \in 1..NumBlocks(bv.num) /\ data \in Words(bv.blocks[m].num) /\ IsBitVector(bv)
    BY <1>4, <1>6
  <2>2. new = [bv EXCEPT !.blocks[m].data = data]
    OBVIOUS
  <2> HIDE DEF bv, n, new, m
  <2>3. LET made == [bv EXCEPT !.blocks[m].data = data] IN
        /\ IsBitVector(made) /\ made.num = bv.num
        /\ \A k \in 1..NumBlocks(bv.num) :
             /\ made.blocks[k].num = bv.blocks[k].num
             /\ made.blocks[k].data = IF k = m THEN data ELSE bv.blocks[k].data
    BY <2>1, ChangedVector
  <2> QED BY <2>2, <2>3 DEF n, m
<1> HIDE DEF new
<1>10. bitvectors'[v] = new
  BY <1>4, <1>7, <1>8
<1>11. Iterations' = Iterations /\ Call' = Call
  <2>1. Call' = Call
    BY <1>1 DEF Call
  <2>2. Len(new.blocks) = NumBlocks(new.num) /\ Len(bv.blocks) = NumBlocks(bv.num)
    BY <1>4, <1>9, VectorFields
  <2> QED BY <1>1, <1>9, <1>10, <2>1, <2>2 DEF Iterations
<1> QED BY <1>1, <1>3, <1>5, <1>8, <1>9, <1>10, <1>11 DEF b, data

(* It was to be run by that thread alone.                                  *)
LEMMA RunIsFinished ==
  ASSUME StoreInv, NEW t \in Threads, RunBlock(t)
  PROVE  running[t] \in Unfinished /\ Unfinished' = Unfinished \ {running[t]}
<1> DEFINE b == running[t]
<1>1. /\ pc = "loop" /\ b # None /\ b \in 0..(Iterations - 1)
      /\ next_block' = next_block /\ running' = [running EXCEPT ![t] = None]
      /\ Iterations' = Iterations
  BY RunsBlock DEF StoreInv
<1>2. TypeOK /\ Iterations \in Nat
  BY <1>1, LoopOver DEF StoreInv, ClientInv
<1>3. next_block \in Nat /\ DOMAIN running = Threads
  BY <1>2 DEF TypeOK
<1>4. b < next_block /\ \A u \in Threads : running[u] = b => u = t
  BY <1>1 DEF StoreInv, RunInv
<1>5. /\ DOMAIN running' = Threads /\ running'[t] = None
      /\ \A u \in Threads : u # t => running'[u] = running[u]
  BY <1>1, <1>3
<1>6. b \in Unfinished
  BY <1>1, <1>3 DEF Unfinished, Range
<1> HIDE DEF b
<1>7. ASSUME NEW a \in 0..(Iterations - 1)
      PROVE  a >= next_block \/ a \in Range(running')
               <=> (a >= next_block \/ a \in Range(running)) /\ a # b
  <2>1. (a \in Range(running) <=> \E u \in Threads : a = running[u])
        /\ (a \in Range(running') <=> \E u \in Threads : a = running'[u])
    BY <1>3, <1>5 DEF Range
  <2>2. a # None
    BY <1>2 DEF None
  <2>3. ASSUME a \in Range(running')
        PROVE  a \in Range(running) /\ a # b
    <3>1. PICK u \in Threads : a = running'[u]
      BY <2>1, <2>3
    <3>2. u # t
      BY <1>5, <2>2, <3>1
    <3>3. running[u] # b
      BY <1>4, <3>2
    <3> QED BY <1>5, <2>1, <3>1, <3>2, <3>3
  <2>4. ASSUME a \in Range(running), a # b
        PROVE  a \in Range(running')
    <3>1. PICK u \in Threads : a = running[u]
      BY <2>1, <2>4
    <3>2. u # t
      BY <2>4, <3>1 DEF b
    <3> QED BY <1>5, <2>1, <3>1, <3>2
  <2>5. a >= next_block => a # b
    BY <1>1, <1>2, <1>3, <1>4
  <2> QED BY <2>3, <2>4, <2>5
<1>8. Unfinished' = Unfinished \ {b}
  <2>1. Unfinished' = {a \in 0..(Iterations - 1) : a >= next_block \/ a \in Range(running')}
    BY <1>1 DEF Unfinished
  <2> QED BY <1>7, <2>1 DEF Unfinished
<1> QED BY <1>6, <1>8 DEF b

(* The positions of its block are done.                                    *)
LEMMA DoneByRun ==
  ASSUME StoreInv, NEW t \in Threads, RunBlock(t)
  PROVE  LET num == bitvectors[Call.bv].num
             now == {x \in 0..(num - 1) : block_id(x) = running[t]}
         IN Undone' = Undone \ now /\ now \subseteq Undone /\ now # {}
<1> DEFINE v == Call.bv
           num == bitvectors[v].num
           b == running[t]
           now == {x \in 0..(num - 1) : block_id(x) = b}
<1>1. /\ pc = "loop" /\ b \in 0..(Iterations - 1) /\ Call' = Call /\ pc' = pc
      /\ bitvectors'[v].num = num /\ Iterations' = Iterations
  BY RunsBlock DEF StoreInv
<1>2. ClientInv'
  BY RunBlockStep DEF StoreInv
<1>3. /\ v \in {1, 2} /\ num \in Nat /\ Iterations = NumBlocks(num) /\ Iterations \in Nat
      /\ Undone = {x \in 0..(num - 1) : block_id(x) \in Unfinished}
  BY <1>1, LoopOver DEF StoreInv
<1>4. Undone' = {x \in 0..(num - 1) : block_id(x) \in Unfinished'}
  <2>1. (ClientInv /\ pc = "loop" =>
           LET m == bitvectors[Call.bv].num IN
           /\ Call.bv \in {1, 2} /\ m \in Nat /\ Iterations = NumBlocks(m) /\ Iterations \in Nat
           /\ Undone = {x \in 0..(m - 1) : block_id(x) \in Unfinished})'
    BY LoopOver, PTL
  <2> QED BY <1>1, <1>2, <2>1
<1>5. b \in Unfinished /\ Unfinished' = Unfinished \ {b}
  BY RunIsFinished
<1>6. now # {}
  <2>1. IsBitVector(bitvectors[v])
    BY <1>3 DEF StoreInv, ClientInv, TypeOK
  <2>2. b \in 0..(NumBlocks(num) - 1)
    BY <1>1, <1>3
  <2> HIDE DEF b
  <2>3. BlockPositions(b) = now /\ BlockPositions(b) # {}
    BY <2>1, <2>2, PositionsOfBlock
  <2> QED BY <2>3
<1> HIDE DEF b, num
<1> QED BY <1>3, <1>4, <1>5, <1>6 DEF b, num

----------------------------------------------------------------------------
(* What is selected after a block has been run.                            *)
LEMMA SelectedByRun ==
  ASSUME StoreInv, NEW t \in Threads, RunBlock(t), NEW x \in 0..(bitvectors[Call.bv].num - 1)
  PROVE  x \in Selected(bitvectors'[Call.bv])
           <=> IF block_id(x) = running[t] THEN GetBit(BlockResult(running[t]), pos_in_block(x))
                                           ELSE x \in Selected(bitvectors[Call.bv])
<1> DEFINE v == Call.bv
           bv == bitvectors[v]
           new == bitvectors'[v]
           b == running[t]
           a == block_id(x) + 1
           y == pos_in_block(x)
<1>1. /\ pc = "loop" /\ b \in 0..(Iterations - 1) /\ IsBitVector(new) /\ new.num = bv.num
      /\ \A k \in 1..NumBlocks(bv.num) :
           new.blocks[k].data = IF k = b + 1 THEN BlockResult(b) ELSE bv.blocks[k].data
  BY RunsBlock DEF StoreInv
<1>2. v \in {1, 2} /\ IsBitVector(bv) /\ Iterations \in Nat
  BY <1>1, LoopOver DEF StoreInv, ClientInv, TypeOK
<1>3. /\ x \in Nat /\ a \in 1..NumBlocks(bv.num)
      /\ x \in Selected(bv) <=> GetBit(bv.blocks[a].data, y)
  BY <1>2, SelectedBits
<1>4. x \in Selected(new) <=> GetBit(new.blocks[a].data, y)
  <2>1. x \in 0..(new.num - 1)
    BY <1>1
  <2> HIDE DEF new
  <2> QED BY <1>1, <2>1, SelectedBits
<1>5. block_id(x) \in Nat
  BY <1>3, PositionOfBlock
<1>6. new.blocks[a].data = IF a = b + 1 THEN BlockResult(b) ELSE bv.blocks[a].data
  BY <1>1, <1>3
<1>7. a = b + 1 <=> block_id(x) = b
  BY <1>1, <1>2, <1>5
<1> HIDE DEF a, b, y
<1> QED BY <1>3, <1>4, <1>6, <1>7 DEF b, y

(* A block is done, with the call's verdict on each of its positions.      *)
LEMMA RunBlockMaps ==
  ASSUME StoreInv, NEW t \in Threads, RunBlock(t)
  PROVE  Store!Work
<1> DEFINE v == Call.bv
           num == bitvectors[v].num
           new == bitvectors'[v]
           b == running[t]
           block == {x \in 0..(num - 1) : block_id(x) = b}
           now == Undone \ Undone'
           before == Selected(bitvectors[v])
<1>1. /\ pc = "loop" /\ b \in 0..(Iterations - 1)
      /\ UNCHANGED <<script, ip, pc, columns, file, file_pos, result>>
      /\ bitvectors' = [bitvectors EXCEPT ![v] = new]
      /\ new.num = num /\ Call' = Call
  BY RunsBlock DEF StoreInv
<1>2. v \in {1, 2} /\ num \in Nat /\ DOMAIN bitvectors = {1, 2} /\ Call.op \in LoopCalls
  BY <1>1, LoopOver, InLoop DEF StoreInv, ClientInv, TypeOK
<1>3. now = block /\ Undone' \subseteq Undone /\ now # {}
  <2>1. Undone' = Undone \ block /\ block \subseteq Undone /\ block # {}
    BY DoneByRun
  <2> HIDE DEF block
  <2> QED BY <2>1
<1>4. UNCHANGED <<AllValues, AllWritten, AllRead>>
  BY <1>1, KeptColumns
<1> HIDE DEF new
<1>5. /\ AllSelected' = [AllSelected EXCEPT ![v] = Selected(new)]
      /\ DOMAIN AllSelected = {1, 2} /\ AllSelected[v] = before
      /\ DOMAIN AllNums = {1, 2} /\ AllNums[v] = num
      /\ UNCHANGED AllNums
  BY <1>1, <1>2, ChangedSelection
<1>6. Selected(new) \subseteq 0..(num - 1) /\ before \subseteq 0..(num - 1)
  BY <1>1 DEF Selected
<1>7. Store!Call = Call
  BY DEF Store!Call, Call
<1>8. ASSUME NEW x \in 0..(num - 1)
      PROVE  x \in Selected(new) <=> IF x \in block THEN GetBit(BlockResult(b), pos_in_block(x))
                                                   ELSE x \in before
  BY SelectedByRun DEF new
<1>9. CASE Call.op = "CountOnes"
  <2>1. ASSUME NEW x \in 0..(num - 1)
        PROVE  x \in Selected(new) <=> x \in before
    <3>1. CASE x \in block
      <4>1. BlockResult(b) = bitvectors[v].blocks[b + 1].data
        BY <1>9 DEF BlockResult
      <4>2. block_id(x) = b
        BY <3>1
      <4>3. IsBitVector(bitvectors[v])
        BY <1>2 DEF StoreInv, ClientInv, TypeOK
      <4>4. x \in before <=> GetBit(bitvectors[v].blocks[block_id(x) + 1].data, pos_in_block(x))
        BY <4>3, SelectedBits
      <4> QED BY <1>8, <3>1, <4>1, <4>2, <4>4
    <3>2. CASE x \notin block
      BY <1>8, <3>2
    <3> QED BY <3>1, <3>2
  <2>2. Selected(new) = before
    BY <1>6, <2>1
  <2>3. AllSelected' = AllSelected
    <3>1. AllSelected = [w \in DOMAIN bitvectors |-> Selected(bitvectors[w])]
      BY DEF AllSelected
    <3> QED BY <1>5, <2>2, <3>1
  <2> QED BY <1>1, <1>3, <1>4, <1>5, <1>7, <1>9, <2>3 DEF Store!Work
<1>10. CASE Call.op # "CountOnes"
  <2> DEFINE after == {x \in 0..(AllNums[v] - 1) :
                         IF x \in now THEN Store!Verdict(x, x \in AllSelected[v])
                                      ELSE x \in AllSelected[v]}
  <2>1. ASSUME NEW x \in 0..(num - 1)
        PROVE  x \in Selected(new) <=> IF x \in now THEN Store!Verdict(x, x \in before)
                                                   ELSE x \in before
    <3>1. CASE x \in block
      <4>1. block_id(x) = b
        BY <3>1
      <4>2. GetBit(BlockResult(block_id(x)), pos_in_block(x)) <=> Store!Verdict(x, x \in before)
        BY <1>1, <1>10, ResultBits
      <4> HIDE DEF block, b, before, now
      <4> QED BY <1>3, <1>8, <3>1, <4>1, <4>2
    <3>2. CASE x \notin block
      <4> HIDE DEF block, b, before, now
      <4> QED BY <1>3, <1>8, <3>2
    <3> QED BY <3>1, <3>2
  <2>2. after = {x \in 0..(num - 1) : IF x \in now THEN Store!Verdict(x, x \in before) ELSE x \in before}
    BY <1>5
  <2> HIDE DEF before, now, after
  <2>3. Selected(new) = after
    BY <1>6, <2>1, <2>2
  <2>4. AllSelected' = [AllSelected EXCEPT ![v] = after]
    BY <1>5, <2>3
  <2>5. AllSelected' =
          [AllSelected EXCEPT ![Store!Call.bv] =
             {x \in 0..(AllNums[Store!Call.bv] - 1) :
                IF x \in Undone \ Undone' THEN Store!Verdict(x, x \in @) ELSE x \in @}]
    BY <1>5, <1>7, <2>4 DEF after, now
  <2>6. Store!Call.op \notin {"BulkLoadArray", "CountOnes"}
    BY <1>2, <1>7, <1>10 DEF LoopCalls
  <2> QED BY <1>1, <1>3, <1>4, <1>5, <2>5, <2>6 DEF Store!Work, now
<1> QED BY <1>9, <1>10

(* The loop returns when no block is left, and then has counted all that   *)
(* is set.                                                                 *)
LEMMA EndLoopMaps ==
  ASSUME StoreInv, EndLoop
  PROVE  Store!Return
<1> DEFINE v == Call.bv
<1>1. /\ pc = "loop" /\ next_block >= Iterations /\ \A t \in Threads : running[t] = None
      /\ Returns /\ UNCHANGED <<columns, bitvectors, file, file_pos>>
  BY DEF EndLoop, store
<1>2. /\ TypeOK /\ Call.op \in LoopCalls /\ v \in {1, 2} /\ Iterations \in Nat
      /\ Undone = {x \in 0..(bitvectors[v].num - 1) : block_id(x) \in Unfinished}
  BY <1>1, LoopOver, InLoop DEF StoreInv, ClientInv
<1>3. Unfinished = {}
  <2>1. next_block \in Nat /\ DOMAIN running = Threads /\ Iterations \in Nat
    BY <1>2 DEF TypeOK
  <2> QED BY <1>1, <2>1 DEF Unfinished, Range, None
<1>4. Undone = {} /\ Undone' = {}
  BY <1>1, <1>2, <1>3 DEF Undone, Returns
<1>5. UNCHANGED <<AllValues, AllNums, AllSelected, AllWritten, AllRead>>
  BY <1>1, KeptStore
<1>6. Store!Call = Call
  BY DEF Store!Call, Call
<1>7. AllSelected[v] = Selected(bitvectors[v])
  BY <1>2 DEF AllSelected, TypeOK
<1>8. Call.op = "CountOnes" => FoldFunction(+, 0, ones) = Store!Cardinality(AllSelected[v])
  <2> SUFFICES ASSUME Call.op = "CountOnes"
               PROVE  FoldFunction(+, 0, ones) = Store!Cardinality(AllSelected[v])
    OBVIOUS
  <2>1. FoldFunction(+, 0, ones) = Cardinality(Selected(bitvectors[v]) \ Undone)
    BY <1>1 DEF StoreInv, CountInv
  <2>2. Selected(bitvectors[v]) \ Undone = AllSelected[v]
    BY <1>4, <1>7
  <2>3. Cardinality(Selected(bitvectors[v]) \ Undone) = Cardinality(AllSelected[v])
    BY <2>2, Zenon
  <2>4. Cardinality(AllSelected[v]) = Store!Cardinality(AllSelected[v])
    BY DEF Cardinality, Store!Cardinality
  <2> QED BY <2>1, <2>3, <2>4
<1>9. result' = IF Store!Call.op = "CountOnes" THEN <<Store!Cardinality(AllSelected[Store!Call.bv])>>
                ELSE result
  <2>1. result' = IF Call.op = "CountOnes" THEN <<FoldFunction(+, 0, ones)>> ELSE result
    BY DEF EndLoop
  <2> QED BY <1>6, <1>8, <2>1, Zenon
<1>10. Store!Call.op # "Iterate"
  BY <1>2, <1>6 DEF LoopCalls
<1> QED BY <1>1, <1>4, <1>5, <1>9, <1>10 DEF Store!Return, Returns

----------------------------------------------------------------------------
(***************************************************************************)
(* The iterator pushes the positions of a word, the larger first: the bit  *)
(* of a rank is the one with that many bits from it on.                    *)
(***************************************************************************)
LEMMA RanksOfWord ==
  ASSUME NEW word \in SUBSET WordBits
  PROVE  /\ Cardinality(word) \in Nat /\ IsFiniteSet(word)
         /\ \A bit \in word : Cardinality({b \in word : b >= bit}) \in 1..Cardinality(word)
         /\ \A bit, c \in word : bit < c =>
              Cardinality({b \in word : b >= c}) < Cardinality({b \in word : b >= bit})
         /\ \A k \in 1..Cardinality(word) :
              \E bit \in word : Cardinality({b \in word : b >= bit}) = k
<1> DEFINE From(bit) == {b \in word : b >= bit}
           n == Cardinality(word)
           rank == [bit \in word |-> Cardinality(From(bit))]
<1>1. word \subseteq Nat /\ IsFiniteSet(word) /\ n \in Nat
  <2>1. kNumWordBits - 1 \in Int /\ 0 \in Int
    BY WordSizes
  <2>2. IsFiniteSet(WordBits) /\ WordBits \subseteq Nat
    BY <2>1, FS_Interval DEF WordBits
  <2>3. IsFiniteSet(word)
    BY <2>2, FS_Subset
  <2> QED BY <2>2, <2>3, FS_CardinalityType
<1>2. ASSUME NEW bit \in word
      PROVE  IsFiniteSet(From(bit)) /\ Cardinality(From(bit)) \in 1..n
  <2>1. From(bit) \in SUBSET word
    OBVIOUS
  <2>2. bit \in From(bit)
    BY <1>1
  <2> HIDE DEF From
  <2>3. IsFiniteSet(From(bit)) /\ Cardinality(From(bit)) <= n
    BY <1>1, <2>1, FS_Subset
  <2>4. Cardinality(From(bit)) \in Nat
    BY <2>3, FS_CardinalityType
  <2>5. Cardinality(From(bit)) # 0
    BY <2>2, <2>3, FS_EmptySet
  <2> QED BY <1>1, <2>3, <2>4, <2>5
<1>3. ASSUME NEW bit \in word, NEW c \in word, bit < c
      PROVE  Cardinality(From(c)) < Cardinality(From(bit))
  <2>1. From(c) \in SUBSET From(bit) /\ From(c) # From(bit)
    <3>1. \A b \in word : b >= c => b >= bit
      BY <1>1, <1>3
    <3>2. bit \in From(bit) /\ bit \notin From(c)
      BY <1>1, <1>3
    <3> QED BY <3>1, <3>2
  <2>2. /\ IsFiniteSet(From(bit)) /\ Cardinality(From(bit)) \in Nat /\ Cardinality(From(c)) \in Nat
    BY <1>2
  <2> HIDE DEF From
  <2>3. Cardinality(From(c)) <= Cardinality(From(bit)) /\ Cardinality(From(c)) # Cardinality(From(bit))
    BY <2>1, <2>2, FS_Subset
  <2> QED BY <2>2, <2>3
<1>4. rank \in Injection(word, 1..n)
  <2>1. rank \in [word -> 1..n]
    BY <1>2
  <2>2. ASSUME NEW a \in word, NEW c \in word, a # c
        PROVE  rank[a] # rank[c]
    <3>1. rank[a] = Cardinality(From(a)) /\ rank[c] = Cardinality(From(c))
      OBVIOUS
    <3>2. rank[a] \in Nat /\ rank[c] \in Nat
      BY <2>1
    <3> HIDE DEF rank, From
    <3>3. CASE a < c
      <4>1. Cardinality(From(c)) < Cardinality(From(a))
        BY <1>3, <3>3
      <4> QED BY <3>1, <3>2, <4>1
    <3>4. CASE c < a
      <4>1. Cardinality(From(a)) < Cardinality(From(c))
        BY <1>3, <3>4
      <4> QED BY <3>1, <3>2, <4>1
    <3> QED BY <1>1, <2>2, <3>3, <3>4
  <2> HIDE DEF rank, n, From
  <2> QED BY <2>1, <2>2 DEF Injection, IsInjective
<1>5. rank \in Surjection(word, 1..n)
  <2>1. IsFiniteSet(1..n) /\ Cardinality(1..n) = n
    <3>1. IsFiniteSet(1..n) /\ Cardinality(1..n) = IF 1 > n THEN 0 ELSE n - 1 + 1
      BY <1>1, FS_Interval
    <3> QED BY <1>1, <3>1
  <2>2. Cardinality(word) = Cardinality(1..n)
    BY <2>1
  <2> HIDE DEF n, rank
  <2> QED BY <1>4, <2>1, <2>2, FS_Injection
<1>6. ASSUME NEW k \in 1..n
      PROVE  \E bit \in word : Cardinality(From(bit)) = k
  <2>1. \E bit \in word : rank[bit] = k
    <3> HIDE DEF rank
    <3> QED BY <1>5 DEF Surjection
  <2> QED BY <2>1
<1> QED BY <1>1, <1>2, <1>3, <1>6

(* The stack holds the positions of the word, the least on its top.        *)
LEMMA PushedWord ==
  ASSUME NEW word \in SUBSET WordBits, NEW offset \in Nat
  PROVE  LET stack == Pushed(word, offset) IN
         /\ Cardinality(word) \in Nat /\ word # {} => Cardinality(word) > 0
         /\ stack \in Seq(Nat) /\ Len(stack) = Cardinality(word)
         /\ \A j, k \in 1..Cardinality(word) : j < k => stack[k] < stack[j]
         /\ \A k \in 1..Cardinality(word) : \E bit \in word : stack[k] = offset + bit
         /\ \A bit \in word : \E k \in 1..Cardinality(word) : stack[k] = offset + bit
<1> DEFINE n == Cardinality(word)
           Rank(bit) == Cardinality({b \in word : b >= bit})
           At(k) == CHOOSE bit \in word : Rank(bit) = k
           stack == Pushed(word, offset)
<1>1. /\ n \in Nat /\ IsFiniteSet(word)
      /\ \A bit \in word : Rank(bit) \in 1..n
      /\ \A bit, c \in word : bit < c => Rank(c) < Rank(bit)
      /\ \A k \in 1..n : \E bit \in word : Rank(bit) = k
  BY RanksOfWord
<1>2. stack = [k \in 1..n |-> offset + At(k)]
  BY DEF Pushed
<1>3. word \subseteq Nat
  BY WordSizes DEF WordBits
<1>4. n = 0 => word = {}
  BY <1>1, FS_EmptySet
<1> HIDE DEF Rank, n, stack
<1>5. ASSUME NEW k \in 1..n
      PROVE  At(k) \in word /\ Rank(At(k)) = k
  <2>1. \E bit \in word : Rank(bit) = k
    BY <1>1
  <2> QED BY <2>1
<1> HIDE DEF At
<1>6. ASSUME NEW k \in 1..n
      PROVE  stack[k] = offset + At(k) /\ stack[k] \in Nat
  <2>1. At(k) \in Nat
    BY <1>3, <1>5
  <2>2. stack[k] = offset + At(k)
    BY <1>2
  <2> QED BY <2>1, <2>2
<1>7. stack \in Seq(Nat) /\ Len(stack) = n
  <2>1. stack \in [1..n -> Nat]
    BY <1>2, <1>6
  <2> QED BY <1>1, <2>1
<1>8. ASSUME NEW j \in 1..n, NEW k \in 1..n, j < k
      PROVE  stack[k] < stack[j]
  <2>1. /\ At(j) \in word /\ Rank(At(j)) = j /\ At(k) \in word /\ Rank(At(k)) = k
        /\ At(j) \in Nat /\ At(k) \in Nat
    BY <1>3, <1>5
  <2>2. ~(At(j) < At(k))
    BY <1>1, <1>8, <2>1
  <2>3. At(j) # At(k)
    BY <1>8, <2>1
  <2> QED BY <1>6, <2>1, <2>2, <2>3
<1>9. ASSUME NEW bit \in word
      PROVE  \E k \in 1..n : stack[k] = offset + bit
  <2> DEFINE k == Rank(bit)
             c == At(k)
  <2>1. k \in 1..n
    BY <1>1
  <2>2. c \in word /\ Rank(c) = k /\ k \in Nat
    BY <1>5, <2>1
  <2>3. stack[k] = offset + c
    BY <1>6, <2>1
  <2> HIDE DEF c
  <2>4. ~(c < bit) /\ ~(bit < c)
    BY <1>1, <2>2
  <2>5. c \in Nat /\ bit \in Nat
    BY <1>3, <2>2
  <2>6. c = bit
    BY <2>4, <2>5
  <2> QED BY <2>1, <2>3, <2>6
<1> QED BY <1>1, <1>4, <1>5, <1>6, <1>7, <1>8, <1>9 DEF n, stack

----------------------------------------------------------------------------
(* The words of a full block are all of it.                                *)
LEMMA FullBlockWords == num_word_units(kNumTuplesPerBlock) * kNumWordBits = kNumTuplesPerBlock
<1> DEFINE k == kNumTuplesPerBlock
           a == kNumAvxBits
           q == k \div a
<1>1. /\ k \in Nat \ {0} /\ a \in Nat \ {0} /\ kNumWordBits \in Nat \ {0}
      /\ WordsPerAvxUnit \in Nat \ {0} /\ a = WordsPerAvxUnit * kNumWordBits /\ k % a = 0
  BY BlockAssumption, WordSizes
<1>2. k = q * a /\ q \in Nat
  BY <1>1
<1> HIDE DEF q
<1>3. q # 0
  BY <1>1, <1>2
<1>4. (k - 1) \div a = q - 1
  <2>1. k - 1 \in Nat /\ IsDivision(k - 1, a, q - 1, a - 1)
    <3>1. (q - 1) * a = q * a - a /\ q - 1 \in Nat
      BY <1>1, <1>2, <1>3
    <3> QED BY <1>1, <1>2, <3>1 DEF IsDivision
  <2> HIDE DEF k, a
  <2> QED BY <1>1, <2>1, UniqueDivision
<1>5. num_word_units(k) = q * WordsPerAvxUnit
  <2>1. num_word_units(k) = ((k - 1) \div a + 1) * WordsPerAvxUnit
    BY DEF num_word_units, CEIL
  <2> QED BY <1>2, <1>4, <2>1
<1>6. num_word_units(k) * kNumWordBits = q * a
  BY <1>1, <1>2, <1>5
<1> QED BY <1>2, <1>6

----------------------------------------------------------------------------
(* Where the iterator is.                                                  *)
LEMMA Iterating ==
  ASSUME StoreInv, pc \in {"Next", "seek"}
  PROVE  LET bv == bitvectors[Call.bv]
             b == itor.cur_block_id
             w == itor.cur_word_id
             size == IteratedBlock.num
         IN /\ Call.op = "Iterate" /\ Call.bv \in {1, 2} /\ ip <= Len(script)
            /\ IsBitVector(bv) /\ bv.num \in Nat /\ Len(bv.blocks) = NumBlocks(bv.num)
            /\ NumBlocks(bv.num) \in Nat /\ b \in Nat /\ b < NumBlocks(bv.num)
            /\ size \in Nat \ {0} /\ IteratedBlock.data \in Words(size) /\ TailIsClear(IteratedBlock)
            /\ b + 1 < NumBlocks(bv.num) => size = kNumTuplesPerBlock
            /\ b + 1 = NumBlocks(bv.num) => b * kNumTuplesPerBlock + size = bv.num
            /\ b * kNumTuplesPerBlock \in Nat /\ itor.block_offset = b * kNumTuplesPerBlock
            /\ w \in Nat /\ w <= num_word_units(size) /\ num_word_units(size) \in Nat
            /\ w * kNumWordBits \in Nat /\ Cursor \in Nat
            /\ Cursor = b * kNumTuplesPerBlock + w * kNumWordBits
<1> DEFINE bv == bitvectors[Call.bv]
           n == NumBlocks(bv.num)
           b == itor.cur_block_id
           w == itor.cur_word_id
           size == IteratedBlock.num
           k == kNumTuplesPerBlock
<1>1. TypeOK /\ Call.op = "Iterate" /\ ip <= Len(script) /\ TailInv
  BY DEF StoreInv, ClientInv, CallInv
<1>2. Call.bv \in {1, 2} /\ IsBitVector(bv)
  BY <1>1, CallType DEF IsCall, BitVectorCalls, TypeOK
<1>3. /\ bv.num \in Nat /\ n \in Nat /\ Len(bv.blocks) = n
      /\ \A j \in 1..n : /\ bv.blocks[j].num = BlockSize(bv.num, j - 1)
                         /\ bv.blocks[j].num \in 1..k
                         /\ bv.blocks[j].data \in Words(bv.blocks[j].num)
  BY <1>2, VectorFields
<1>4. b \in 0..(n - 1) /\ w \in 0..num_word_units(size) /\ itor.block_offset = b * k
  BY <1>3 DEF StoreInv, IteratorInv
<1>5. b \in Nat /\ b < n /\ b + 1 \in 1..n /\ (b + 1) - 1 = b
  BY <1>3, <1>4
<1>6. /\ size = BlockSize(bv.num, b) /\ size \in 1..k
      /\ IteratedBlock.data \in Words(size)
  BY <1>3, <1>5 DEF IteratedBlock
<1>7. k \in Nat \ {0} /\ size \in Nat \ {0} /\ b * k \in Nat
  BY <1>5, <1>6, BlockCapacity
<1>8. /\ b + 1 < n => size = k
      /\ b + 1 = n => size = bv.num - b * k
  <2>1. \A j \in 1..n : /\ j < n => BlockSize(bv.num, j - 1) = k
                        /\ j = n => BlockSize(bv.num, j - 1) = bv.num - (j - 1) * k
    BY <1>3, BlockSizes
  <2> HIDE DEF n, b, k, size, bv
  <2> QED BY <1>5, <1>6, <2>1
<1>9. b + 1 = n => b * k + size = bv.num
  <2> HIDE DEF n, b, k, size, bv
  <2>1. b * k \in Nat
    BY <1>7
  <2> QED BY <1>3, <1>7, <1>8, <2>1
<1>10. TailIsClear(IteratedBlock)
  BY <1>1, <1>2, <1>5 DEF TailInv, IteratedBlock
<1> HIDE DEF size
<1>11. num_word_units(size) \in Nat
  BY <1>7, WordsOfBlock
<1>12. w \in Nat /\ w <= num_word_units(size)
  BY <1>4, <1>11
<1>13. w * kNumWordBits \in Nat
  BY <1>12, WordSizes
<1>14. Cursor = b * k + w * kNumWordBits /\ Cursor \in Nat
  <2>1. Cursor = b * k + w * kNumWordBits
    BY <1>4 DEF Cursor
  <2> HIDE DEF b, w, k
  <2> QED BY <1>7, <1>13, <2>1
<1> QED BY <1>1, <1>2, <1>3, <1>4, <1>5, <1>6, <1>7, <1>8, <1>9, <1>10, <1>11, <1>12, <1>13, <1>14
        DEF size

(* The positions of the word at the cursor.                                *)
LEMMA CursorWord ==
  ASSUME StoreInv, pc \in {"Next", "seek"}, ~WordsExhausted, NEW bit \in WordBits
  PROVE  /\ itor.cur_word_id \in WordIds(IteratedBlock.num)
         /\ Cursor + bit \in Selected(bitvectors[Call.bv])
              <=> bit \in IteratedBlock.data[itor.cur_word_id]
<1> DEFINE bv == bitvectors[Call.bv]
           n == NumBlocks(bv.num)
           b == itor.cur_block_id
           w == itor.cur_word_id
           size == IteratedBlock.num
           k == kNumTuplesPerBlock
           data == IteratedBlock.data
           p == w * kNumWordBits + bit
           units == num_word_units(size)
<1>1. /\ IsBitVector(bv) /\ bv.num \in Nat /\ n \in Nat /\ b \in Nat /\ b < n
      /\ size \in Nat \ {0} /\ data \in Words(size) /\ TailIsClear(IteratedBlock)
      /\ b + 1 < n => size = k
      /\ b + 1 = n => b * k + size = bv.num
      /\ b * k \in Nat /\ w \in Nat /\ units \in Nat /\ w * kNumWordBits \in Nat
      /\ Cursor \in Nat /\ Cursor = b * k + w * kNumWordBits
  BY Iterating
<1>2. w < units /\ w \in WordIds(size)
  <2>1. ~(w >= units)
    BY DEF WordsExhausted
  <2> HIDE DEF units
  <2>2. w < units
    BY <1>1, <2>1
  <2> QED BY <1>1, <2>2 DEF WordIds, units
<1>3. bit \in Nat /\ bit < kNumWordBits /\ kNumWordBits \in Nat
  BY WordSizes DEF WordBits
<1> HIDE DEF bv, n, b, w, size, data, units, k
<1>4. p \in Nat /\ Cursor + bit = b * k + p
  BY <1>1, <1>3
<1>5. GetBit(data, p) <=> bit \in data[w]
  BY <1>1, BitOfPosition
<1>6. (\A x \in data[w] : w * kNumWordBits + x < size)
  BY <1>1, <1>2 DEF TailIsClear, data, size
<1> HIDE DEF p
<1>7. CASE p < size
  <2>1. size <= k /\ b * k + p < bv.num
    <3>1. b + 1 \in 1..n /\ (b + 1) - 1 = b
      BY <1>1
    <3>2. \A j \in 1..n : /\ bv.blocks[j].num \in 1..kNumTuplesPerBlock
                         /\ bv.blocks[j].num = BlockSize(bv.num, j - 1)
      BY <1>1, VectorFields DEF n
    <3>3. size = bv.blocks[b + 1].num
      BY DEF size, bv, b, IteratedBlock
    <3>4. size \in 1..k
      BY <3>1, <3>2, <3>3 DEF k
    <3>5. size = BlockSize(bv.num, b)
      BY <3>1, <3>2, <3>3
    <3>6. size <= bv.num - b * k
      BY <1>1, <3>5, BlockCapacity DEF BlockSize, Min2, k
    <3> QED BY <1>1, <1>4, <1>7, <3>4, <3>6, BlockCapacity DEF k
  <2>2. p < kNumTuplesPerBlock
    BY <1>1, <1>4, <1>7, <2>1, BlockCapacity DEF k
  <2>3. block_id(b * k + p) = b /\ pos_in_block(b * k + p) = p
    BY <1>1, <1>4, <2>2, PlaceOf DEF k
  <2>4. b * k + p \in 0..(bv.num - 1)
    BY <1>1, <1>4, <2>1
  <2>5. b * k + p \in Selected(bv) <=> GetBit(bv.blocks[b + 1].data, p)
    <3> DEFINE x == b * k + p
    <3>1. x \in Selected(bv) <=> GetBit(bv.blocks[block_id(x) + 1].data, pos_in_block(x))
      BY <1>1, <2>4, SelectedBits
    <3> QED BY <2>3, <3>1
  <2>6. bv.blocks[b + 1].data = data
    BY DEF data, bv, b, IteratedBlock
  <2> QED BY <1>2, <1>4, <1>5, <2>5, <2>6 DEF bv, data, w, size
<1>8. CASE ~(p < size)
  <2>1. bit \notin data[w]
    BY <1>6, <1>8 DEF p
  <2>2. b + 1 = n
    <3> SUFFICES ASSUME b + 1 # n
                 PROVE  FALSE
      OBVIOUS
    <3>1. size = k
      BY <1>1
    <3>2. units * kNumWordBits = k
      BY <3>1, FullBlockWords DEF units, k
    <3>3. (w + 1) * kNumWordBits <= units * kNumWordBits
      BY <1>1, <1>2, <1>3
    <3>4. (w + 1) * kNumWordBits = w * kNumWordBits + kNumWordBits
      BY <1>1, <1>3
    <3>5. p = w * kNumWordBits + bit
      BY DEF p
    <3> DEFINE m == w * kNumWordBits
    <3> HIDE DEF m
    <3>6. m \in Nat /\ p = m + bit /\ m + kNumWordBits <= k
      BY <1>1, <3>2, <3>3, <3>4, <3>5 DEF m
    <3> QED BY <1>1, <1>3, <1>8, <3>1, <3>6
  <2>3. b * k + p >= bv.num
    BY <1>1, <1>4, <1>8, <2>2
  <2>4. b * k + p \notin Selected(bv)
    <3>1. Selected(bv) \subseteq 0..(bv.num - 1)
      BY DEF Selected
    <3> QED BY <1>1, <1>4, <2>3, <3>1
  <2> QED BY <1>2, <1>4, <2>1, <2>4 DEF bv, data, w, size
<1> QED BY <1>7, <1>8

(* Behind the last word of a block.                                        *)
LEMMA CursorBehind ==
  ASSUME StoreInv, pc \in {"Next", "seek"}, WordsExhausted
  PROVE  LET bv == bitvectors[Call.bv]
             b == itor.cur_block_id
         IN /\ b + 1 < NumBlocks(bv.num) => Cursor = (b + 1) * kNumTuplesPerBlock
            /\ b + 1 = NumBlocks(bv.num) => Cursor >= bv.num
<1> DEFINE bv == bitvectors[Call.bv]
           n == NumBlocks(bv.num)
           b == itor.cur_block_id
           w == itor.cur_word_id
           size == IteratedBlock.num
           k == kNumTuplesPerBlock
           units == num_word_units(size)
<1>1. /\ bv.num \in Nat /\ n \in Nat /\ b \in Nat /\ b < n
      /\ size \in Nat \ {0}
      /\ b + 1 < n => size = k
      /\ b + 1 = n => b * k + size = bv.num
      /\ b * k \in Nat /\ w \in Nat /\ w <= units /\ units \in Nat /\ w * kNumWordBits \in Nat
      /\ Cursor \in Nat /\ Cursor = b * k + w * kNumWordBits
  BY Iterating
<1>2. w = units
  <2>1. w >= units
    BY DEF WordsExhausted
  <2> HIDE DEF w, units
  <2> QED BY <1>1, <2>1
<1>3. size <= units * kNumWordBits
  <2> HIDE DEF size
  <2> QED BY <1>1, WordsOfBlock DEF units
<1>4. size = k => units * kNumWordBits = k
  BY FullBlockWords
<1> HIDE DEF bv, n, b, w, size, units
<1>5. k \in Nat /\ (b + 1) * k = b * k + k
  <2>1. k \in Nat
    BY BlockCapacity
  <2> QED BY <1>1, <2>1
<1>6. w * kNumWordBits = units * kNumWordBits
  BY <1>2
<1> DEFINE m == w * kNumWordBits
           o == b * k
<1>7. m \in Nat /\ size <= m /\ (size = k => m = k) /\ o \in Nat /\ Cursor = o + m
  BY <1>1, <1>3, <1>4, <1>6
<1> HIDE DEF m, o
<1>8. b + 1 < n => Cursor = (b + 1) * k
  BY <1>1, <1>5, <1>7 DEF o
<1>9. b + 1 = n => Cursor >= bv.num
  <2>1. b + 1 = n => o + size = bv.num
    BY <1>1 DEF o
  <2> QED BY <1>1, <1>7, <2>1
<1> QED BY <1>8, <1>9 DEF bv, n, b

----------------------------------------------------------------------------
(* An element more.                                                        *)
LEMMA RangeOfAppend ==
  ASSUME NEW T, NEW s \in Seq(T), NEW x \in T
  PROVE  /\ Range(Append(s, x)) = Range(s) \cup {x} /\ Append(s, x) \in Seq(T)
         /\ Range(s) \subseteq T
<1> DEFINE n == Len(s)
           a == Append(s, x)
<1>1. n \in Nat /\ DOMAIN s = 1..n /\ \A k \in 1..n : s[k] \in T
  OBVIOUS
<1>2. a \in Seq(T) /\ DOMAIN a = 1..(n + 1) /\ a[n + 1] = x /\ \A k \in 1..n : a[k] = s[k]
  BY <1>1
<1> HIDE DEF n, a
<1>3. Range(s) = {s[k] : k \in 1..n} /\ Range(a) = {a[k] : k \in 1..(n + 1)}
  BY <1>1, <1>2 DEF Range
<1>4. Range(a) = Range(s) \cup {x}
  <2>1. 1..(n + 1) = (1..n) \cup {n + 1}
    BY <1>1
  <2> QED BY <1>2, <1>3, <2>1
<1>5. Range(s) \subseteq T
  BY <1>1, <1>3
<1> QED BY <1>2, <1>4, <1>5 DEF a

(* Within an iteration the store stays as it is, but for the result.       *)
LEMMA StepsOfIterator ==
  ASSUME StoreInv, pc \in {"Next", "seek"}, pc' \in {"Next", "seek"},
         UNCHANGED <<script, ip, columns, bitvectors, file, file_pos>>
  PROVE  /\ UNCHANGED <<AllValues, AllNums, AllSelected, AllWritten, AllRead>>
         /\ Undone = {} /\ Undone' = {} /\ Call' = Call
         /\ Store!Call = Call /\ AllSelected[Call.bv] = Selected(bitvectors[Call.bv])
         /\ Selected(bitvectors[Call.bv]) \subseteq Nat
         /\ Selected(bitvectors[Call.bv])' = Selected(bitvectors[Call.bv])
<1>1. UNCHANGED <<AllValues, AllNums, AllSelected, AllWritten, AllRead>>
  BY KeptStore
<1>2. Undone = {} /\ Undone' = {}
  BY DEF Undone
<1>3. Call' = Call /\ Store!Call = Call
  BY DEF Call, Store!Call
<1>4. Call.bv \in {1, 2} /\ bitvectors[Call.bv].num \in Nat /\ DOMAIN bitvectors = {1, 2}
  BY Iterating DEF StoreInv, ClientInv, TypeOK
<1>5. AllSelected[Call.bv] = Selected(bitvectors[Call.bv])
  BY <1>4 DEF AllSelected
<1>6. Selected(bitvectors[Call.bv]) \subseteq Nat
  BY <1>4 DEF Selected
<1>7. Selected(bitvectors[Call.bv])' = Selected(bitvectors[Call.bv])
  BY <1>3 DEF Selected, IsSet, GetBit, block_id, pos_in_block
<1> QED BY <1>1, <1>2, <1>3, <1>5, <1>6, <1>7

(* Next returns the least of the positions it has not returned.            *)
LEMMA NextPositionStep ==
  ASSUME StoreInv, pc \in {"Next", "seek"}, pc' \in {"Next", "seek"},
         UNCHANGED <<script, ip, columns, bitvectors, file, file_pos>>,
         NEW top \in Selected(bitvectors[Call.bv]) \ Range(result),
         \A y \in Selected(bitvectors[Call.bv]) \ Range(result) : top <= y,
         result' = Append(result, top)
  PROVE  Store!NextPosition
<1> DEFINE left == Selected(bitvectors[Call.bv]) \ Range(result)
<1>1. /\ UNCHANGED <<AllValues, AllNums, AllSelected, AllWritten, AllRead>>
      /\ Undone = {} /\ Undone' = {} /\ Store!Call = Call
      /\ AllSelected[Call.bv] = Selected(bitvectors[Call.bv])
      /\ Selected(bitvectors[Call.bv]) \subseteq Nat
  BY StepsOfIterator
<1>2. Call.op = "Iterate"
  BY Iterating
<1>3. left \subseteq Nat /\ top \in left /\ \A y \in left : top <= y
  BY <1>1
<1>4. AllSelected[Store!Call.bv] \ Store!Range(result) = left
  BY <1>1 DEF Store!Range, Range
<1> HIDE DEF left
<1>5. \A x \in left : (\A y \in left : x <= y) => x = top
  BY <1>3
<1>6. top = CHOOSE x \in left : \A y \in left : x <= y
  BY <1>3, <1>5
<1>7. result' = Append(result, CHOOSE x \in left : \A y \in left : x <= y) /\ left # {}
  BY <1>3, <1>6
<1> QED BY <1>1, <1>2, <1>4, <1>7 DEF Store!NextPosition

----------------------------------------------------------------------------
(* The constructor: nothing is set before the cursor.                      *)
LEMMA NewIteratorMaps ==
  ASSUME StoreInv, ClientFitsStore, NewIterator
  PROVE  Store!Begin /\ IteratorInv'
<1>1. /\ TypeOK /\ Call.op = "Iterate" /\ pc = "call" /\ ip <= Len(script) /\ IsCall(Call)
  BY BetweenCalls DEF NewIterator, StoreInv
<1>2. /\ itor' = [cur_block_id |-> 0, cur_word_id |-> 0, block_offset |-> 0, stack |-> <<None>>]
      /\ result' = <<>> /\ pc' = "Next"
      /\ UNCHANGED <<script, ip, columns, bitvectors, file, file_pos>>
  BY DEF NewIterator, store
<1>3. UNCHANGED <<AllValues, AllNums, AllSelected, AllWritten, AllRead>>
  BY <1>2, KeptStore
<1>4. Undone' = {}
  BY <1>2 DEF Undone
<1>5. Store!Call = Call /\ Call' = Call
  BY <1>2 DEF Store!Call, Call
<1>6. Store!Begin
  <2>1. Store!Positions = {}
    BY <1>1, <1>5 DEF Store!Positions
  <2> QED BY <1>1, <1>2, <1>3, <1>4, <1>5, <2>1 DEF Store!Begin
<1>7. IteratorInv'
  <2> DEFINE bv == bitvectors[Call.bv]
  <2>1. /\ Call.bv \in {1, 2} /\ IsBitVector(bv) /\ bv.num > 0
    BY <1>1 DEF IsCall, BitVectorCalls, TypeOK, ClientFitsStore, FitsStore
  <2>2. /\ bv.num \in Nat /\ NumBlocks(bv.num) \in Nat /\ Len(bv.blocks) = NumBlocks(bv.num)
        /\ \A k \in 1..NumBlocks(bv.num) : bv.blocks[k].num \in 1..kNumTuplesPerBlock
    BY <2>1, VectorFields
  <2>3. 1 \in 1..NumBlocks(bv.num)
    <3>1. 0 \in Nat /\ 0 * kNumTuplesPerBlock < bv.num
      BY <2>1, BlockCapacity
    <3>2. 0 + 1 \in 1..NumBlocks(bv.num)
      BY <2>2, <3>1, BlockSizes
    <3> QED BY <3>2
  <2> DEFINE size == bv.blocks[1].num
  <2>4. size \in Nat \ {0}
    BY <2>2, <2>3, BlockCapacity
  <2>5. num_word_units(size) \in Nat
    <3> HIDE DEF size
    <3> QED BY <2>4, WordsOfBlock
  <2>6. bv' = bv /\ IteratedBlock'.num = size
    BY <1>2, <1>5 DEF IteratedBlock
  <2>7. Selected(bv)' = Selected(bv) /\ Selected(bv) \subseteq Nat
    BY <1>2, <1>5, <2>2 DEF Selected, IsSet, GetBit, block_id, pos_in_block
  <2>8. /\ itor'.cur_block_id = 0 /\ itor'.cur_word_id = 0 /\ itor'.block_offset = 0
        /\ itor'.stack = <<None>> /\ Len(itor'.stack) = 1
    BY <1>2
  <2>9. Cursor' = 0
    BY <2>8, WordSizes DEF Cursor
  <2>10. Waiting' = {} /\ Range(result)' = {}
    BY <1>2, <2>8 DEF Waiting, Range
  <2>11. itor'.stack \in Seq(Int) /\ itor'.stack # <<>> /\ result' \in Seq(Nat)
    BY <1>2, <2>8 DEF None
  <2>12. 0 \in 0..(Len(bv.blocks) - 1) /\ 0 \in 0..num_word_units(size)
    BY <2>2, <2>3, <2>5
  <2>13. {x \in Selected(bv) : x < 0} = {}
    BY <2>7
  <2>14. 0 = 0 * kNumTuplesPerBlock
    BY BlockCapacity
  <2>15. \A j, k \in 1..(Len(itor'.stack) - 1) : j < k => itor'.stack[k] < itor'.stack[j]
    BY <2>8
  <2>16. Range(result)' \cup Waiting' = {x \in Selected(bv)' : x < Cursor'}
    BY <2>7, <2>9, <2>10, <2>13
  <2>17. DOMAIN itor' = {"cur_block_id", "cur_word_id", "block_offset", "stack"}
    BY <1>2
  <2> QED BY <1>2, <2>6, <2>8, <2>10, <2>11, <2>12, <2>14, <2>15, <2>16, <2>17 DEF IteratorInv
<1> QED BY <1>6, <1>7

(* Next pops a position, the least that waits.                             *)
LEMMA NextPopsMaps ==
  ASSUME StoreInv, NextPops
  PROVE  (Store!NextPosition \/ UNCHANGED Store!vars) /\ IteratorInv'
<1> DEFINE bv == bitvectors[Call.bv]
           s == itor.stack
           m == Len(s) - 1
           new == SubSeq(s, 1, m)
           S == Selected(bv)
<1>1. /\ pc = "Next" /\ itor' = [itor EXCEPT !.stack = new]
      /\ IF new = <<>> THEN pc' = "seek" /\ result' = result
                       ELSE pc' = "Next" /\ result' = Append(result, new[Len(new)])
      /\ UNCHANGED <<script, ip, columns, bitvectors, file, file_pos>>
  BY DEF NextPops, store
<1>2. /\ itor.cur_block_id \in 0..(Len(bv.blocks) - 1)
      /\ itor.cur_word_id \in 0..num_word_units(IteratedBlock.num)
      /\ itor.block_offset = itor.cur_block_id * kNumTuplesPerBlock
      /\ s \in Seq(Int) /\ result \in Seq(Nat) /\ s # <<>>
      /\ \A j, k \in 1..m : j < k => s[k] < s[j]
      /\ \A x \in Range(result) : \A y \in Waiting : x < y
      /\ Range(result) \cup Waiting = {x \in S : x < Cursor}
  BY <1>1 DEF StoreInv, IteratorInv
<1>3. /\ UNCHANGED <<AllValues, AllNums, AllSelected, AllWritten, AllRead>>
      /\ Undone = {} /\ Undone' = {} /\ Call' = Call /\ S \subseteq Nat /\ S' = S
  BY <1>1, StepsOfIterator
<1>4. /\ m \in Nat /\ Len(s) = m + 1 /\ new \in Seq(Int) /\ Len(new) = m
      /\ \A k \in 1..m : new[k] = s[k] /\ s[k] \in Int
  <2>1. Len(s) \in Nat /\ Len(s) # 0
    BY <1>2
  <2>2. /\ m \in Nat /\ Len(s) = m + 1 /\ \A k \in 1..m : s[k] \in Int
    BY <1>2, <2>1
  <2>3. /\ new \in Seq(Int) /\ Len(new) = m /\ \A k \in 1..m : new[k] = s[k]
    BY <1>2, <2>1
  <2> QED BY <2>2, <2>3
<1>5. /\ itor'.cur_block_id = itor.cur_block_id /\ itor'.cur_word_id = itor.cur_word_id
      /\ itor'.block_offset = itor.block_offset /\ itor'.stack = new
      /\ DOMAIN itor' = {"cur_block_id", "cur_word_id", "block_offset", "stack"}
  <2>1. DOMAIN itor = {"cur_block_id", "cur_word_id", "block_offset", "stack"}
    BY DEF StoreInv, IteratorInv
  <2> HIDE DEF new
  <2> QED BY <1>1, <2>1
<1>6. bv' = bv /\ IteratedBlock' = IteratedBlock /\ Cursor' = Cursor
  BY <1>1, <1>3, <1>5 DEF IteratedBlock, Cursor
<1>7. Waiting = {s[k] : k \in 1..m}
  BY DEF Waiting
<1>8. CASE m = 0
  <2>1. new = <<>>
    <3> HIDE DEF new, m, S
    <3> QED BY <1>4, <1>8
  <2>2. pc' = "seek" /\ result' = result /\ itor'.stack = <<>>
    BY <1>1, <1>5, <2>1
  <2>3. Waiting = {} /\ Waiting' = {}
    <3>1. Waiting = {}
      BY <1>7, <1>8
    <3>2. Len(itor'.stack) = 0
      BY <2>2
    <3>3. {itor'.stack[k] : k \in 1..(Len(itor'.stack) - 1)} = {}
      BY <3>2
    <3> QED BY <3>1, <3>3 DEF Waiting
  <2>4. Range(result)' = Range(result)
    BY <2>2 DEF Range
  <2>5. UNCHANGED Store!vars
    <3>1. script' = script /\ ip' = ip /\ (pc' # "call") = (pc # "call")
      BY <1>1, <2>2
    <3> QED BY <1>3, <2>2, <3>1 DEF Store!vars
  <2>6. IteratorInv'
    <3>1. \A j, k \in 1..(Len(itor'.stack) - 1) : j < k => itor'.stack[k] < itor'.stack[j]
      BY <2>2
    <3>2. itor'.stack \in Seq(Int)
      BY <2>2
    <3> HIDE DEF new, S
    <3> QED BY <1>2, <1>3, <1>5, <1>6, <2>2, <2>3, <2>4, <3>1, <3>2 DEF IteratorInv, S
  <2> QED BY <2>5, <2>6
<1>9. CASE m # 0
  <2> DEFINE top == s[m]
             left == S \ Range(result)
  <2>1. new # <<>> /\ new[Len(new)] = top /\ m \in 1..m /\ top \in Int
    <3>1. m \in 1..m
      <4> HIDE DEF m
      <4> QED BY <1>4, <1>9
    <3>2. new # <<>> /\ new[m] = top /\ top \in Int
      <4> HIDE DEF m, s, new
      <4> QED BY <1>4, <1>9, <3>1
    <3> QED BY <1>4, <3>1, <3>2
  <2>2. pc' = "Next" /\ result' = Append(result, top)
    BY <1>1, <2>1
  <2>3. top \in Waiting /\ top \in S /\ top \notin Range(result) /\ top < Cursor
    <3>1. top \in Waiting
      BY <1>7, <2>1
    <3>2. top \in {x \in S : x < Cursor}
      BY <1>2, <3>1
    <3>3. top \notin Range(result)
      BY <1>2, <2>1, <3>1
    <3> QED BY <3>1, <3>2, <3>3
  <2>4. ASSUME NEW k \in 1..m
        PROVE  top <= s[k]
    <3> HIDE DEF m, s, new, S
    <3>1. k \in Nat /\ k <= m /\ (k < m => s[m] < s[k]) /\ s[m] \in Int
      BY <1>2, <1>4, <2>1
    <3> QED BY <1>4, <3>1
  <2> HIDE DEF top, S, new
  <2>5. \A y \in left : top <= y
    <3> SUFFICES ASSUME NEW y \in left
                 PROVE  top <= y
      OBVIOUS
    <3>1. y \in S /\ y \notin Range(result) /\ y \in Nat /\ Cursor \in Nat
      BY <1>1, <1>3, Iterating
    <3>2. CASE y < Cursor
      <4>1. y \in Waiting
        BY <1>2, <3>1, <3>2 DEF S
      <4>2. PICK k \in 1..m : y = s[k]
        BY <1>7, <4>1
      <4> QED BY <2>4, <4>2
    <3>3. CASE ~(y < Cursor)
      BY <2>1, <2>3, <3>1, <3>3
    <3> QED BY <3>2, <3>3
  <2>6. Store!NextPosition
    <3>1. top \in left
      BY <2>3
    <3> QED BY <1>1, <2>2, <2>5, <3>1, NextPositionStep DEF S
  <2>7. /\ Range(result)' = Range(result) \cup {top} /\ result' \in Seq(Nat)
    <3>1. top \in Nat /\ result \in Seq(Nat)
      BY <1>2, <1>3, <2>3
    <3>2. /\ Range(Append(result, top)) = Range(result) \cup {top}
          /\ Append(result, top) \in Seq(Nat)
      BY <3>1, RangeOfAppend
    <3>3. Range(result)' = Range(result')
      BY DEF Range
    <3> QED BY <2>2, <3>2, <3>3
  <2>8. Len(itor'.stack) = m /\ Waiting' = {s[k] : k \in 1..(m - 1)}
    <3>1. Len(itor'.stack) = m
      BY <1>4, <1>5
    <3>2. Waiting' = {itor'.stack[k] : k \in 1..(m - 1)}
      BY <3>1 DEF Waiting
    <3>3. \A k \in 1..(m - 1) : itor'.stack[k] = s[k]
      BY <1>4, <1>5
    <3> QED BY <3>1, <3>2, <3>3
  <2>9. Waiting = Waiting' \cup {top}
    <3>1. 1..m = (1..(m - 1)) \cup {m}
      <4> HIDE DEF m
      <4> QED BY <1>4, <1>9
    <3> QED BY <1>7, <2>8, <3>1 DEF top
  <2>10. Range(result)' \cup Waiting' = {x \in S : x < Cursor}
    BY <1>2, <2>7, <2>9 DEF S
  <2>11. ASSUME NEW x \in Range(result)', NEW y \in Waiting'
         PROVE  x < y
    <3>1. y \in Waiting
      BY <2>9
    <3>2. PICK k \in 1..(m - 1) : y = s[k]
      BY <2>8
    <3>3. top < y
      <4>1. k \in 1..m /\ m \in 1..m /\ k < m
        BY <1>4, <1>9
      <4> QED BY <1>2, <3>2, <4>1 DEF top
    <3>4. CASE x \in Range(result)
      BY <1>2, <3>1, <3>4
    <3>5. CASE x = top
      BY <3>3, <3>5
    <3> QED BY <2>7, <3>4, <3>5
  <2>12. \A j, k \in 1..(Len(itor'.stack) - 1) : j < k => itor'.stack[k] < itor'.stack[j]
    <3> SUFFICES ASSUME NEW j \in 1..(m - 1), NEW k \in 1..(m - 1), j < k
                 PROVE  itor'.stack[k] < itor'.stack[j]
      BY <2>8
    <3>1. j \in 1..m /\ k \in 1..m
      BY <1>4
    <3> QED BY <1>2, <1>4, <1>5, <3>1
  <2>13. itor'.stack \in Seq(Int) /\ itor'.stack # <<>>
    BY <1>4, <1>5, <2>1
  <2>14. IteratorInv'
    BY <1>2, <1>3, <1>5, <1>6, <2>2, <2>7, <2>10, <2>11, <2>12, <2>13 DEF IteratorInv, S
  <2> QED BY <2>6, <2>14
<1> QED BY <1>4, <1>8, <1>9

----------------------------------------------------------------------------
(* What is set in the word at the cursor is what is set before the next.   *)
LEMMA PushedPositions ==
  ASSUME StoreInv, pc \in {"Next", "seek"}, ~WordsExhausted
  PROVE  LET word == IteratedBlock.data[itor.cur_word_id]
             n == Cardinality(word)
             stack == Pushed(word, Cursor)
             S == Selected(bitvectors[Call.bv])
         IN /\ n \in Nat /\ (word # {} => n > 0)
            /\ stack \in Seq(Nat) /\ Len(stack) = n
            /\ \A j, k \in 1..n : j < k => stack[k] < stack[j]
            /\ \A k \in 1..n : stack[k] \in S /\ stack[k] >= Cursor /\ stack[k] < Cursor + kNumWordBits
            /\ \A x \in S : x >= Cursor /\ x < Cursor + kNumWordBits =>
                 \E k \in 1..n : stack[k] = x
            /\ word = {} => n = 0
<1> DEFINE word == IteratedBlock.data[itor.cur_word_id]
           n == Cardinality(word)
           stack == Pushed(word, Cursor)
           S == Selected(bitvectors[Call.bv])
<1>1. 0 \in WordBits /\ kNumWordBits \in Nat /\ WordBits = 0..(kNumWordBits - 1)
  BY WordSizes DEF WordBits
<1>2. itor.cur_word_id \in WordIds(IteratedBlock.num)
  BY <1>1, CursorWord
<1>3. /\ IteratedBlock.data \in Words(IteratedBlock.num) /\ Cursor \in Nat
  BY Iterating
<1>4. word \in SUBSET WordBits
  BY <1>2, <1>3 DEF Words
<1>5. \A bit \in WordBits : Cursor + bit \in S <=> bit \in word
  BY CursorWord
<1>6. S \subseteq Nat
  <2>1. bitvectors[Call.bv].num \in Nat
    BY Iterating
  <2> QED BY <2>1 DEF Selected
<1>7. word = {} => n = 0
  BY FS_EmptySet
<1>8. /\ n \in Nat /\ (word # {} => n > 0)
      /\ stack \in Seq(Nat) /\ Len(stack) = n
      /\ \A j, k \in 1..n : j < k => stack[k] < stack[j]
      /\ \A k \in 1..n : \E bit \in word : stack[k] = Cursor + bit
      /\ \A bit \in word : \E k \in 1..n : stack[k] = Cursor + bit
  <2> HIDE DEF word
  <2>1. word \in SUBSET WordBits
    BY <1>4
  <2>2. n \in Nat
    BY <2>1, RanksOfWord
  <2>3. /\ (word # {} => n > 0)
        /\ stack \in Seq(Nat) /\ Len(stack) = n
        /\ \A j, k \in 1..n : j < k => stack[k] < stack[j]
        /\ \A k \in 1..n : \E bit \in word : stack[k] = Cursor + bit
        /\ \A bit \in word : \E k \in 1..n : stack[k] = Cursor + bit
    BY <1>3, <2>1, <2>2, PushedWord
  <2> QED BY <2>2, <2>3
<1> HIDE DEF word, n, stack, S
<1>9. ASSUME NEW k \in 1..n
      PROVE  stack[k] \in S /\ stack[k] >= Cursor /\ stack[k] < Cursor + kNumWordBits
  <2>1. PICK bit \in word : stack[k] = Cursor + bit
    BY <1>8
  <2>2. bit \in WordBits /\ bit \in Nat /\ bit < kNumWordBits
    BY <1>1, <1>4
  <2> QED BY <1>1, <1>3, <1>5, <2>1, <2>2
<1>10. ASSUME NEW x \in S, x >= Cursor, x < Cursor + kNumWordBits
       PROVE  \E k \in 1..n : stack[k] = x
  <2>1. x \in Nat
    BY <1>6
  <2>2. PICK bit \in WordBits : x = Cursor + bit
    <3>1. x - Cursor \in WordBits /\ x = Cursor + (x - Cursor)
      BY <1>1, <1>3, <1>10, <2>1
    <3> QED BY <3>1
  <2>3. bit \in word
    BY <1>5, <2>2
  <2> QED BY <1>8, <2>2, <2>3
<1> QED BY <1>7, <1>8, <1>9, <1>10 DEF word, n, stack, S

(* A word of zeros has no position to return.                              *)
LEMMA SkipZeroWordMaps ==
  ASSUME StoreInv, SkipZeroWord
  PROVE  UNCHANGED Store!vars /\ IteratorInv'
<1> DEFINE bv == bitvectors[Call.bv]
           S == Selected(bv)
           w == itor.cur_word_id
           word == IteratedBlock.data[w]
<1>1. /\ pc = "seek" /\ ~WordsExhausted /\ word = {}
      /\ itor' = [itor EXCEPT !.cur_word_id = ConsideredWord(word, @)]
      /\ UNCHANGED <<script, ip, pc, columns, bitvectors, file, file_pos, result>>
  BY DEF SkipZeroWord, store
<1>2. /\ itor.cur_block_id \in 0..(Len(bv.blocks) - 1)
      /\ itor.block_offset = itor.cur_block_id * kNumTuplesPerBlock
      /\ itor.stack = <<>> /\ result \in Seq(Nat)
      /\ \A x \in Range(result) : \A y \in Waiting : x < y
      /\ Range(result) \cup Waiting = {x \in S : x < Cursor}
      /\ DOMAIN itor = {"cur_block_id", "cur_word_id", "block_offset", "stack"}
  BY <1>1 DEF StoreInv, IteratorInv
<1>3. /\ UNCHANGED <<AllValues, AllNums, AllSelected, AllWritten, AllRead>>
      /\ Undone = {} /\ Undone' = {} /\ Call' = Call /\ S \subseteq Nat /\ S' = S
  BY <1>1, StepsOfIterator
<1>4. /\ itor'.cur_block_id = itor.cur_block_id /\ itor'.cur_word_id = w + 1
      /\ itor'.block_offset = itor.block_offset /\ itor'.stack = <<>>
      /\ DOMAIN itor' = {"cur_block_id", "cur_word_id", "block_offset", "stack"}
  BY <1>1, <1>2 DEF ConsideredWord
<1>5. /\ w \in Nat /\ w <= num_word_units(IteratedBlock.num)
      /\ num_word_units(IteratedBlock.num) \in Nat /\ w * kNumWordBits \in Nat /\ Cursor \in Nat
      /\ itor.block_offset \in Nat
  BY <1>1, Iterating
<1>6. w + 1 \in 0..num_word_units(IteratedBlock.num)
  <2>1. ~(w >= num_word_units(IteratedBlock.num))
    BY <1>1 DEF WordsExhausted
  <2> HIDE DEF w
  <2> QED BY <1>5, <2>1
<1>7. bv' = bv /\ IteratedBlock' = IteratedBlock
  BY <1>1, <1>3, <1>4 DEF IteratedBlock
<1>8. Cursor' = Cursor + kNumWordBits
  <2>1. (w + 1) * kNumWordBits = w * kNumWordBits + kNumWordBits /\ kNumWordBits \in Nat
    BY <1>5, WordSizes
  <2> DEFINE m == w * kNumWordBits
  <2>2. Cursor' = itor.block_offset + (w + 1) * kNumWordBits /\ Cursor = itor.block_offset + m
    BY <1>4, Zenon DEF Cursor
  <2> HIDE DEF m, w
  <2> QED BY <1>5, <2>1, <2>2 DEF m
<1>9. {x \in S : x < Cursor} = {x \in S : x < Cursor + kNumWordBits}
  <2> DEFINE n == Cardinality(word)
  <2>1. /\ n = 0
        /\ \A x \in S : x >= Cursor /\ x < Cursor + kNumWordBits =>
             \E k \in 1..n : Pushed(word, Cursor)[k] = x
    BY <1>1, PushedPositions
  <2>2. \A x \in S : ~(x >= Cursor /\ x < Cursor + kNumWordBits)
    BY <2>1
  <2>3. kNumWordBits \in Nat
    BY WordSizes
  <2> HIDE DEF n, S
  <2>4. ASSUME NEW x \in S
        PROVE  x < Cursor <=> x < Cursor + kNumWordBits
    <3>1. x \in Nat /\ Cursor \in Nat /\ ~(x >= Cursor /\ x < Cursor + kNumWordBits)
      BY <1>3, <1>5, <2>2
    <3> QED BY <2>3, <3>1
  <2> QED BY <2>4
<1>10. Waiting = {} /\ Waiting' = {}
  <2>1. Len(itor.stack) = 0 /\ Len(itor'.stack) = 0
    BY <1>2, <1>4
  <2>2. /\ {itor.stack[k] : k \in 1..(Len(itor.stack) - 1)} = {}
        /\ {itor'.stack[k] : k \in 1..(Len(itor'.stack) - 1)} = {}
    BY <2>1
  <2> QED BY <2>2 DEF Waiting
<1>11. Range(result)' = Range(result)
  BY <1>1 DEF Range
<1>12. UNCHANGED Store!vars
  <2>1. (pc' # "call") = (pc # "call")
    BY <1>1
  <2> QED BY <1>1, <1>3, <2>1 DEF Store!vars
<1>13. IteratorInv'
  <2>1. \A j, k \in 1..(Len(itor'.stack) - 1) : j < k => itor'.stack[k] < itor'.stack[j]
    BY <1>4
  <2>2. itor'.stack \in Seq(Int)
    BY <1>4
  <2> HIDE DEF S, w
  <2> QED BY <1>1, <1>2, <1>3, <1>4, <1>6, <1>7, <1>8, <1>9, <1>10, <1>11, <2>1, <2>2
          DEF IteratorInv, S
<1> QED BY <1>12, <1>13

(* The first position of the word that is pushed is returned at once.      *)
LEMMA PushWordMaps ==
  ASSUME StoreInv, PushWord
  PROVE  Store!NextPosition /\ IteratorInv'
<1> DEFINE bv == bitvectors[Call.bv]
           S == Selected(bv)
           w == itor.cur_word_id
           word == IteratedBlock.data[w]
           n == Cardinality(word)
           s == Pushed(word, Cursor)
           top == s[n]
           left == S \ Range(result)
<1>1. /\ pc = "seek" /\ pc' = "Next" /\ ~WordsExhausted /\ word # {}
      /\ itor' = [itor EXCEPT !.cur_word_id = ConsideredWord(word, @), !.stack = s]
      /\ result' = Append(result, s[Len(s)])
      /\ UNCHANGED <<script, ip, columns, bitvectors, file, file_pos>>
  BY DEF PushWord, store, Cursor
<1>2. /\ itor.cur_block_id \in 0..(Len(bv.blocks) - 1)
      /\ itor.block_offset = itor.cur_block_id * kNumTuplesPerBlock
      /\ itor.stack = <<>> /\ result \in Seq(Nat)
      /\ \A x \in Range(result) : \A y \in Waiting : x < y
      /\ Range(result) \cup Waiting = {x \in S : x < Cursor}
      /\ DOMAIN itor = {"cur_block_id", "cur_word_id", "block_offset", "stack"}
  BY <1>1 DEF StoreInv, IteratorInv
<1>3. Call' = Call /\ S \subseteq Nat /\ S' = S
  BY <1>1, StepsOfIterator
<1>4. /\ itor'.cur_block_id = itor.cur_block_id /\ itor'.cur_word_id = w + 1
      /\ itor'.block_offset = itor.block_offset /\ itor'.stack = s
      /\ DOMAIN itor' = {"cur_block_id", "cur_word_id", "block_offset", "stack"}
  <2> HIDE DEF s
  <2> QED BY <1>1, <1>2 DEF ConsideredWord
<1>5. /\ w \in Nat /\ w <= num_word_units(IteratedBlock.num)
      /\ num_word_units(IteratedBlock.num) \in Nat /\ w * kNumWordBits \in Nat /\ Cursor \in Nat
      /\ itor.block_offset \in Nat
  BY <1>1, Iterating
<1>6. w + 1 \in 0..num_word_units(IteratedBlock.num)
  <2>1. ~(w >= num_word_units(IteratedBlock.num))
    BY <1>1 DEF WordsExhausted
  <2> HIDE DEF w
  <2> QED BY <1>5, <2>1
<1>7. bv' = bv /\ IteratedBlock' = IteratedBlock
  BY <1>1, <1>3, <1>4 DEF IteratedBlock
<1>8. Cursor' = Cursor + kNumWordBits /\ kNumWordBits \in Nat
  <2>1. (w + 1) * kNumWordBits = w * kNumWordBits + kNumWordBits /\ kNumWordBits \in Nat
    BY <1>5, WordSizes
  <2> DEFINE m == w * kNumWordBits
  <2>2. Cursor' = itor.block_offset + (w + 1) * kNumWordBits /\ Cursor = itor.block_offset + m
    BY <1>4, Zenon DEF Cursor
  <2> HIDE DEF m, w
  <2> QED BY <1>5, <2>1, <2>2 DEF m
<1>9. /\ n \in Nat /\ n > 0
      /\ s \in Seq(Nat) /\ Len(s) = n
      /\ \A j, k \in 1..n : j < k => s[k] < s[j]
      /\ \A k \in 1..n : s[k] \in S /\ s[k] >= Cursor /\ s[k] < Cursor + kNumWordBits
      /\ \A x \in S : x >= Cursor /\ x < Cursor + kNumWordBits => \E k \in 1..n : s[k] = x
  BY <1>1, PushedPositions
<1>10. Range(result) = {x \in S : x < Cursor}
  <2>1. Len(itor.stack) = 0
    BY <1>2
  <2>2. {itor.stack[k] : k \in 1..(Len(itor.stack) - 1)} = {}
    BY <2>1
  <2>3. Waiting = {}
    BY <2>2 DEF Waiting
  <2> QED BY <1>2, <2>3
<1>11. result' = Append(result, top)
  BY <1>1, <1>9
<1> HIDE DEF S, w, word, n, s
<1>12. n \in 1..n /\ top \in S /\ top \in Nat /\ top >= Cursor /\ top < Cursor + kNumWordBits
       /\ \A k \in 1..n : s[k] \in Nat /\ top <= s[k]
  <2>1. n \in 1..n
    BY <1>9
  <2>2. \A k \in 1..n : s[k] \in Nat
    BY <1>9
  <2>3. ASSUME NEW k \in 1..n
        PROVE  top <= s[k]
    <3>1. k < n \/ k = n
      BY <1>9
    <3> QED BY <1>9, <2>1, <2>2, <3>1
  <2> QED BY <1>9, <2>1, <2>2, <2>3
<1> HIDE DEF top
<1>13. top \in left
  BY <1>3, <1>5, <1>10, <1>12
<1>14. \A y \in left : top <= y
  <2> SUFFICES ASSUME NEW y \in left
               PROVE  top <= y
    OBVIOUS
  <2>1. y \in S /\ y \in Nat /\ ~(y < Cursor)
    BY <1>3, <1>10
  <2>2. CASE y < Cursor + kNumWordBits
    <3>1. PICK k \in 1..n : s[k] = y
      BY <1>5, <1>9, <2>1, <2>2
    <3> QED BY <1>12, <3>1
  <2>3. CASE ~(y < Cursor + kNumWordBits)
    BY <1>5, <1>8, <1>12, <2>1, <2>3
  <2> QED BY <2>2, <2>3
<1>15. Store!NextPosition
  BY <1>1, <1>11, <1>13, <1>14, NextPositionStep DEF S
<1>16. Range(result)' = Range(result) \cup {top} /\ result' \in Seq(Nat)
  <2>1. /\ Range(Append(result, top)) = Range(result) \cup {top}
        /\ Append(result, top) \in Seq(Nat)
    BY <1>2, <1>12, RangeOfAppend
  <2>2. Range(result)' = Range(result')
    BY DEF Range
  <2> QED BY <1>11, <2>1, <2>2
<1>17. Len(itor'.stack) = n /\ Waiting' = {s[k] : k \in 1..(n - 1)}
  BY <1>4, <1>9 DEF Waiting
<1>18. Waiting' \cup {top} = {s[k] : k \in 1..n}
  <2>1. 1..n = (1..(n - 1)) \cup {n}
    BY <1>9
  <2> QED BY <1>17, <2>1 DEF top
<1>19. Range(result)' \cup Waiting' = {x \in S : x < Cursor'}
  <2>1. Range(result)' \cup Waiting' = {x \in S : x < Cursor} \cup {s[k] : k \in 1..n}
    BY <1>10, <1>16, <1>18
  <2>2. ASSUME NEW x \in S, x < Cursor + kNumWordBits
        PROVE  x < Cursor \/ x \in {s[k] : k \in 1..n}
    <3>1. x \in Nat
      BY <1>3
    <3>2. x < Cursor \/ x >= Cursor
      BY <1>5, <3>1
    <3> QED BY <1>9, <2>2, <3>2
  <2>3. ASSUME NEW x \in S, x < Cursor
        PROVE  x < Cursor + kNumWordBits
    BY <1>3, <1>5, <1>8, <2>3
  <2> QED BY <1>8, <1>9, <2>1, <2>2, <2>3
<1>20. ASSUME NEW x \in Range(result)', NEW y \in Waiting'
       PROVE  x < y
  <2>1. PICK k \in 1..(n - 1) : y = s[k]
    BY <1>17
  <2>2. k \in 1..n /\ k < n
    BY <1>9
  <2>3. y \in Nat /\ y >= Cursor /\ top < y
    BY <1>9, <1>12, <2>1, <2>2 DEF top
  <2>4. CASE x \in Range(result)
    <3>1. x \in Nat /\ x < Cursor
      BY <1>3, <1>10, <2>4
    <3> QED BY <1>5, <2>3, <3>1
  <2>5. CASE x = top
    BY <2>3, <2>5
  <2> QED BY <1>16, <2>4, <2>5
<1>21. \A j, k \in 1..(Len(itor'.stack) - 1) : j < k => itor'.stack[k] < itor'.stack[j]
  <2> SUFFICES ASSUME NEW j \in 1..(n - 1), NEW k \in 1..(n - 1), j < k
               PROVE  s[k] < s[j]
    BY <1>4, <1>17
  <2>1. j \in 1..n /\ k \in 1..n
    BY <1>9
  <2> QED BY <1>9, <2>1
<1>22. itor'.stack \in Seq(Int) /\ itor'.stack # <<>>
  BY <1>4, <1>9
<1>23. IteratorInv'
  BY <1>1, <1>2, <1>3, <1>4, <1>6, <1>7, <1>16, <1>19, <1>20, <1>21, <1>22 DEF IteratorInv, S
<1> QED BY <1>15, <1>23

----------------------------------------------------------------------------
(* The iterator goes on to the first word of the next block.               *)
LEMMA NextBlockMaps ==
  ASSUME StoreInv, NextBlock
  PROVE  UNCHANGED Store!vars /\ IteratorInv'
<1> DEFINE bv == bitvectors[Call.bv]
           S == Selected(bv)
           b == itor.cur_block_id
           size == IteratedBlock.num
           k == kNumTuplesPerBlock
           n == NumBlocks(bv.num)
<1>1. /\ pc = "seek" /\ WordsExhausted /\ b + 1 < Len(bv.blocks)
      /\ itor' = [itor EXCEPT !.cur_word_id = 0, !.cur_block_id = @ + 1,
                              !.block_offset = NextOffset(@, size)]
      /\ UNCHANGED <<script, ip, pc, columns, bitvectors, file, file_pos, result>>
  BY DEF NextBlock, store
<1>2. /\ itor.stack = <<>> /\ result \in Seq(Nat)
      /\ \A x \in Range(result) : \A y \in Waiting : x < y
      /\ Range(result) \cup Waiting = {x \in S : x < Cursor}
      /\ DOMAIN itor = {"cur_block_id", "cur_word_id", "block_offset", "stack"}
  BY <1>1 DEF StoreInv, IteratorInv
<1>3. /\ UNCHANGED <<AllValues, AllNums, AllSelected, AllWritten, AllRead>>
      /\ Undone = {} /\ Undone' = {} /\ Call' = Call /\ S' = S
  BY <1>1, StepsOfIterator
<1>4. /\ itor'.cur_block_id = b + 1 /\ itor'.cur_word_id = 0
      /\ itor'.block_offset = itor.block_offset + size /\ itor'.stack = <<>>
      /\ DOMAIN itor' = {"cur_block_id", "cur_word_id", "block_offset", "stack"}
  <2> HIDE DEF size
  <2> QED BY <1>1, <1>2 DEF NextOffset
<1>5. /\ IsBitVector(bv) /\ bv.num \in Nat /\ n \in Nat /\ Len(bv.blocks) = n
      /\ b \in Nat /\ b < n /\ (b + 1 < n => size = k)
      /\ b * k \in Nat /\ itor.block_offset = b * k
  BY <1>1, Iterating
<1>6. size = k /\ k \in Nat
  BY <1>1, <1>5, BlockCapacity
<1>7. itor'.block_offset = (b + 1) * k
  <2> HIDE DEF b, size, k
  <2>1. (b + 1) * k = b * k + k
    BY <1>5, <1>6
  <2> QED BY <1>4, <1>5, <1>6, <2>1
<1>8. Cursor' = Cursor
  <2>1. Cursor = (b + 1) * k
    BY <1>1, <1>5, CursorBehind
  <2>2. Cursor' = itor'.block_offset + 0 * kNumWordBits
    BY <1>4 DEF Cursor
  <2> DEFINE o == (b + 1) * k
  <2>3. o \in Nat
    <3> HIDE DEF b, k
    <3> QED BY <1>5, <1>6
  <2> HIDE DEF o
  <2>4. Cursor = o /\ Cursor' = o + 0 * kNumWordBits /\ kNumWordBits \in Nat
    BY <1>7, <2>1, <2>2, WordSizes DEF o
  <2> QED BY <2>3, <2>4
<1>9. bv' = bv /\ IteratedBlock'.num \in 1..k /\ b + 1 \in 0..(Len(bv.blocks) - 1)
  <2>1. bv' = bv /\ IteratedBlock' = bv.blocks[(b + 1) + 1]
    BY <1>1, <1>3, <1>4 DEF IteratedBlock
  <2>2. (b + 1) + 1 \in 1..n /\ b + 1 \in 0..(n - 1)
    BY <1>1, <1>5
  <2>3. \A j \in 1..n : bv.blocks[j].num \in 1..k
    BY <1>5, VectorFields
  <2>4. bv.blocks[(b + 1) + 1].num \in 1..k
    BY <2>2, <2>3
  <2> QED BY <1>5, <2>1, <2>2, <2>4
<1>10. 0 \in 0..num_word_units(IteratedBlock'.num)
  <2>1. IteratedBlock'.num \in Nat \ {0}
    BY <1>6, <1>9
  <2>2. num_word_units(IteratedBlock'.num) \in Nat
    BY <2>1, WordsOfBlock
  <2> QED BY <2>2
<1>11. Waiting = {} /\ Waiting' = {}
  <2>1. Len(itor.stack) = 0 /\ Len(itor'.stack) = 0
    BY <1>2, <1>4
  <2>2. /\ {itor.stack[j] : j \in 1..(Len(itor.stack) - 1)} = {}
        /\ {itor'.stack[j] : j \in 1..(Len(itor'.stack) - 1)} = {}
    BY <2>1
  <2> QED BY <2>2 DEF Waiting
<1>12. Range(result)' = Range(result)
  BY <1>1 DEF Range
<1>13. UNCHANGED Store!vars
  <2>1. (pc' # "call") = (pc # "call")
    BY <1>1
  <2> QED BY <1>1, <1>3, <2>1 DEF Store!vars
<1>14. IteratorInv'
  <2>1. \A i, j \in 1..(Len(itor'.stack) - 1) : i < j => itor'.stack[j] < itor'.stack[i]
    BY <1>4
  <2>2. itor'.stack \in Seq(Int)
    BY <1>4
  <2>3. num_word_units(IteratedBlock.num)' = num_word_units(IteratedBlock'.num)
    OBVIOUS
  <2> HIDE DEF S, b, size
  <2> QED BY <1>1, <1>2, <1>3, <1>4, <1>7, <1>8, <1>9, <1>10, <1>11, <1>12, <2>1, <2>2, <2>3
          DEF IteratorInv, S
<1> QED BY <1>13, <1>14

(* Behind the last block every position has been returned.                 *)
LEMMA NoBlockLeftMaps ==
  ASSUME StoreInv, NoBlockLeft
  PROVE  Store!Return /\ IteratorInv'
<1> DEFINE bv == bitvectors[Call.bv]
           S == Selected(bv)
           b == itor.cur_block_id
           n == NumBlocks(bv.num)
<1>1. /\ pc = "seek" /\ WordsExhausted /\ b + 1 >= Len(bv.blocks)
      /\ itor' = [itor EXCEPT !.cur_word_id = 0, !.cur_block_id = @ + 1,
                              !.block_offset = NextOffset(@, IteratedBlock.num)]
      /\ ip' = ip + 1 /\ pc' = "call"
      /\ UNCHANGED <<script, columns, bitvectors, file, file_pos, result>>
  BY DEF NoBlockLeft, store, Returns
<1>2. /\ itor.stack = <<>> /\ result \in Seq(Nat)
      /\ Range(result) \cup Waiting = {x \in S : x < Cursor}
      /\ DOMAIN itor = {"cur_block_id", "cur_word_id", "block_offset", "stack"}
  BY <1>1 DEF StoreInv, IteratorInv
<1>3. /\ bv.num \in Nat /\ n \in Nat /\ Len(bv.blocks) = n
      /\ b \in Nat /\ b < n /\ Cursor \in Nat /\ Call.op = "Iterate" /\ Call.bv \in {1, 2}
  BY <1>1, Iterating
<1>4. Cursor >= bv.num
  <2>1. b + 1 = n
    BY <1>1, <1>3
  <2> QED BY <1>1, <2>1, CursorBehind
<1>5. S \subseteq Range(result)
  <2>1. Len(itor.stack) = 0
    BY <1>2
  <2>2. {itor.stack[j] : j \in 1..(Len(itor.stack) - 1)} = {}
    BY <2>1
  <2>3. Waiting = {}
    BY <2>2 DEF Waiting
  <2>4. S \subseteq 0..(bv.num - 1)
    BY DEF Selected
  <2> HIDE DEF S
  <2>5. \A x \in S : x < Cursor
    BY <1>3, <1>4, <2>4
  <2> QED BY <1>2, <2>3, <2>5
<1>6. UNCHANGED <<AllValues, AllNums, AllSelected, AllWritten, AllRead>>
  BY <1>1, KeptStore
<1>7. Undone = {} /\ Undone' = {} /\ Store!Call = Call
  BY <1>1 DEF Undone, Store!Call, Call
<1>8. AllSelected[Call.bv] = S
  <2>1. DOMAIN bitvectors = {1, 2}
    BY DEF StoreInv, ClientInv, TypeOK
  <2> QED BY <1>3, <2>1 DEF AllSelected
<1>9. Store!Return
  <2>1. AllSelected[Store!Call.bv] \subseteq Store!Range(result)
    BY <1>5, <1>7, <1>8 DEF Store!Range, Range
  <2> HIDE DEF S, bv
  <2> QED BY <1>1, <1>3, <1>6, <1>7, <2>1 DEF Store!Return
<1>10. IteratorInv'
  <2>1. DOMAIN itor' = {"cur_block_id", "cur_word_id", "block_offset", "stack"}
    BY <1>1, <1>2
  <2> QED BY <1>1, <2>1 DEF IteratorInv
<1> QED BY <1>9, <1>10

(* Every step of the iterator.                                             *)
LEMMA IterateMaps ==
  ASSUME StoreInv, Iterate
  PROVE  (Store!NextPosition \/ Store!Return \/ UNCHANGED Store!vars) /\ IteratorInv'
BY NextPopsMaps, NextBlockMaps, NoBlockLeftMaps, SkipZeroWordMaps, PushWordMaps DEF Iterate

----------------------------------------------------------------------------
(***************************************************************************)
(* The file holds the codes of its blocks one after another, and so what   *)
(* the blocks of a column hold in a row are the codes of the column.       *)
(***************************************************************************)
AnyBlock(column) == [num_tuples : 1..kNumTuplesPerBlock, data : [Positions -> StoredCode(column)]]

AnyCode(column) == {Code(column, stored) : stored \in StoredCode(column)}

BlockCodes(column, block) == [p \in 1..block.num_tuples |-> Code(column, block.data[p - 1])]

CodesIn(column, blocks) == [b \in DOMAIN blocks |-> BlockCodes(column, blocks[b])]

(* A block of a column has its number of codes.                            *)
LEMMA CodesOfBlock ==
  ASSUME NEW column, NEW block \in AnyBlock(column)
  PROVE  /\ BlockCodes(column, block) \in Seq(AnyCode(column))
         /\ Len(BlockCodes(column, block)) = block.num_tuples
<1> DEFINE n == block.num_tuples
           s == BlockCodes(column, block)
           T == AnyCode(column)
<1>1. n \in 1..kNumTuplesPerBlock /\ block.data \in [Positions -> StoredCode(column)]
  BY DEF AnyBlock
<1>2. n \in Nat /\ kNumTuplesPerBlock \in Nat
  BY <1>1, BlockCapacity
<1>3. ASSUME NEW p \in 1..n
      PROVE  Code(column, block.data[p - 1]) \in T
  <2>1. p - 1 \in Positions
    <3> HIDE DEF n
    <3> QED BY <1>1, <1>2 DEF Positions
  <2>2. block.data[p - 1] \in StoredCode(column)
    BY <1>1, <2>1
  <2> QED BY <2>2 DEF AnyCode
<1> HIDE DEF n, T
<1>4. s = [p \in 1..n |-> Code(column, block.data[p - 1])]
  BY DEF BlockCodes, n
<1>5. s \in [1..n -> T]
  BY <1>3, <1>4
<1> HIDE DEF s
<1>6. s \in Seq(T) /\ Len(s) = n
  BY <1>2, <1>5
<1> QED BY <1>6 DEF s, n, T

(* And so have the blocks of a sequence of them.                           *)
LEMMA CodesOfBlocks ==
  ASSUME NEW column, NEW blocks \in Seq(AnyBlock(column))
  PROVE  /\ CodesIn(column, blocks) \in Seq(Seq(AnyCode(column)))
         /\ Len(CodesIn(column, blocks)) = Len(blocks)
<1> DEFINE n == Len(blocks)
           U == Seq(AnyCode(column))
           s == CodesIn(column, blocks)
           B == AnyBlock(column)
<1>1. n \in Nat /\ DOMAIN blocks = 1..n /\ \A b \in 1..n : blocks[b] \in B
  <2> HIDE DEF B
  <2> QED BY DEF B
<1>2. \A b \in 1..n : BlockCodes(column, blocks[b]) \in U
  BY <1>1, CodesOfBlock
<1> HIDE DEF n, U
<1>3. s \in [1..n -> U]
  BY <1>1, <1>2 DEF CodesIn
<1> HIDE DEF s
<1>4. s \in Seq(U) /\ Len(s) = n
  BY <1>1, <1>3
<1> QED BY <1>4 DEF s, n, U

(* The blocks are read the same by any column of the type and width.       *)
LEMMA CodesOfLike ==
  ASSUME NEW column, NEW other, column.type = other.type, column.bit_width = other.bit_width,
         NEW blocks
  PROVE  CodesIn(column, blocks) = CodesIn(other, blocks)
  BY DEF CodesIn, BlockCodes, Code

(* The codes of blocks and of others behind them.                          *)
LEMMA CodesOfConcat ==
  ASSUME NEW column, NEW s \in Seq(AnyBlock(column)), NEW t \in Seq(AnyBlock(column))
  PROVE  CodesIn(column, s \o t) = CodesIn(column, s) \o CodesIn(column, t)
<1> DEFINE B == AnyBlock(column)
           U == Seq(AnyCode(column))
           f == CodesIn(column, s)
           g == CodesIn(column, t)
           h == CodesIn(column, s \o t)
<1>1. f \in Seq(U) /\ Len(f) = Len(s) /\ g \in Seq(U) /\ Len(g) = Len(t)
  BY CodesOfBlocks
<1>2. s \in Seq(B) /\ t \in Seq(B)
  OBVIOUS
<1> HIDE DEF B, U
<1>3. s \o t \in Seq(B) /\ Len(s \o t) = Len(s) + Len(t)
  BY <1>2
<1>4. h \in Seq(U) /\ Len(h) = Len(s) + Len(t)
  <2>1. h \in Seq(U) /\ Len(h) = Len(s \o t)
    BY <1>3, CodesOfBlocks DEF B, U
  <2> QED BY <1>3, <2>1
<1>5. f \o g \in Seq(U) /\ Len(f \o g) = Len(s) + Len(t)
  <2> HIDE DEF f, g
  <2> QED BY <1>1
<1>6. Len(s) \in Nat /\ Len(t) \in Nat
  BY <1>2
<1>7. ASSUME NEW b \in 1..(Len(s) + Len(t))
      PROVE  h[b] = (f \o g)[b]
  <2>1. h[b] = BlockCodes(column, (s \o t)[b])
    BY <1>2, <1>3, <1>6, <1>7 DEF CodesIn
  <2>2. CASE b <= Len(s)
    <3>1. b \in 1..Len(s) /\ (s \o t)[b] = s[b]
      BY <1>2, <1>6, <1>7, <2>2
    <3>2. f[b] = BlockCodes(column, s[b])
      BY <1>2, <3>1 DEF CodesIn
    <3>3. (f \o g)[b] = f[b]
      <4> HIDE DEF f, g
      <4> QED BY <1>1, <1>6, <3>1
    <3> QED BY <2>1, <3>1, <3>2, <3>3
  <2>3. CASE ~(b <= Len(s))
    <3>1. b - Len(s) \in 1..Len(t) /\ (s \o t)[b] = t[b - Len(s)]
      BY <1>2, <1>6, <1>7, <2>3
    <3>2. g[b - Len(s)] = BlockCodes(column, t[b - Len(s)])
      BY <1>2, <3>1 DEF CodesIn
    <3>3. (f \o g)[b] = g[b - Len(s)]
      <4> HIDE DEF f, g
      <4> QED BY <1>1, <1>6, <2>3, <3>1
    <3> QED BY <2>1, <3>1, <3>2, <3>3
  <2> QED BY <2>2, <2>3
<1> HIDE DEF f, g, h
<1>8. h = f \o g
  <2> DEFINE fg == f \o g
  <2>1. fg \in Seq(U) /\ Len(fg) = Len(s) + Len(t) /\ \A b \in 1..(Len(s) + Len(t)) : h[b] = fg[b]
    BY <1>5, <1>7
  <2> HIDE DEF fg
  <2>2. h = fg
    BY <1>4, <2>1
  <2> QED BY <2>2 DEF fg
<1> QED BY <1>8 DEF f, g, h

(* The codes of some of the blocks.                                        *)
LEMMA CodesOfSubSeq ==
  ASSUME NEW column, NEW s \in Seq(AnyBlock(column)), NEW m \in Nat, NEW n \in Nat,
         m + n <= Len(s)
  PROVE  CodesIn(column, SubSeq(s, m + 1, m + n)) = SubSeq(CodesIn(column, s), m + 1, m + n)
<1> DEFINE B == AnyBlock(column)
           U == Seq(AnyCode(column))
           f == CodesIn(column, s)
           part == SubSeq(s, m + 1, m + n)
           g == CodesIn(column, part)
           h == SubSeq(f, m + 1, m + n)
<1>1. f \in Seq(U) /\ Len(f) = Len(s)
  BY CodesOfBlocks
<1>2. s \in Seq(B)
  OBVIOUS
<1> HIDE DEF B, U
<1>3. part \in Seq(B) /\ Len(part) = n /\ \A b \in 1..n : part[b] = s[m + b]
  BY <1>2
<1>4. h \in Seq(U) /\ Len(h) = n /\ \A b \in 1..n : h[b] = f[m + b]
  <2> HIDE DEF f
  <2> QED BY <1>1
<1>5. g \in Seq(U) /\ Len(g) = n
  <2>1. g \in Seq(U) /\ Len(g) = Len(part)
    <3> HIDE DEF part
    <3> QED BY <1>3, CodesOfBlocks DEF B, U
  <2> QED BY <1>3, <2>1
<1>6. ASSUME NEW b \in 1..n
      PROVE  g[b] = h[b]
  <2>1. m + b \in 1..Len(s)
    BY <1>2
  <2>2. f[m + b] = BlockCodes(column, s[m + b])
    BY <1>2, <2>1 DEF CodesIn
  <2>3. g[b] = BlockCodes(column, part[b])
    <3> HIDE DEF part
    <3> QED BY <1>3 DEF CodesIn
  <2> QED BY <1>3, <1>4, <2>2, <2>3
<1> HIDE DEF f, g, h, part
<1>7. g = h
  BY <1>4, <1>5, <1>6
<1> QED BY <1>7 DEF f, g, h, part

(* The blocks of a column are ones the file may hold.                      *)
LEMMA BlocksOfColumn ==
  ASSUME NEW column, IsColumn(column)
  PROVE  column.blocks \in Seq(AnyBlock(column))
<1> DEFINE n == NumBlocks(column.num_tuples)
           B == AnyBlock(column)
<1>1. column \in [type : ColumnType, bit_width : 1..32, num_tuples : Nat, blocks : [1..n -> B]]
  BY DEF IsColumn, AnyBlock
<1>2. n \in Nat
  BY ColumnFields
<1> HIDE DEF n, B
<1>3. column.blocks \in [1..n -> B]
  BY <1>1
<1>4. column.blocks \in Seq(B)
  BY <1>2, <1>3
<1> QED BY <1>4 DEF B

----------------------------------------------------------------------------
(* The blocks of a column in a row: by the first block at which it would   *)
(* not be so.                                                              *)
LEMMA FlattenColumn ==
  ASSUME NEW column, IsColumn(column)
  PROVE  FlattenSeq(CodesIn(column, column.blocks))
           = [p \in 1..column.num_tuples |-> GetTuple_(column, p - 1)]
<1> DEFINE num == column.num_tuples
           n == NumBlocks(num)
           k == kNumTuplesPerBlock
           T == AnyCode(column)
           C == CodesIn(column, column.blocks)
           Start(j) == IF j = n THEN num ELSE j * k
           Prefix(j) == FlattenSeq(SubSeq(C, 1, j))
           Right(j) == /\ Len(Prefix(j)) = Start(j)
                       /\ \A p \in 1..Start(j) : Prefix(j)[p] = GetTuple_(column, p - 1)
           wrong == {j \in 0..n : ~Right(j)}
<1>1. /\ num \in Nat /\ n \in Nat /\ Len(column.blocks) = n /\ DOMAIN column.blocks = 1..n
      /\ \A b \in 1..n : column.blocks[b].num_tuples = BlockSize(num, b - 1)
      /\ k \in Nat \ {0}
  BY ColumnFields, BlockCapacity
<1>2. C \in Seq(Seq(T)) /\ Len(C) = n
  BY <1>1, BlocksOfColumn, CodesOfBlocks
<1>3. \A j \in 0..n : SubSeq(C, 1, j) \in Seq(Seq(T)) /\ Prefix(j) \in Seq(T)
  <2> TAKE j \in 0..n
  <2>1. SubSeq(C, 1, j) \in Seq(Seq(T))
    <3> DEFINE U == Seq(T)
    <3> HIDE DEF C, U
    <3> QED BY <1>1, <1>2 DEF U
  <2> QED BY <2>1, FlattenType
<1>4. Right(0)
  <2>1. SubSeq(C, 1, 0) = <<>>
    BY SubSeqEmpty
  <2>2. Prefix(0) = <<>>
    BY <2>1, FlattenNone
  <2>3. Start(0) = 0
    <3>1. num # 0 => n # 0
      <4>1. num > 0 => 0 + 1 \in 1..n
        <5>1. \A q \in Nat : q * k < num => q + 1 \in 1..n
          BY <1>1, BlockSizes
        <5> QED BY <1>1, <5>1
      <4> QED BY <1>1, <4>1
    <3> HIDE DEF num, n, k
    <3> QED BY <1>1, <3>1
  <2> QED BY <2>2, <2>3
<1> HIDE DEF C
<1>5. ASSUME NEW j \in 0..(n - 1), Right(j)
      PROVE  Right(j + 1)
  <2> DEFINE block == column.blocks[j + 1]
             size == BlockSize(num, j)
             s == SubSeq(C, 1, j)
             e == BlockCodes(column, block)
             F == Prefix(j)
             G == Prefix(j + 1)
  <2>1. j \in Nat /\ j + 1 \in 1..n /\ j \in 0..n /\ j + 1 \in 0..n /\ (j + 1) - 1 = j /\ j # n
    BY <1>1
  <2>2. block.num_tuples = size
    <3>1. \A b \in 1..n : column.blocks[b].num_tuples = BlockSize(num, b - 1)
      BY <1>1
    <3> QED BY <2>1, <3>1
  <2>3. /\ size \in 1..k /\ (j + 1 < n => size = k) /\ (j + 1 = n => size = num - j * k)
    <3>1. \A b \in 1..n :
            /\ BlockSize(num, b - 1) \in 1..k
            /\ b < n => BlockSize(num, b - 1) = k
            /\ b = n => BlockSize(num, b - 1) = num - (b - 1) * k
      BY <1>1, BlockSizes
    <3>2. PICK a \in 1..n : a = j + 1
      BY <2>1
    <3>3. /\ BlockSize(num, a - 1) \in 1..k
          /\ a < n => BlockSize(num, a - 1) = k
          /\ a = n => BlockSize(num, a - 1) = num - (a - 1) * k
      BY <3>1
    <3>4. a - 1 = j
      BY <2>1, <3>2
    <3> QED BY <3>2, <3>3, <3>4
  <2>4. C[j + 1] = e
    BY <1>1, <2>1 DEF C, CodesIn
  <2>5. block \in AnyBlock(column)
    <3>1. column.blocks \in Seq(AnyBlock(column))
      BY BlocksOfColumn
    <3> DEFINE B == AnyBlock(column)
    <3> HIDE DEF B
    <3>2. column.blocks[j + 1] \in B
      BY <1>1, <2>1, <3>1 DEF B
    <3> QED BY <3>2 DEF B
  <2>6. e \in Seq(T) /\ Len(e) = size
    <3> HIDE DEF block
    <3> QED BY <2>2, <2>5, CodesOfBlock
  <2>7. SubSeq(C, 1, j + 1) = Append(s, e)
    <3> DEFINE U == Seq(T)
    <3>1. C \in Seq(U) /\ e \in U
      BY <1>2, <2>6
    <3> HIDE DEF U, e
    <3>2. Append(s, e) \in Seq(U) /\ Len(Append(s, e)) = j + 1
          /\ \A i \in 1..(j + 1) : Append(s, e)[i] = C[i]
      BY <1>1, <1>2, <2>1, <2>4, <3>1
    <3>3. SubSeq(C, 1, j + 1) \in Seq(U) /\ Len(SubSeq(C, 1, j + 1)) = j + 1
          /\ \A i \in 1..(j + 1) : SubSeq(C, 1, j + 1)[i] = C[i]
      BY <1>1, <1>2, <2>1, <3>1
    <3> DEFINE a == Append(s, e)
               b == SubSeq(C, 1, j + 1)
    <3>4. a \in Seq(U) /\ Len(a) = j + 1 /\ \A i \in 1..(j + 1) : a[i] = C[i]
      BY <3>2
    <3>5. b \in Seq(U) /\ Len(b) = j + 1 /\ \A i \in 1..(j + 1) : b[i] = C[i]
      BY <3>3
    <3> HIDE DEF a, b
    <3>6. a = b
      BY <3>4, <3>5
    <3> QED BY <3>6 DEF a, b
  <2>8. G = F \o e
    <3>1. s \in Seq(Seq(T))
      BY <1>3, <2>1
    <3> HIDE DEF s, e
    <3>2. FlattenSeq(Append(s, e)) = FlattenSeq(s) \o e
      BY <2>6, <3>1, FlattenAppend
    <3> QED BY <2>7, <3>2 DEF s
  <2>9. Start(j) = j * k /\ j * k \in Nat
    <3> HIDE DEF num, n, k
    <3> QED BY <1>1, <2>1
  <2> DEFINE m == j * k
  <2>10. F \in Seq(T) /\ Len(F) = m /\ \A p \in 1..m : F[p] = GetTuple_(column, p - 1)
    BY <1>3, <1>5, <2>1, <2>9
  <2>11. Start(j + 1) = m + size
    <3>1. (j + 1) * k = m + k /\ m \in Nat
      <4> HIDE DEF num, n, k
      <4> QED BY <1>1, <2>1, <2>9
    <3>2. Start(j + 1) = IF j + 1 = n THEN num ELSE (j + 1) * k
      OBVIOUS
    <3>3. /\ size \in Nat /\ (j + 1 < n => size = k) /\ (j + 1 = n => size = num - m)
      BY <1>1, <2>3
    <3>4. m + size = IF j + 1 = n THEN num ELSE m + k
      <4> HIDE DEF num, n, k, size, m
      <4>1. j + 1 = n \/ j + 1 < n
        BY <1>1, <2>1
      <4> QED BY <1>1, <3>1, <3>3, <4>1
    <3> HIDE DEF num, n, k, size, m, Start
    <3> QED BY <3>1, <3>2, <3>4
  <2>12. ASSUME NEW p \in 1..(m + size)
         PROVE  (F \o e)[p] = GetTuple_(column, p - 1)
    <3>1. m \in Nat /\ size \in Nat /\ size <= k
      BY <1>1, <2>3, <2>9
    <3>2. CASE p <= m
      <4>1. p \in 1..m
        <5> HIDE DEF m, size
        <5> QED BY <3>1, <3>2
      <4>2. (F \o e)[p] = F[p]
        <5> HIDE DEF F, e, m, size
        <5> QED BY <2>6, <2>10, <3>1, <4>1
      <4> QED BY <2>10, <4>1, <4>2
    <3>3. CASE ~(p <= m)
      <4> DEFINE q == p - m
      <4>1. q \in 1..size /\ q - 1 \in Nat /\ q - 1 < k /\ p - 1 = m + (q - 1)
        <5> HIDE DEF m, size, k
        <5> QED BY <1>1, <2>12, <3>1, <3>3
      <4>2. (F \o e)[p] = e[q]
        <5> HIDE DEF F, e, m, size, T
        <5>1. \A i \in 1..(Len(F) + Len(e)) :
                (F \o e)[i] = IF i <= Len(F) THEN F[i] ELSE e[i - Len(F)]
          BY <2>6, <2>10, ConcatProperties
        <5>2. p \in 1..(Len(F) + Len(e)) /\ ~(p <= Len(F)) /\ q = p - Len(F)
          BY <2>6, <2>10, <2>12, <3>3
        <5> HIDE DEF q
        <5> QED BY <5>1, <5>2
      <4>3. e[q] = Code(column, block.data[q - 1])
        BY <2>2, <4>1 DEF BlockCodes
      <4>4. block_id(p - 1) = j /\ pos_in_block(p - 1) = q - 1
        <5>1. /\ block_id(j * k + (q - 1)) = j
              /\ pos_in_block(j * k + (q - 1)) = q - 1
          <6> DEFINE r == q - 1
          <6>1. r \in Nat /\ r < kNumTuplesPerBlock
            BY <4>1
          <6> HIDE DEF r, q
          <6>2. block_id(j * kNumTuplesPerBlock + r) = j /\ pos_in_block(j * kNumTuplesPerBlock + r) = r
            BY <2>1, <6>1, PlaceOf
          <6> QED BY <6>2 DEF r
        <5> HIDE DEF q
        <5> QED BY <4>1, <5>1 DEF m
      <4> HIDE DEF q
      <4>5. GetTuple_(column, p - 1) = Code(column, block.data[q - 1])
        BY <4>4 DEF GetTuple_
      <4> QED BY <4>2, <4>3, <4>5
    <3> QED BY <3>2, <3>3
  <2>13. Len(F \o e) = m + size
    <3> HIDE DEF F, e, m, size
    <3> QED BY <2>6, <2>10
  <2> HIDE DEF F, e, m, size, Prefix, Start
  <2>14. /\ Len(Prefix(j + 1)) = Start(j + 1)
         /\ \A p \in 1..Start(j + 1) : Prefix(j + 1)[p] = GetTuple_(column, p - 1)
    BY <2>8, <2>11, <2>12, <2>13
  <2> QED BY <2>14
<1> HIDE DEF Right
<1>6. wrong = {}
  <2> SUFFICES ASSUME wrong # {}
               PROVE  FALSE
    OBVIOUS
  <2>1. wrong \subseteq Nat
    BY <1>1
  <2>2. PICK j \in wrong : \A i \in wrong : j <= i
    <3> HIDE DEF wrong
    <3> QED BY <2>1, Smallest
  <2>3. j # 0 /\ j \in 0..n
    BY <1>4, <2>2
  <2> DEFINE i == j - 1
  <2>4. i \in 0..(n - 1) /\ i \in 0..n /\ i + 1 = j /\ i < j
    <3> HIDE DEF wrong, n
    <3> QED BY <1>1, <2>3
  <2>5. Right(i)
    <3> SUFFICES ASSUME ~Right(i)
                 PROVE  FALSE
      OBVIOUS
    <3>1. i \in wrong
      BY <2>4
    <3>2. j <= i
      BY <2>2, <3>1
    <3> QED BY <1>1, <2>3, <2>4, <3>2
  <2>6. Right(i + 1)
    <3> HIDE DEF i, wrong
    <3> QED BY <1>5, <2>4, <2>5
  <2>7. Right(j)
    BY <2>4, <2>6
  <2> QED BY <2>2, <2>7
<1>7. Right(n)
  <2> HIDE DEF n
  <2>1. n \in 0..n
    BY <1>1
  <2> QED BY <1>6, <2>1
<1>8. Len(Prefix(n)) = num /\ \A p \in 1..num : Prefix(n)[p] = GetTuple_(column, p - 1)
  BY <1>7 DEF Right
<1>9. SubSeq(C, 1, n) = C
  <2> DEFINE U == Seq(T)
  <2> HIDE DEF U
  <2>1. C \in Seq(U) /\ Len(C) = n
    BY <1>2 DEF U
  <2> HIDE DEF n
  <2>2. SubSeq(C, 1, Len(C)) = C
    BY <2>1, SubSeqFull
  <2> QED BY <2>1, <2>2
<1>10. FlattenSeq(C) \in Seq(T) /\ FlattenSeq(C) = Prefix(n)
  BY <1>2, <1>9, FlattenType
<1> DEFINE f == FlattenSeq(C)
<1>11. f \in Seq(T) /\ Len(f) = num /\ \A p \in 1..num : f[p] = GetTuple_(column, p - 1)
  BY <1>8, <1>10
<1> HIDE DEF f, num, T
<1>12. f = [p \in 1..num |-> GetTuple_(column, p - 1)]
  BY <1>1, <1>11
<1> QED BY <1>12 DEF f, num, C

----------------------------------------------------------------------------
(* What the file holds, as the first column reads it.                      *)
LEMMA FileOfBlocks ==
  ASSUME StoreInv
  PROVE  LET T == AnyCode(columns[1]) IN
         /\ file \in Seq(AnyBlock(columns[1])) /\ Len(file) \in Nat
         /\ FileCodes = CodesIn(columns[1], file)
         /\ FileCodes \in Seq(Seq(T)) /\ Len(FileCodes) = Len(file)
         /\ file_pos \in Nat /\ file_pos <= Len(file)
<1>1. file \in Seq(AnyBlock(columns[1])) /\ file_pos <= Len(file) /\ file_pos \in Nat
  BY DEF StoreInv, FileInv, AnyBlock, ClientInv, TypeOK
<1>2. FileCodes = CodesIn(columns[1], file)
  BY DEF FileCodes, CodesIn, BlockCodes
<1>3. Len(file) \in Nat
  BY <1>1, LenProperties
<1>4. /\ CodesIn(columns[1], file) \in Seq(Seq(AnyCode(columns[1])))
      /\ Len(CodesIn(columns[1], file)) = Len(file)
  BY <1>1, CodesOfBlocks
<1> QED BY <1>1, <1>2, <1>3, <1>4

(* SerToFile writes the codes of the column behind those of the file.      *)
LEMMA SerToFileMaps ==
  ASSUME StoreInv, ClientFitsStore, SerToFile
  PROVE  Store!Immediate
<1> DEFINE c == Call.column
           column == columns[c]
           blocks == column.blocks
           B == AnyBlock(columns[1])
           T == AnyCode(columns[1])
           more == CodesIn(columns[1], blocks)
<1>1. /\ TypeOK /\ Call.op = "SerToFile" /\ pc = "call" /\ ip <= Len(script) /\ IsCall(Call)
      /\ Calls({"SerToFile"}) /\ Returns /\ InStep
      /\ file' = file \o blocks /\ UNCHANGED <<columns, bitvectors, file_pos>>
  BY BetweenCalls DEF SerToFile, StoreInv
<1>2. c \in {1, 2} /\ IsColumn(column) /\ DOMAIN columns = {1, 2}
  BY <1>1 DEF IsCall, ColumnCalls, TypeOK
<1>3. column.type = columns[1].type /\ column.bit_width = columns[1].bit_width
  BY <1>1 DEF ClientFitsStore, FitsStore, LikeFirst
<1>4. blocks \in Seq(B)
  <2>1. blocks \in Seq(AnyBlock(column))
    BY <1>2, BlocksOfColumn
  <2>2. AnyBlock(column) = B
    BY <1>3 DEF AnyBlock, StoredCode
  <2> QED BY <2>1, <2>2
<1>5. /\ file \in Seq(B) /\ Len(file) \in Nat /\ FileCodes = CodesIn(columns[1], file)
      /\ FileCodes \in Seq(Seq(T)) /\ Len(FileCodes) = Len(file)
      /\ file_pos \in Nat /\ file_pos <= Len(file)
  BY FileOfBlocks
<1>6. more \in Seq(Seq(T))
  BY <1>4, CodesOfBlocks
<1>7. FileCodes' = FileCodes \o more
  <2>1. FileCodes' = CodesIn(columns[1], file \o blocks)
    BY <1>1 DEF FileCodes, CodesIn, BlockCodes, Code
  <2>2. CodesIn(columns[1], file \o blocks) = CodesIn(columns[1], file) \o more
    BY <1>4, <1>5, CodesOfConcat
  <2> QED BY <1>5, <2>1, <2>2
<1>8. AllWritten' = AllWritten \o FlattenSeq(more)
  <2> HIDE DEF more
  <2>1. FlattenSeq(FileCodes \o more) = FlattenSeq(FileCodes) \o FlattenSeq(more)
    BY <1>5, <1>6, FlattenConcat
  <2> QED BY <1>7, <2>1 DEF AllWritten
<1>9. FlattenSeq(more) = [p \in 1..column.num_tuples |-> GetTuple_(column, p - 1)]
  <2>1. more = CodesIn(column, blocks)
    <3> HIDE DEF column
    <3>1. CodesIn(columns[1], column.blocks) = CodesIn(column, column.blocks)
      BY <1>3, CodesOfLike
    <3> QED BY <3>1
  <2> HIDE DEF more, column
  <2>2. FlattenSeq(CodesIn(column, column.blocks))
          = [p \in 1..column.num_tuples |-> GetTuple_(column, p - 1)]
    BY <1>2, FlattenColumn
  <2> QED BY <2>1, <2>2
<1>10. DOMAIN AllValues = {1, 2} /\ AllValues[c] = ColumnCodes(column)
  BY <1>2, ValuesOfColumns
<1>11. Store!Call = Call
  BY DEF Store!Call, Call
<1>12. Store!Size(c) = column.num_tuples
  <2>1. Cardinality(DOMAIN ColumnCodes(column)) = column.num_tuples
    BY <1>2, CodesOfColumn
  <2>2. Cardinality(DOMAIN AllValues[c]) = column.num_tuples
    BY <1>10, <2>1
  <2> QED BY <2>2 DEF Store!Size, Store!Cardinality, Cardinality
<1>13. Store!Codes(c) = FlattenSeq(more)
  <2> HIDE DEF more
  <2>1. \A p \in 1..column.num_tuples : AllValues[c][p - 1] = GetTuple_(column, p - 1)
    <3> HIDE DEF column
    <3>1. column.num_tuples \in Nat
      BY <1>2, ColumnFields
    <3>2. \A p \in 1..column.num_tuples : p - 1 \in 0..(column.num_tuples - 1)
      BY <3>1
    <3> QED BY <1>10, <3>2 DEF ColumnCodes
  <2>2. Store!Codes(c) = [p \in 1..column.num_tuples |-> AllValues[c][p - 1]]
    BY <1>12 DEF Store!Codes
  <2> QED BY <1>9, <2>1, <2>2
<1>14. AllRead' = AllRead
  <2>1. SubSeq(FileCodes \o more, 1, file_pos) = SubSeq(FileCodes, 1, file_pos)
    <3> DEFINE U == Seq(T)
    <3> HIDE DEF U, more
    <3>1. FileCodes \in Seq(U) /\ more \in Seq(U)
      BY <1>5, <1>6 DEF U
    <3>2. CASE file_pos = 0
      BY <3>2, SubSeqEmpty
    <3>3. CASE file_pos # 0
      <4>1. 1 \in 1..Len(FileCodes) /\ file_pos \in 1..Len(FileCodes)
        BY <1>5, <3>3
      <4> QED BY <3>1, <4>1, SubSeqOfConcat1
    <3> QED BY <3>2, <3>3
  <2> HIDE DEF more
  <2>2. SubSeq(FileCodes, 1, file_pos)' = SubSeq(FileCodes', 1, file_pos)
    BY <1>1
  <2>3. SubSeq(FileCodes, 1, file_pos)' = SubSeq(FileCodes, 1, file_pos)
    BY <1>7, <2>1, <2>2
  <2> QED BY <2>3 DEF AllRead
<1>15. UNCHANGED <<AllNums, AllSelected, AllValues>>
  <2>1. AllValues' = AllValues
    BY <1>1 DEF AllValues, ColumnCodes, GetTuple_, Code
  <2> QED BY <1>1, <2>1, KeptVectors
<1> HIDE DEF c, more, column
<1>16. Store!SerToFile
  BY <1>1, <1>8, <1>11, <1>13, <1>14, <1>15 DEF Store!SerToFile, c
<1> QED BY <1>1, <1>16, ImmediateStep

(* DeserFromFile reads the codes that come next.                           *)
LEMMA DeserFromFileMaps ==
  ASSUME StoreInv, ClientFitsStore, DeserFromFile
  PROVE  Store!Immediate
<1> DEFINE c == Call.column
           column == columns[c]
           new == columns'[c]
           num == column.num_tuples
           n == NumBlocks(num)
           B == AnyBlock(columns[1])
           T == AnyCode(columns[1])
           part == SubSeq(file, file_pos + 1, file_pos + n)
           before == SubSeq(FileCodes, 1, file_pos)
           read == SubSeq(FileCodes, file_pos + 1, file_pos + n)
           after == SubSeq(FileCodes, file_pos + n + 1, Len(FileCodes))
<1>1. /\ TypeOK /\ Call.op = "DeserFromFile" /\ pc = "call" /\ ip <= Len(script) /\ IsCall(Call)
      /\ Calls({"DeserFromFile"}) /\ Returns /\ InStep
      /\ UNCHANGED <<bitvectors, file>>
  BY BetweenCalls DEF DeserFromFile, StoreInv
<1>2. c \in {1, 2} /\ IsColumn(column) /\ DOMAIN columns = {1, 2}
  BY <1>1 DEF IsCall, ColumnCalls, TypeOK
<1>3. ReadsItsBlocks /\ column.type = columns[1].type /\ column.bit_width = columns[1].bit_width
  BY <1>1 DEF ClientFitsStore, IsAllowed, FitsStore, LikeFirst
<1>4. num \in Nat /\ n \in Nat /\ DOMAIN column.blocks = 1..n /\ Len(column.blocks) = n
  BY <1>2, ColumnFields
<1>5. /\ file \in Seq(B) /\ Len(file) \in Nat /\ FileCodes = CodesIn(columns[1], file)
      /\ FileCodes \in Seq(Seq(T)) /\ Len(FileCodes) = Len(file)
      /\ file_pos \in Nat /\ file_pos <= Len(file) /\ file_pos + n <= Len(file)
  <2>1. file_pos + n <= Len(file)
    BY <1>3, <1>4 DEF ReadsItsBlocks
  <2> QED BY <2>1, FileOfBlocks
<1>6. /\ new = [column EXCEPT !.blocks = part] /\ columns' = [columns EXCEPT ![c] = new]
      /\ file_pos' = file_pos + n
  <2> DEFINE taken == [b \in 1..n |-> file[file_pos + b]]
  <2>1. columns' = [columns EXCEPT ![c].blocks = taken] /\ file_pos' = file_pos + n
    BY <1>2, <1>4 DEF DeserFromFile
  <2>2. taken = part
    <3> HIDE DEF B, n
    <3> QED BY <1>4, <1>5
  <2> HIDE DEF taken, part
  <2> QED BY <1>2, <2>1, <2>2
<1>7. /\ new.blocks = part /\ new.num_tuples = num
      /\ new.type = column.type /\ new.bit_width = column.bit_width
  <2> HIDE DEF part
  <2>1. column \in [type : ColumnType, bit_width : 1..32, num_tuples : Nat,
                    blocks : [1..NumBlocks(column.num_tuples) ->
                      [num_tuples : 1..kNumTuplesPerBlock, data : [Positions -> StoredCode(column)]]]]
    BY <1>2 DEF IsColumn
  <2> QED BY <1>6, <2>1
<1>8. IsColumn(new)
  <2>1. ClientKeepsContract
    BY DEF ClientFitsStore, ClientKeepsContract
  <2>2. ClientInv'
    BY <2>1, DeserFromFileStep DEF StoreInv
  <2> QED BY <1>2, <2>2 DEF ClientInv, TypeOK
<1> HIDE DEF new, column
<1>9. FlattenSeq(read) = [p \in 1..num |-> GetTuple_(new, p - 1)]
  <2>1. CodesIn(columns[1], part) = read
    <3> HIDE DEF n
    <3> QED BY <1>4, <1>5, CodesOfSubSeq
  <2>2. CodesIn(columns[1], new.blocks) = CodesIn(new, new.blocks)
    BY <1>3, <1>7, CodesOfLike
  <2>3. FlattenSeq(CodesIn(new, new.blocks)) = [p \in 1..new.num_tuples |-> GetTuple_(new, p - 1)]
    BY <1>8, FlattenColumn
  <2> HIDE DEF part, read
  <2> QED BY <1>7, <2>1, <2>2, <2>3
<1>10. /\ before \in Seq(Seq(T)) /\ read \in Seq(Seq(T)) /\ after \in Seq(Seq(T))
       /\ before \o read = SubSeq(FileCodes, 1, file_pos + n)
       /\ (before \o read) \o after = FileCodes
  <2> DEFINE U == Seq(T)
  <2> HIDE DEF U, n
  <2>1. FileCodes \in Seq(U) /\ Len(FileCodes) = Len(file)
    BY <1>5 DEF U
  <2>2. before \in Seq(U) /\ read \in Seq(U) /\ after \in Seq(U)
    BY <1>4, <1>5, <2>1
  <2>3. before \o read = SubSeq(FileCodes, 1, file_pos + n)
    <3>1. /\ 1 \in 1..(Len(FileCodes) + 1) /\ file_pos \in (1 - 1)..Len(FileCodes)
          /\ file_pos + n \in file_pos..Len(FileCodes)
      BY <1>4, <1>5
    <3> QED BY <2>1, <3>1, ConcatAdjacentSubSeq
  <2>4. SubSeq(FileCodes, 1, file_pos + n) \o after = SubSeq(FileCodes, 1, Len(FileCodes))
    <3> DEFINE m == file_pos + n
    <3>1. /\ 1 \in 1..(Len(FileCodes) + 1) /\ m \in (1 - 1)..Len(FileCodes)
          /\ Len(FileCodes) \in m..Len(FileCodes)
      BY <1>4, <1>5
    <3> HIDE DEF m
    <3>2. SubSeq(FileCodes, 1, m) \o SubSeq(FileCodes, m + 1, Len(FileCodes))
            = SubSeq(FileCodes, 1, Len(FileCodes))
      BY <2>1, <3>1, ConcatAdjacentSubSeq
    <3> QED BY <3>2 DEF m
  <2>5. SubSeq(FileCodes, 1, Len(FileCodes)) = FileCodes
    BY <2>1, SubSeqFull
  <2> QED BY <2>2, <2>3, <2>4, <2>5 DEF U
<1> DEFINE b == FlattenSeq(before)
           r == FlattenSeq(read)
           a == FlattenSeq(after)
<1>11. /\ b \in Seq(T) /\ r \in Seq(T) /\ a \in Seq(T)
       /\ FlattenSeq(before \o read) = b \o r /\ AllWritten = (b \o r) \o a
  <2> HIDE DEF before, read, after
  <2>1. b \in Seq(T) /\ r \in Seq(T) /\ a \in Seq(T)
    BY <1>10, FlattenType
  <2>2. FlattenSeq(before \o read) = b \o r
    BY <1>10, FlattenConcat
  <2>3. FlattenSeq((before \o read) \o after) = FlattenSeq(before \o read) \o a
    <3> DEFINE br == before \o read
    <3>1. br \in Seq(Seq(T))
      BY <1>10, ConcatProperties
    <3> HIDE DEF br
    <3>2. FlattenSeq(br \o after) = FlattenSeq(br) \o a
      BY <1>10, <3>1, FlattenConcat
    <3> QED BY <3>2 DEF br
  <2>4. AllWritten = FlattenSeq((before \o read) \o after)
    BY <1>10 DEF AllWritten
  <2> QED BY <2>1, <2>2, <2>3, <2>4
<1>12. AllRead = Len(b) /\ Len(r) = num
  <2>1. AllRead = Len(b)
    BY DEF AllRead
  <2> HIDE DEF r, T
  <2>2. Len(r) = num
    BY <1>4, <1>9, <1>11 DEF r
  <2> QED BY <2>1, <2>2
<1> HIDE DEF a, b, r, T, before, read, after
<1>13. ASSUME NEW x \in 0..(num - 1)
       PROVE  AllWritten[AllRead + x + 1] = GetTuple_(new, x)
  <2>1. x + 1 \in 1..num /\ (x + 1) - 1 = x
    <3> HIDE DEF num
    <3> QED BY <1>4
  <2>2. r[x + 1] = GetTuple_(new, x)
    BY <1>9, <2>1 DEF r
  <2> HIDE DEF num
  <2>3. Len(b) \in Nat
    BY <1>11, LenProperties
  <2>4. b \o r \in Seq(T) /\ Len(b \o r) = Len(b) + num
    BY <1>11, <1>12, ConcatProperties
  <2>5. (b \o r)[Len(b) + x + 1] = r[x + 1]
    <3>1. \A i \in 1..(Len(b) + Len(r)) : (b \o r)[i] = IF i <= Len(b) THEN b[i] ELSE r[i - Len(b)]
      BY <1>11, ConcatProperties
    <3> DEFINE i == Len(b) + x + 1
    <3>2. i \in 1..(Len(b) + Len(r)) /\ ~(i <= Len(b)) /\ i - Len(b) = x + 1
      BY <1>4, <1>12, <2>3
    <3> HIDE DEF i
    <3>3. (b \o r)[i] = r[x + 1]
      BY <3>1, <3>2
    <3> QED BY <3>3 DEF i
  <2>6. AllWritten[Len(b) + x + 1] = (b \o r)[Len(b) + x + 1]
    <3> DEFINE br == b \o r
               i == Len(b) + x + 1
    <3>1. br \in Seq(T) /\ Len(br) = Len(b) + num
      BY <2>4
    <3> HIDE DEF br
    <3>2. \A j \in 1..(Len(br) + Len(a)) : (br \o a)[j] = IF j <= Len(br) THEN br[j] ELSE a[j - Len(br)]
      BY <1>11, <3>1, ConcatProperties
    <3>3. Len(a) \in Nat
      BY <1>11, LenProperties
    <3>4. i \in 1..(Len(br) + Len(a)) /\ i <= Len(br)
      BY <1>4, <2>3, <3>1, <3>3
    <3> HIDE DEF i
    <3>5. (br \o a)[i] = br[i]
      BY <3>2, <3>4
    <3> QED BY <1>11, <3>5 DEF br, i
  <2> QED BY <1>12, <2>2, <2>5, <2>6
<1>14. /\ AllValues' = [AllValues EXCEPT ![c] = ColumnCodes(new)]
       /\ DOMAIN AllValues = {1, 2} /\ AllValues[c] = ColumnCodes(column)
       /\ UNCHANGED <<AllNums, AllSelected, FileCodes, AllWritten>>
  <2> HIDE DEF c
  <2>1. new.type = columns[c].type /\ new.bit_width = columns[c].bit_width
    BY <1>7 DEF column
  <2> QED BY <1>1, <1>2, <1>6, <2>1, OnlyCodesChange DEF column
<1>15. AllRead' = AllRead + num
  <2>1. AllRead' = Len(FlattenSeq(SubSeq(FileCodes, 1, file_pos + n)))
    <3> HIDE DEF n
    <3>1. SubSeq(FileCodes, 1, file_pos)' = SubSeq(FileCodes, 1, file_pos + n)
      BY <1>6, <1>14
    <3> QED BY <3>1 DEF AllRead
  <2>2. AllRead' = Len(b \o r)
    BY <1>10, <1>11, <2>1
  <2> HIDE DEF num
  <2>3. Len(b \o r) = Len(b) + Len(r)
    BY <1>11, ConcatProperties
  <2> QED BY <1>12, <2>2, <2>3
<1>16. Store!Call = Call
  BY DEF Store!Call, Call
<1>17. DOMAIN AllValues[c] = 0..(num - 1) /\ Store!Size(c) = num
  <2>1. DOMAIN ColumnCodes(column) = 0..(num - 1) /\ Cardinality(DOMAIN ColumnCodes(column)) = num
    BY <1>2, CodesOfColumn
  <2>2. Cardinality(DOMAIN AllValues[c]) = num
    BY <1>14, <2>1
  <2> QED BY <1>14, <2>1, <2>2 DEF Store!Size, Store!Cardinality, Cardinality
<1>18. ColumnCodes(new) = [x \in 0..(num - 1) |-> AllWritten[AllRead + x + 1]]
  BY <1>7, <1>13 DEF ColumnCodes
<1> HIDE DEF c, num
<1>19. Store!DeserFromFile
  <2>1. AllValues' = [AllValues EXCEPT ![c] = [x \in DOMAIN AllValues[c] |-> AllWritten[AllRead + x + 1]]]
    BY <1>14, <1>17, <1>18
  <2> QED BY <1>1, <1>14, <1>15, <1>16, <1>17, <2>1 DEF Store!DeserFromFile, c
<1> QED BY <1>1, <1>19, ImmediateStep

----------------------------------------------------------------------------
(***************************************************************************)
(* StoreInv is inductive.  First, which steps there are in a call, and     *)
(* which of them touch the loop and the iterator.                          *)
(***************************************************************************)
LEMMA StepsInCall ==
  ASSUME Next, pc' # "call"
  PROVE  \/ pc' = "load" /\ (BulkLoadArray \/ LoadBlock)
         \/ pc' = "loop" /\ (StartLoop \/ \E t \in Threads : TakeBlock(t) \/ RunBlock(t))
         \/ pc' \in {"Next", "seek"} /\ (NewIterator \/ Iterate)
<1>1. ~(Column \/ Resize \/ SetTuple_ \/ LoadTextFile \/ SerToFile \/ DeserFromFile \/ SetBit_)
  BY DEF Column, Resize, SetTuple_, LoadTextFile, SerToFile, DeserFromFile, SetBit_, Returns
<1>2. ~(EndLoad \/ EndLoop \/ NoBlockLeft)
  BY DEF EndLoad, EndLoop, NoBlockLeft, Returns
<1>3. CASE BulkLoadArray \/ LoadBlock
  BY <1>3 DEF BulkLoadArray, LoadBlock
<1>4. CASE StartLoop \/ \E t \in Threads : TakeBlock(t) \/ RunBlock(t)
  BY <1>4 DEF StartLoop, TakeBlock, RunBlock
<1>5. CASE NewIterator \/ NextPops
  BY <1>5 DEF NewIterator, NextPops, Iterate
<1>6. CASE NextBlock \/ SkipZeroWord \/ PushWord
  BY <1>6 DEF NextBlock, SkipZeroWord, PushWord, Iterate
<1>7. \/ BulkLoadArray \/ LoadBlock
      \/ StartLoop \/ (\E t \in Threads : TakeBlock(t) \/ RunBlock(t))
      \/ NewIterator \/ NextPops
      \/ NextBlock \/ SkipZeroWord \/ PushWord
  BY <1>1, <1>2 DEF Next, Iterate
<1> QED BY <1>3, <1>4, <1>5, <1>6, <1>7

(* Who writes the count, the iterator and the file.                        *)
LEMMA KeptByOthers ==
  ASSUME Next
  PROVE  /\ StartLoop \/ (\E t \in Threads : RunBlock(t)) \/ UNCHANGED ones
         /\ NewIterator \/ Iterate \/ UNCHANGED itor
         /\ Column \/ SerToFile \/ DeserFromFile \/ UNCHANGED <<file, file_pos>>
<1>1. CASE Column \/ Resize \/ SetTuple_ \/ LoadTextFile \/ SerToFile \/ DeserFromFile \/ SetBit_
  BY <1>1 DEF Column, Resize, SetTuple_, LoadTextFile, SerToFile, DeserFromFile, SetBit_,
              InStep, loop
<1>2. CASE BulkLoadArray \/ LoadBlock \/ EndLoad
  BY <1>2 DEF BulkLoadArray, LoadBlock, EndLoad, loop, store
<1>3. CASE StartLoop \/ (\E t \in Threads : TakeBlock(t) \/ RunBlock(t)) \/ EndLoop
  BY <1>3 DEF StartLoop, TakeBlock, RunBlock, EndLoop, loop, store
<1>4. CASE NewIterator
  BY <1>4 DEF NewIterator, loop, store
<1>5. CASE Iterate
  BY <1>5 DEF Iterate, NextPops, NextBlock, NoBlockLeft, SkipZeroWord, PushWord, loop, store
<1> QED BY <1>1, <1>2, <1>3, <1>4, <1>5 DEF Next

(* A call in progress fits as it did when it began.                        *)
LEMMA KeptFits ==
  ASSUME FitsStore, Call' = Call,
         Call.op \in {"BulkLoadArray", "Scan"} =>
           columns'[Call.column].bit_width = columns[Call.column].bit_width,
         Call.op = "Iterate" => UNCHANGED bitvectors,
         Call.op \in {"BulkLoadArray", "Iterate"} \cup LoopCalls
  PROVE  FitsStore'
<1>1. CASE Call.op = "BulkLoadArray"
  BY <1>1 DEF FitsStore, Fits
<1>2. CASE Call.op = "Scan"
  BY <1>2 DEF FitsStore, Fits
<1>3. CASE Call.op = "Iterate"
  BY <1>3 DEF FitsStore
<1>4. CASE Call.op \in LoopCalls \ {"Scan"}
  BY <1>4 DEF FitsStore, LoopCalls
<1> QED BY <1>1, <1>2, <1>3, <1>4

(* It also fits at its first step.                                         *)
LEMMA FitsKept ==
  ASSUME StoreInv, ClientFitsStore, Next, pc' # "call"
  PROVE  FitsStore'
<1>1. CallInv
  BY DEF StoreInv, ClientInv
<1>2. CASE BulkLoadArray
  <2>1. FitsStore /\ Call.op = "BulkLoadArray" /\ UNCHANGED <<script, ip, columns>>
    BY <1>2 DEF BulkLoadArray, Calls, ClientFitsStore, store
  <2>2. Call' = Call
    BY <2>1 DEF Call
  <2> QED BY <2>1, <2>2, KeptFits
<1>3. CASE LoadBlock
  <2>1. pc = "load" /\ UNCHANGED <<script, ip>>
    BY <1>3 DEF LoadBlock
  <2>2. FitsStore /\ Call.op = "BulkLoadArray" /\ Call' = Call /\ IsCall(Call)
    BY <1>1, <2>1, CallType DEF CallInv, StoreInv, ClientInv, Call
  <2> DEFINE c == Call.column
             column == columns[c]
  <2>3. c \in {1, 2} /\ IsColumn(column) /\ DOMAIN columns = {1, 2}
    BY <2>2 DEF IsCall, ColumnCalls, StoreInv, ClientInv, TypeOK
  <2>4. PICK data : columns' = [columns EXCEPT ![c].blocks[load.block_id + 1].data = data]
    BY <1>3 DEF LoadBlock
  <2>5. columns'[c].bit_width = column.bit_width
    <3>1. column \in [type : ColumnType, bit_width : 1..32, num_tuples : Nat,
                      blocks : [1..NumBlocks(column.num_tuples) ->
                        [num_tuples : 1..kNumTuplesPerBlock, data : [Positions -> StoredCode(column)]]]]
      BY <2>3 DEF IsColumn
    <3> QED BY <2>3, <2>4, <3>1
  <2> QED BY <2>2, <2>5, KeptFits
<1>4. CASE StartLoop
  <2>1. /\ FitsStore /\ Call.op \in LoopCalls /\ UNCHANGED <<script, ip, columns>>
    BY <1>4 DEF StartLoop, Calls, ClientFitsStore, LoopCalls
  <2>2. Call' = Call /\ Call.op # "Iterate"
    BY <2>1 DEF Call, LoopCalls
  <2> QED BY <2>1, <2>2, KeptFits
<1>5. ASSUME NEW t \in Threads, TakeBlock(t) \/ RunBlock(t)
      PROVE  FitsStore'
  <2>1. pc = "loop" /\ UNCHANGED <<script, ip, columns>>
    BY <1>5 DEF TakeBlock, RunBlock, store
  <2>2. FitsStore /\ Call.op \in LoopCalls /\ Call' = Call /\ Call.op # "Iterate"
    BY <1>1, <2>1 DEF CallInv, StoreInv, Call, LoopCalls
  <2> QED BY <2>1, <2>2, KeptFits
<1>6. CASE NewIterator
  <2>1. FitsStore /\ Call.op = "Iterate" /\ UNCHANGED <<script, ip, columns, bitvectors>>
    BY <1>6 DEF NewIterator, Calls, ClientFitsStore, store
  <2>2. Call' = Call
    BY <2>1 DEF Call
  <2> QED BY <2>1, <2>2, KeptFits
<1>7. CASE Iterate
  <2>1. pc \in {"Next", "seek"} /\ UNCHANGED <<script, ip, columns, bitvectors>>
    <3>1. ~NoBlockLeft
      BY DEF NoBlockLeft, Returns
    <3> QED BY <1>7, <3>1 DEF Iterate, NextPops, NextBlock, SkipZeroWord, PushWord, store
  <2>2. FitsStore /\ Call.op = "Iterate" /\ Call' = Call
    BY <1>1, <2>1 DEF CallInv, StoreInv, Call
  <2> QED BY <2>1, <2>2, KeptFits
<1> QED BY <1>2, <1>3, <1>4, <1>5, <1>6, <1>7, StepsInCall

(* No block is taken twice.                                                *)
LEMMA RunsKept ==
  ASSUME StoreInv, Next
  PROVE  RunInv'
<1>1. CASE pc' # "loop"
  BY <1>1 DEF RunInv
<1>2. CASE pc' = "loop"
  <2>1. TypeOK /\ CallInv /\ RunInv
    BY DEF StoreInv, ClientInv
  <2>2. CASE StartLoop
    <3>1. \A t \in Threads : running'[t] = None
      BY <2>1, <2>2 DEF StartLoop, Calls, CallInv
    <3> QED BY <3>1 DEF RunInv
  <2>3. ASSUME NEW t \in Threads, TakeBlock(t)
        PROVE  RunInv'
    <3>1. /\ pc = "loop" /\ running' = [running EXCEPT ![t] = next_block]
          /\ next_block' = next_block + 1 /\ next_block \in Nat /\ DOMAIN running = Threads
      BY <2>1, <2>3 DEF TakeBlock, TypeOK
    <3>2. \A u \in Threads : running[u] # None => running[u] < next_block /\ running[u] \in Nat
      <4>1. \A u \in Threads : running[u] = None \/ running[u] \in 0..(Iterations - 1)
        BY <2>1, <3>1 DEF CallInv
      <4> QED BY <2>1, <3>1, <4>1 DEF RunInv
    <3>3. \A u \in Threads : running'[u] = IF u = t THEN next_block ELSE running[u]
      BY <3>1
    <3>4. \A u \in Threads : running'[u] # None => running'[u] < next_block'
      BY <3>1, <3>2, <3>3
    <3>5. ASSUME NEW u \in Threads, NEW w \in Threads, running'[u] # None,
                 running'[w] = running'[u]
          PROVE  w = u
      <4>1. u # t /\ w # t => w = u
        BY <2>1, <3>1, <3>3, <3>5 DEF RunInv
      <4>2. u = t => w = t
        BY <3>1, <3>2, <3>3, <3>5
      <4>3. w = t => u = t
        BY <3>1, <3>2, <3>3, <3>5
      <4> QED BY <4>1, <4>2, <4>3
    <3> QED BY <3>4, <3>5 DEF RunInv
  <2>4. ASSUME NEW t \in Threads, RunBlock(t)
        PROVE  RunInv'
    <3>1. /\ pc = "loop" /\ running' = [running EXCEPT ![t] = None]
          /\ next_block' = next_block /\ DOMAIN running = Threads
      BY <2>1, <2>4 DEF RunBlock, TypeOK
    <3>2. \A u \in Threads : running'[u] = IF u = t THEN None ELSE running[u]
      BY <3>1
    <3> QED BY <2>1, <3>1, <3>2 DEF RunInv
  <2> QED BY <1>2, <2>2, <2>3, <2>4, StepsInCall
<1> QED BY <1>1, <1>2

(* The other calls leave the iterator.                                     *)
LEMMA IteratorKept ==
  ASSUME StoreInv, ClientFitsStore, Next
  PROVE  IteratorInv'
<1>1. CASE NewIterator \/ Iterate
  BY <1>1, NewIteratorMaps, IterateMaps
<1>2. CASE ~(NewIterator \/ Iterate)
  <2>1. itor' = itor
    BY <1>2, KeptByOthers
  <2>2. pc' \notin {"Next", "seek"}
    BY <1>2, StepsInCall
  <2>3. DOMAIN itor = {"cur_block_id", "cur_word_id", "block_offset", "stack"}
    BY DEF StoreInv, IteratorInv
  <2> QED BY <2>1, <2>2, <2>3 DEF IteratorInv
<1> QED BY <1>1, <1>2

----------------------------------------------------------------------------
(* No call but Column changes what kind of codes a column has.             *)
LEMMA KindKept ==
  ASSUME ClientInv, Next, ~Column
  PROVE  columns'[1].type = columns[1].type /\ columns'[1].bit_width = columns[1].bit_width
<1> DEFINE c == Call.column
           Blocks == [1..NumBlocks(columns[1].num_tuples) ->
                        [num_tuples : 1..kNumTuplesPerBlock, data : [Positions -> StoredCode(columns[1])]]]
<1>1. /\ DOMAIN columns = {1, 2} /\ TypeOK /\ CallInv
      /\ columns[1] \in [type : ColumnType, bit_width : 1..32, num_tuples : Nat, blocks : Blocks]
  BY DEF ClientInv, TypeOK, IsColumn
<1> HIDE DEF Blocks
<1>2. CASE Resize
  <2>1. PICK n, blocks : columns' = [columns EXCEPT ![c].num_tuples = n, ![c].blocks = blocks]
    BY <1>2 DEF Resize
  <2> HIDE DEF c
  <2> QED BY <1>1, <2>1
<1>3. CASE SetTuple_
  <2>1. PICK b, p, code : columns' = [columns EXCEPT ![c] = Written(@, b, p, code)]
    BY <1>3 DEF SetTuple_
  <2> HIDE DEF c
  <2> QED BY <1>1, <2>1 DEF Written
<1>4. CASE LoadTextFile \/ DeserFromFile
  <2>1. PICK blocks : columns' = [columns EXCEPT ![c].blocks = blocks]
    <3>1. CASE LoadTextFile
      BY <3>1 DEF LoadTextFile
    <3>2. CASE DeserFromFile
      BY <3>2 DEF DeserFromFile
    <3> QED BY <1>4, <3>1, <3>2
  <2> HIDE DEF c
  <2> QED BY <1>1, <2>1
<1>5. CASE LoadBlock
  <2>1. PICK b, data : columns' = [columns EXCEPT ![c].blocks[b].data = data]
    BY <1>5 DEF LoadBlock
  <2> HIDE DEF c
  <2> QED BY <1>1, <2>1
<1>6. CASE SerToFile \/ BulkLoadArray \/ EndLoad \/ SetBit_ \/ StartLoop \/ EndLoop
  BY <1>6 DEF SerToFile, BulkLoadArray, EndLoad, SetBit_, StartLoop, EndLoop, store
<1>7. CASE \E t \in Threads : TakeBlock(t) \/ RunBlock(t)
  BY <1>7 DEF TakeBlock, RunBlock, store
<1>8. CASE NewIterator \/ Iterate
  BY <1>8 DEF NewIterator, Iterate, NextPops, NextBlock, NoBlockLeft, SkipZeroWord, PushWord, store
<1> QED BY <1>2, <1>3, <1>4, <1>5, <1>6, <1>7, <1>8 DEF Next

(* The file still fits the first column.                                   *)
LEMMA KeptKind ==
  ASSUME NEW T, file \in Seq(T), T = AnyBlock(columns[1]), UNCHANGED file,
         \/ columns'[1].type = columns[1].type /\ columns'[1].bit_width = columns[1].bit_width
         \/ file = <<>>
  PROVE  file' \in Seq(AnyBlock(columns'[1]))
<1>1. CASE file = <<>>
  <2> DEFINE U == AnyBlock(columns'[1])
  <2> HIDE DEF U
  <2>1. file' \in Seq(U)
    BY <1>1
  <2> QED BY <2>1 DEF U
<1>2. CASE columns'[1].type = columns[1].type /\ columns'[1].bit_width = columns[1].bit_width
  <2>1. AnyBlock(columns'[1]) = T
    BY <1>2 DEF AnyBlock, StoredCode
  <2> HIDE DEF AnyBlock
  <2> QED BY <2>1
<1> QED BY <1>1, <1>2

(* The file is one of columns like the first.                              *)
LEMMA FileKept ==
  ASSUME StoreInv, ClientFitsStore, Next
  PROVE  FileInv'
<1> DEFINE B == AnyBlock(columns[1])
           B1 == AnyBlock(columns'[1])
<1>1. file \in Seq(B) /\ file_pos \in Nat /\ file_pos <= Len(file) /\ Len(file) \in Nat
  BY FileOfBlocks
<1>2. ClientInv /\ TypeOK /\ DOMAIN columns = {1, 2}
  BY DEF StoreInv, ClientInv, TypeOK
<1>3. file' \in Seq(B1) /\ file_pos' <= Len(file') => FileInv'
  BY DEF FileInv, AnyBlock
<1> HIDE DEF B, B1
<1>4. CASE Column
  <2>1. pc = "call" /\ ip <= Len(script) /\ Call.op = "Column" /\ IsCall(Call) /\ UNCHANGED <<file, file_pos>>
    BY <1>2, <1>4, BetweenCalls DEF Column
  <2>2. Call.column = 1 => file = <<>>
    BY <2>1 DEF ClientFitsStore, FitsStore
  <2>3. PICK new : columns' = [columns EXCEPT ![Call.column] = new]
    BY <1>4 DEF Column
  <2>4. columns'[1] = columns[1] \/ file = <<>>
    BY <1>2, <2>2, <2>3
  <2>5. file' \in Seq(B1)
    BY <1>1, <2>1, <2>4, KeptKind DEF B, B1
  <2> QED BY <1>1, <1>3, <2>1, <2>5
<1>5. CASE SerToFile
  <2>1. pc = "call" /\ ip <= Len(script) /\ Call.op = "SerToFile" /\ IsCall(Call)
    BY <1>2, <1>5, BetweenCalls DEF SerToFile
  <2> DEFINE column == columns[Call.column]
             blocks == column.blocks
  <2>2. file' = file \o blocks /\ UNCHANGED <<columns, file_pos>>
    BY <1>5 DEF SerToFile
  <2>3. IsColumn(column) /\ column.type = columns[1].type /\ column.bit_width = columns[1].bit_width
    BY <1>2, <2>1 DEF IsCall, ColumnCalls, TypeOK, ClientFitsStore, FitsStore, LikeFirst
  <2>4. AnyBlock(column) = B /\ B1 = B
    <3> HIDE DEF column
    <3> QED BY <2>2, <2>3 DEF AnyBlock, StoredCode, B, B1
  <2>5. blocks \in Seq(B)
    <3> HIDE DEF column
    <3> QED BY <2>3, <2>4, BlocksOfColumn
  <2> HIDE DEF blocks
  <2>6. file' \in Seq(B) /\ Len(file') = Len(file) + Len(blocks) /\ Len(blocks) \in Nat
    BY <1>1, <2>2, <2>5
  <2> QED BY <1>1, <1>3, <2>2, <2>4, <2>6
<1>6. CASE DeserFromFile
  <2>1. pc = "call" /\ ip <= Len(script) /\ Call.op = "DeserFromFile" /\ IsCall(Call)
    BY <1>2, <1>6, BetweenCalls DEF DeserFromFile
  <2>2. file' = file /\ file_pos' = file_pos + Len(columns[Call.column].blocks)
    BY <1>6 DEF DeserFromFile
  <2>3. file_pos + Len(columns[Call.column].blocks) <= Len(file)
    BY <2>1 DEF ClientFitsStore, IsAllowed, ReadsItsBlocks
  <2>4. columns'[1].type = columns[1].type /\ columns'[1].bit_width = columns[1].bit_width
    <3>1. ~Column
      BY <2>1 DEF Column, Calls
    <3> QED BY <1>2, <3>1, KindKept
  <2>5. file' \in Seq(B1)
    BY <1>1, <2>2, <2>4, KeptKind DEF B, B1
  <2> QED BY <1>3, <2>2, <2>3, <2>5
<1>7. CASE ~(Column \/ SerToFile \/ DeserFromFile)
  <2>1. UNCHANGED <<file, file_pos>>
    BY <1>7, KeptByOthers
  <2>2. columns'[1].type = columns[1].type /\ columns'[1].bit_width = columns[1].bit_width
    BY <1>2, <1>7, KindKept
  <2>3. file' \in Seq(B1)
    BY <1>1, <2>1, <2>2, KeptKind DEF B, B1
  <2> QED BY <1>1, <1>3, <2>1, <2>3
<1> QED BY <1>4, <1>5, <1>6, <1>7

----------------------------------------------------------------------------
(* A thread counts what is selected of its block.                          *)
LEMMA OnesOfPositions ==
  ASSUME ClientInv, pc = "loop", Call.op = "CountOnes", NEW b \in 0..(Iterations - 1)
  PROVE  LET bv == bitvectors[Call.bv]
             inside == {x \in Selected(bv) : block_id(x) = b}
         IN /\ IsFiniteSet(inside)
            /\ CountOnes(bv.blocks[b + 1].data) = Cardinality(inside)
<1> DEFINE bv == bitvectors[Call.bv]
           n == NumBlocks(bv.num)
           k == kNumTuplesPerBlock
           size == bv.blocks[b + 1].num
           data == bv.blocks[b + 1].data
           A == {p \in 0..(size - 1) : GetBit(data, p)}
           S == {x \in Selected(bv) : block_id(x) = b}
           g == [p \in A |-> b * k + p]
<1>1. Call.bv \in {1, 2} /\ IsBitVector(bv) /\ bv.num \in Nat /\ n \in Nat /\ Iterations = n
  BY InLoop DEF ClientInv
<1>2. b \in Nat /\ b + 1 \in 1..n /\ b \in 0..(n - 1) /\ k \in Nat \ {0}
  BY <1>1, BlockCapacity
<1>3. size \in 1..k /\ data \in Words(size) /\ size \in Nat \ {0}
  <2>1. size \in 1..k /\ data \in Words(size)
    BY <1>1, <1>2, VectorFields
  <2> HIDE DEF size
  <2> QED BY <1>2, <2>1
<1>4. \A w \in WordIds(size) : \A bit \in data[w] : w * kNumWordBits + bit < size
  <2>1. TailIsClear(bv.blocks[b + 1])
    BY <1>1, <1>2 DEF ClientInv, TailInv
  <2> QED BY <2>1 DEF TailIsClear
<1>5. BlockPositions(b) = {x \in 0..(bv.num - 1) : block_id(x) = b}
      /\ BlockPositions(b) = {b * k + p : p \in 0..(size - 1)}
  <2>1. BlockPositions(b) = {x \in 0..(bv.num - 1) : block_id(x) = b}
    BY <1>1, <1>2, PositionsOfBlock
  <2> QED BY <2>1 DEF BlockPositions
<1>6. \A x \in 0..(bv.num - 1) : block_id(x) = b => (x \in Selected(bv) <=> GetBit(data, pos_in_block(x)))
  BY <1>1, SelectedBits
<1>7. Selected(bv) \subseteq 0..(bv.num - 1)
  BY DEF Selected
<1> HIDE DEF size, data, n, bv, k
<1>8. ASSUME NEW p \in 0..(size - 1)
      PROVE  /\ b * k + p \in S <=> GetBit(data, p)
             /\ p \in Nat /\ b * k \in Nat
  <2>1. p \in Nat /\ p < kNumTuplesPerBlock
    BY <1>2, <1>3 DEF k
  <2>2. b * k \in Nat /\ block_id(b * k + p) = b /\ pos_in_block(b * k + p) = p
    BY <1>2, <2>1, PlaceOf DEF k
  <2>3. b * k + p \in 0..(bv.num - 1)
    BY <1>5
  <2> DEFINE x == b * k + p
  <2>4. x \in Selected(bv) <=> GetBit(data, pos_in_block(x))
    <3> HIDE DEF x
    <3> QED BY <1>6, <2>2, <2>3 DEF x
  <2> QED BY <2>1, <2>2, <2>4
<1> HIDE DEF S
<1>9. g \in Bijection(A, S)
  <2>1. g \in [A -> S]
    BY <1>8
  <2>2. \A p \in A : g[p] = b * k + p /\ p \in 0..(size - 1)
    OBVIOUS
  <2>3. ASSUME NEW p \in A, NEW q \in A, g[p] = g[q]
        PROVE  p = q
    <3> DEFINE o == b * k
    <3>1. o + p = o + q /\ o \in Nat /\ p \in Nat /\ q \in Nat
      BY <1>8, <2>2, <2>3
    <3> HIDE DEF o
    <3> QED BY <3>1
  <2>4. ASSUME NEW x \in S
        PROVE  \E p \in A : g[p] = x
    <3>1. x \in 0..(bv.num - 1) /\ block_id(x) = b
      BY <1>7 DEF S
    <3>2. PICK p \in 0..(size - 1) : x = b * k + p
      BY <1>5, <3>1
    <3>3. GetBit(data, p)
      BY <1>8, <3>2
    <3> QED BY <3>2, <3>3
  <2> HIDE DEF g, A
  <2>5. g \in Injection(A, S)
    BY <2>1, <2>3 DEF Injection, IsInjective
  <2>6. g \in Surjection(A, S)
    BY <2>1, <2>4 DEF Surjection
  <2> QED BY <2>5, <2>6 DEF Bijection
<1>10. IsFiniteSet(A)
  <2>1. size - 1 \in Int /\ 0 \in Int
    BY <1>3
  <2>2. IsFiniteSet(0..(size - 1))
    BY <2>1, FS_Interval
  <2> QED BY <2>2, FS_Subset
<1>11. CountOnes(data) = Cardinality(A)
  <2>1. data \in [WordIds(size) -> SUBSET WordBits]
    BY <1>3 DEF Words
  <2> QED BY <1>3, <1>4, <2>1, OnesOfTuples
<1> HIDE DEF A, g
<1>12. IsFiniteSet(S) /\ Cardinality(S) = Cardinality(A)
  BY <1>9, <1>10, FS_Bijection DEF ExistsBijection
<1> QED BY <1>11, <1>12 DEF S, data, bv

(* One element gets n more.                                                *)
LEMMA SharesOfMore ==
  ASSUME NEW S, IsFiniteSet(S), NEW f \in [S -> Nat], NEW g \in [S -> Nat],
         NEW x \in S, NEW n \in Nat, g[x] = f[x] + n, \A y \in S \ {x} : g[y] = f[y]
  PROVE  Cardinality(Shares(g, S)) = Cardinality(Shares(f, S)) + n
<1> DEFINE T == S \ {x}
<1>1. g[x] = f[x] + n /\ f[x] \in Nat /\ \A y \in T : g[y] = f[y]
  OBVIOUS
<1>2. Shares(g, T) = Shares(f, T)
  BY <1>1 DEF Shares
<1>3. S \in SUBSET S /\ T \in SUBSET S
  OBVIOUS
<1>4. Cardinality(Shares(g, S)) = g[x] + Cardinality(Shares(g, T))
  BY <1>3, SharesOfOne
<1>5. Cardinality(Shares(f, S)) = f[x] + Cardinality(Shares(f, T))
  BY <1>3, SharesOfOne
<1>6. Cardinality(Shares(f, T)) \in Nat
  <2>1. IsFiniteSet(Shares(f, T))
    BY <1>3, FiniteShares
  <2> QED BY <2>1, FS_CardinalityType
<1>7. Cardinality(Shares(g, T)) = Cardinality(Shares(f, T))
  BY <1>2, Zenon
<1> DEFINE a == Cardinality(Shares(f, T))
           b == Cardinality(Shares(f, S))
           c == Cardinality(Shares(g, S))
<1>8. a \in Nat /\ b = f[x] + a /\ c = f[x] + n + a
  <2> DEFINE d == Cardinality(Shares(g, T))
  <2>1. d = a /\ a \in Nat /\ b = f[x] + a /\ c = g[x] + d
    BY <1>4, <1>5, <1>6, <1>7, Zenon
  <2> HIDE DEF a, b, c, d
  <2> QED BY <1>1, <2>1
<1> HIDE DEF a, b, c
<1>9. c = b + n
  BY <1>1, <1>8
<1> QED BY <1>9 DEF b, c

(* Nothing counted.                                                        *)
LEMMA CountsOfNone ==
  ASSUME NEW f \in [Threads -> Nat], \A t \in Threads : f[t] = 0
  PROVE  Cardinality(Shares(f, Threads)) = 0
<1>1. Shares(f, Threads) = {}
  BY DEF Shares
<1> QED BY <1>1, FS_EmptySet, Zenon

----------------------------------------------------------------------------
(* The count of a thread is a number.                                      *)
LEMMA ShareOfThread ==
  ASSUME StoreInv, Next
  PROVE  ones' \in [Threads -> Nat]
<1>1. ones \in [Threads -> Nat] /\ ClientInv /\ CallInv
  BY DEF StoreInv, CountInv, ClientInv
<1>2. CASE StartLoop
  BY <1>2 DEF StartLoop
<1>3. ASSUME NEW t \in Threads, RunBlock(t)
      PROVE  ones' \in [Threads -> Nat]
  <2> DEFINE b == running[t]
             n == CountOnes(bitvectors[Call.bv].blocks[b + 1].data)
  <2>1. /\ ones' = IF Call.op = "CountOnes" THEN [ones EXCEPT ![t] = @ + n] ELSE ones
        /\ pc = "loop" /\ b # None
    BY <1>3 DEF RunBlock
  <2>2. Call.op = "CountOnes" => n \in Nat
    <3> SUFFICES ASSUME Call.op = "CountOnes"
                 PROVE  n \in Nat
      OBVIOUS
    <3>1. b \in 0..(Iterations - 1)
      BY <1>1, <2>1 DEF CallInv
    <3> DEFINE S == {x \in Selected(bitvectors[Call.bv]) : block_id(x) = b}
    <3> HIDE DEF b
    <3>2. IsFiniteSet(S) /\ n = Cardinality(S)
      BY <1>1, <2>1, <3>1, OnesOfPositions
    <3> HIDE DEF S
    <3>3. Cardinality(S) \in Nat
      BY <3>2, FS_CardinalityType
    <3> HIDE DEF n
    <3> QED BY <3>2, <3>3
  <2> HIDE DEF n
  <2> QED BY <1>1, <2>1, <2>2
<1> QED BY <1>1, <1>2, <1>3, KeptByOthers

(* CountInv, without the fold.                                             *)
LEMMA CountedByShares ==
  CountInv <=> /\ ones \in [Threads -> Nat]
               /\ pc = "loop" /\ Call.op = "CountOnes" =>
                    Cardinality(Shares(ones, Threads))
                      = Cardinality(Selected(bitvectors[Call.bv]) \ Undone)
<1>1. CASE ones \in [Threads -> Nat]
  <2>1. FoldFunction(+, 0, ones) = Cardinality(Shares(ones, Threads))
    BY <1>1, SumOfFunction, ThreadsAssumption
  <2> QED BY <1>1, <2>1, Zenon DEF CountInv
<1>2. CASE ~(ones \in [Threads -> Nat])
  BY <1>2, Zenon DEF CountInv
<1> QED BY <1>1, <1>2

(* The block that a thread has run adds what is selected of it.            *)
LEMMA CountsBlock ==
  ASSUME StoreInv, NEW t \in Threads, RunBlock(t), Call.op = "CountOnes"
  PROVE  Cardinality(Shares(ones', Threads))
           = Cardinality((Selected(bitvectors[Call.bv]) \ Undone)')
<1> DEFINE bv == bitvectors[Call.bv]
           b == running[t]
           S == Selected(bv)
           inside == {x \in S : block_id(x) = b}
           n == CountOnes(bv.blocks[b + 1].data)
           done == S \ Undone
<1>1. /\ ClientInv /\ CallInv /\ ones \in [Threads -> Nat] /\ pc = "loop"
      /\ b \in 0..(Iterations - 1) /\ ones' = [ones EXCEPT ![t] = @ + n]
  <2>1. pc = "loop" /\ b # None /\ ones' = [ones EXCEPT ![t] = @ + n]
    BY DEF RunBlock
  <2> HIDE DEF n
  <2> QED BY <2>1 DEF StoreInv, CountInv, ClientInv, CallInv
<1>4. Cardinality(Shares(ones, Threads)) = Cardinality(done)
  BY <1>1, CountedByShares DEF StoreInv
<1>5. IsFiniteSet(inside) /\ n = Cardinality(inside)
  <2> HIDE DEF b
  <2> QED BY <1>1, OnesOfPositions
<1>6. n \in Nat
  <2> HIDE DEF inside, n
  <2> QED BY <1>5, FS_CardinalityType
<1>7. Cardinality(Shares(ones', Threads)) = Cardinality(Shares(ones, Threads)) + n
  <2> HIDE DEF n
  <2>1. ones' \in [Threads -> Nat] /\ ones \in [Threads -> Nat]
    BY <1>1, <1>6
  <2>2. ones'[t] = ones[t] + n /\ \A u \in Threads \ {t} : ones'[u] = ones[u]
    BY <1>1
  <2> QED BY <1>6, <2>1, <2>2, SharesOfMore, ThreadsAssumption, Zenon
<1> DEFINE num == bv.num
           now == {x \in 0..(num - 1) : block_id(x) = b}
<1>8. Undone' = Undone \ now /\ now \subseteq Undone
  BY DoneByRun
<1>9. Selected(bitvectors[Call.bv])' = S
  <2>1. /\ IsBitVector(bitvectors'[Call.bv]) /\ bitvectors'[Call.bv].num = num /\ Call' = Call
    BY <1>1, RunsBlock
  <2>2. \A x \in 0..(num - 1) : x \in Selected(bitvectors'[Call.bv]) <=> x \in S
    <3> TAKE x \in 0..(num - 1)
    <3>1. x \in Selected(bitvectors'[Call.bv])
            <=> IF block_id(x) = b THEN GetBit(BlockResult(b), pos_in_block(x)) ELSE x \in S
      BY SelectedByRun
    <3>2. block_id(x) = b => (x \in S <=> GetBit(bv.blocks[b + 1].data, pos_in_block(x)))
      <4>1. IsBitVector(bv)
        BY <1>1, InLoop DEF ClientInv
      <4>2. x \in S <=> GetBit(bv.blocks[block_id(x) + 1].data, pos_in_block(x))
        <5> HIDE DEF bv
        <5> QED BY <4>1, SelectedBits
      <4> QED BY <4>2
    <3>3. BlockResult(b) = bv.blocks[b + 1].data
      BY DEF BlockResult
    <3> QED BY <3>1, <3>2, <3>3
  <2>3. Selected(bitvectors'[Call.bv]) \subseteq 0..(num - 1) /\ S \subseteq 0..(num - 1)
    BY <2>1 DEF Selected
  <2>4. Selected(bitvectors'[Call.bv]) = S
    <3> HIDE DEF S
    <3> QED BY <2>2, <2>3
  <2>5. Selected(bitvectors[Call.bv])' = Selected(bitvectors'[Call.bv])
    BY <2>1 DEF Selected, IsSet, GetBit, block_id, pos_in_block
  <2> QED BY <2>4, <2>5
<1>10. inside = S \cap now
  BY DEF Selected
<1>11. IsFiniteSet(S)
  <2>1. num \in Nat
    BY <1>1, LoopOver
  <2> DEFINE all == 0..(num - 1)
  <2>2. num - 1 \in Int /\ 0 \in Int
    BY <2>1
  <2>3. IsFiniteSet(all) /\ S \in SUBSET all
    BY <2>2, FS_Interval DEF Selected
  <2> HIDE DEF all, S
  <2> QED BY <2>3, FS_Subset
<1> HIDE DEF S, now
<1>12. S \ Undone' = done \cup inside /\ done \cap inside = {} /\ done \in SUBSET S
  BY <1>8, <1>10
<1> HIDE DEF inside, done
<1>13. IsFiniteSet(done) /\ Cardinality(done) \in Nat
  <2>1. IsFiniteSet(done)
    BY <1>11, <1>12, FS_Subset
  <2> QED BY <2>1, FS_CardinalityType
<1>14. Cardinality(done \cup inside) = Cardinality(done) + n
  <2>1. Cardinality(done \cup inside)
          = Cardinality(done) + Cardinality(inside) - Cardinality(done \cap inside)
    BY <1>5, <1>13, FS_Union
  <2>2. Cardinality(done \cap inside) = 0
    BY <1>12, FS_EmptySet, Zenon
  <2> HIDE DEF n
  <2> QED BY <1>5, <1>6, <1>13, <2>1, <2>2
<1>15. (Selected(bitvectors[Call.bv]) \ Undone)' = done \cup inside
  BY <1>9, <1>12
<1> HIDE DEF n
<1>16. Cardinality((Selected(bitvectors[Call.bv]) \ Undone)') = Cardinality(done) + n
  BY <1>14, <1>15, Zenon
<1>17. Cardinality(Shares(ones', Threads)) = Cardinality(done) + n
  BY <1>4, <1>7, Zenon
<1> QED BY <1>16, <1>17, Zenon

(* The threads have counted what is set in the finished blocks.            *)
LEMMA CountKept ==
  ASSUME StoreInv, ClientFitsStore, Next
  PROVE  CountInv'
<1> DEFINE counted == Selected(bitvectors[Call.bv]) \ Undone
<1>1. ones' \in [Threads -> Nat]
  BY ShareOfThread
<1>2. ASSUME pc' = "loop", Call'.op = "CountOnes"
      PROVE  Cardinality(Shares(ones', Threads)) = Cardinality(counted')
  <2>1. ClientInv /\ CallInv /\ ones \in [Threads -> Nat]
    BY DEF StoreInv, ClientInv, CountInv
  <2>3. CASE StartLoop
    <3>1. Cardinality(Shares(ones', Threads)) = 0
      <4>1. \A t \in Threads : ones'[t] = 0
        BY <2>3 DEF StartLoop
      <4> QED BY <1>1, <4>1, CountsOfNone
    <3>2. /\ Call' = Call /\ Call.op = "CountOnes" /\ UNCHANGED bitvectors
      <4>1. UNCHANGED <<script, ip>>
        BY <2>3 DEF StartLoop
      <4>2. Call' = Call
        BY <4>1 DEF Call
      <4> QED BY <1>2, <2>3, <4>2 DEF StartLoop
    <3>3. counted' = {}
      <4>1. ClientKeepsContract
        BY DEF ClientFitsStore, ClientKeepsContract
      <4>2. ClientInv'
        BY <2>1, <2>3, <4>1, StartLoopStep
      <4>3. (ClientInv /\ pc = "loop" =>
              LET num == bitvectors[Call.bv].num IN
              /\ Call.bv \in {1, 2} /\ num \in Nat /\ Iterations = NumBlocks(num) /\ Iterations \in Nat
              /\ Undone = {x \in 0..(num - 1) : block_id(x) \in Unfinished})'
        BY LoopOver, PTL
      <4> DEFINE num == bitvectors'[Call'.bv].num
      <4>4. /\ num \in Nat /\ Iterations' = NumBlocks(num) /\ Iterations' \in Nat
            /\ Undone' = {x \in 0..(num - 1) : block_id(x) \in Unfinished'}
        BY <1>2, <4>2, <4>3
      <4>5. Unfinished' = 0..(Iterations' - 1)
        BY <2>3 DEF StartLoop, Unfinished
      <4>6. Selected(bitvectors[Call.bv])' \subseteq 0..(num - 1)
        BY DEF Selected
      <4> HIDE DEF num
      <4>7. \A x \in 0..(num - 1) : block_id(x) \in 0..(NumBlocks(num) - 1)
        BY <4>4, BlocksOfPositions
      <4> QED BY <4>4, <4>5, <4>6, <4>7
    <3>4. Cardinality(counted') = 0
      BY <3>3, FS_EmptySet, Zenon
    <3> QED BY <3>1, <3>4, Zenon
  <2>4. ASSUME NEW t \in Threads, TakeBlock(t)
        PROVE  Cardinality(Shares(ones', Threads)) = Cardinality(counted')
    <3>1. pc = "loop" /\ pc' = "loop" /\ UNCHANGED <<script, ip, ones, bitvectors>>
      BY <2>4 DEF TakeBlock, store
    <3>2. Call' = Call /\ Unfinished' = Unfinished
      BY <2>1, <2>4, TakenIsUnfinished
    <3>3. Undone' = Undone
      BY <3>1, <3>2 DEF Undone, BlockPositions
    <3>4. Selected(bitvectors[Call.bv])' = Selected(bitvectors[Call.bv])
      BY <3>1, <3>2 DEF Selected, IsSet, GetBit, block_id, pos_in_block
    <3>5. counted' = counted
      BY <3>3, <3>4
    <3>6. Call.op = "CountOnes"
      BY <1>2, <3>2
    <3>7. Cardinality(Shares(ones, Threads)) = Cardinality(counted)
      BY <3>1, <3>6, CountedByShares DEF StoreInv
    <3>8. ones' = ones
      BY <3>1
    <3> HIDE DEF counted
    <3> QED BY <3>5, <3>7, <3>8, Zenon
  <2>5. ASSUME NEW t \in Threads, RunBlock(t)
        PROVE  Cardinality(Shares(ones', Threads)) = Cardinality(counted')
    <3>1. Call' = Call
      BY <2>1, <2>5, RunsBlock
    <3>2. Call.op = "CountOnes"
      BY <1>2, <3>1
    <3>3. Cardinality(Shares(ones', Threads)) = Cardinality(counted')
      BY <2>5, <3>2, CountsBlock
    <3> QED BY <3>3, Zenon
  <2> QED BY <1>2, <2>3, <2>4, <2>5, StepsInCall
<1>3. (pc = "loop" /\ Call.op = "CountOnes" => Cardinality(Shares(ones, Threads)) = Cardinality(counted))'
  BY <1>2, Zenon
<1>4. (ones \in [Threads -> Nat])'
  BY <1>1, Zenon
<1>5. (CountInv <=> /\ ones \in [Threads -> Nat]
                    /\ pc = "loop" /\ Call.op = "CountOnes" =>
                         Cardinality(Shares(ones, Threads)) = Cardinality(counted))'
  BY CountedByShares, PTL
<1> QED BY <1>3, <1>4, <1>5, Zenon

----------------------------------------------------------------------------
(* The invariant holds at first.                                           *)
LEMMA StoreStarts ==
  ASSUME Init
  PROVE  StoreInv
<1>1. ClientInv /\ pc = "call"
  BY ClientStarts DEF Init
<1>2. RunInv
  BY <1>1 DEF RunInv
<1>3. CountInv
  <2>1. ones \in [Threads -> Nat]
    BY DEF Init
  <2> QED BY <1>1, <2>1, CountedByShares
<1>4. IteratorInv
  BY <1>1 DEF IteratorInv, Init
<1>5. FileInv
  <2> DEFINE B == [num_tuples : 1..kNumTuplesPerBlock, data : [Positions -> StoredCode(columns[1])]]
  <2>1. file = <<>> /\ file_pos = 0
    BY DEF Init
  <2> HIDE DEF B
  <2>2. file \in Seq(B) /\ file_pos <= Len(file)
    BY <2>1, EmptySeq
  <2> QED BY <2>2 DEF FileInv, B
<1> QED BY <1>1, <1>2, <1>3, <1>4, <1>5 DEF StoreInv

(* A step that changes nothing keeps it.                                   *)
LEMMA StoreStutters ==
  ASSUME StoreInv, UNCHANGED vars
  PROVE  (pc # "call" => FitsStore)' /\ RunInv' /\ CountInv' /\ IteratorInv' /\ FileInv'
<1>1. /\ UNCHANGED <<script, ip, pc, columns, bitvectors, file, file_pos, next_block, running, ones>>
      /\ UNCHANGED <<itor, result>> /\ Call' = Call
  BY DEF vars, store, loop, Call
<1>2. (pc # "call" => FitsStore)'
  BY <1>1 DEF StoreInv, FitsStore, Fits, LikeFirst
<1>3. RunInv'
  BY <1>1 DEF StoreInv, RunInv
<1>4. CountInv'
  <2> DEFINE counted == Selected(bitvectors[Call.bv]) \ Undone
  <2>1. Undone' = Undone
    BY <1>1 DEF vars, Undone, BlockPositions, Unfinished, Iterations, Range
  <2>2. Selected(bitvectors[Call.bv])' = Selected(bitvectors[Call.bv])
    BY <1>1 DEF Selected, IsSet, GetBit, block_id, pos_in_block
  <2>3. counted' = counted
    BY <2>1, <2>2
  <2> HIDE DEF counted
  <2>4. (CountInv <=> /\ ones \in [Threads -> Nat]
                      /\ pc = "loop" /\ Call.op = "CountOnes" =>
                           Cardinality(Shares(ones, Threads)) = Cardinality(counted))'
    BY CountedByShares, PTL DEF counted
  <2>5. /\ ones \in [Threads -> Nat]
        /\ pc = "loop" /\ Call.op = "CountOnes" =>
             Cardinality(Shares(ones, Threads)) = Cardinality(counted)
    BY CountedByShares DEF StoreInv, counted
  <2>6. ones' = ones /\ pc' = pc /\ Call' = Call
    BY <1>1
  <2> QED BY <2>3, <2>4, <2>5, <2>6, Zenon
<1>5. IteratorInv'
  <2>1. Selected(bitvectors[Call.bv])' = Selected(bitvectors[Call.bv])
    BY <1>1 DEF Selected, IsSet, GetBit, block_id, pos_in_block
  <2>2. IteratedBlock' = IteratedBlock /\ Waiting' = Waiting /\ Cursor' = Cursor
    BY <1>1 DEF IteratedBlock, Waiting, Cursor
  <2> QED BY <1>1, <2>1, <2>2 DEF StoreInv, IteratorInv, Range
<1>6. FileInv'
  BY <1>1 DEF StoreInv, FileInv, StoredCode
<1> QED BY <1>2, <1>3, <1>4, <1>5, <1>6

(* Every step of a client that keeps to both contracts.                    *)
LEMMA StoreStep ==
  ASSUME StoreInv, ClientFitsStore, [Next]_vars
  PROVE  StoreInv'
<1>1. ClientInv'
  BY ClientStep DEF StoreInv, ClientFitsStore, ClientKeepsContract
<1>2. CASE Next
  <2>1. (pc # "call" => FitsStore)'
    BY <1>2, FitsKept
  <2>2. RunInv' /\ CountInv' /\ IteratorInv' /\ FileInv'
    BY <1>2, RunsKept, CountKept, IteratorKept, FileKept
  <2> QED BY <1>1, <2>1, <2>2 DEF StoreInv
<1>3. CASE UNCHANGED vars
  BY <1>1, <1>3, StoreStutters DEF StoreInv
<1> QED BY <1>2, <1>3

(***************************************************************************)
(* StoreInv holds always: while a client that keeps to both contracts is   *)
(* in a call, the threads run different blocks and have counted what is    *)
(* selected of those they have finished, and the iterator has returned or  *)
(* holds on its stack what is selected before its cursor.                  *)
(***************************************************************************)
THEOREM StoreIsKept == Spec /\ []ClientFitsStore => []StoreInv
<1>1. Init => StoreInv
  BY StoreStarts
<1>2. StoreInv /\ ClientFitsStore /\ [Next]_vars => StoreInv'
  BY StoreStep
<1> QED BY <1>1, <1>2, PTL DEF Spec

----------------------------------------------------------------------------
(* The store is empty at first.                                            *)
LEMMA StoreInits ==
  ASSUME Init
  PROVE  Store!Init
<1>1. /\ ip = 1 /\ pc = "call" /\ file = <<>> /\ file_pos = 0 /\ result = <<>>
      /\ DOMAIN columns = {1, 2} /\ DOMAIN bitvectors = {1, 2}
      /\ \A c \in {1, 2} : columns[c].num_tuples = 0
      /\ \A v \in {1, 2} : bitvectors[v].num = 0
  BY DEF Init
<1>2. Undone = {}
  BY <1>1 DEF Undone
<1>3. AllValues = [c \in DOMAIN AllValues |-> <<>>]
  <2>1. \A c \in {1, 2} : ColumnCodes(columns[c]) = <<>>
    BY <1>1 DEF ColumnCodes
  <2> QED BY <1>1, <2>1 DEF AllValues
<1>4. \A v \in {1, 2} : Selected(bitvectors[v]) = {}
  BY <1>1 DEF Selected
<1>5. AllSelected = [v \in DOMAIN AllSelected |-> {}]
  BY <1>1, <1>4 DEF AllSelected
<1>6. AllNums = [v \in DOMAIN AllSelected |-> 0]
  BY <1>1 DEF AllNums, AllSelected
<1>7. FileCodes = <<>>
  BY <1>1 DEF FileCodes
<1>8. AllWritten = <<>>
  BY <1>7, FlattenNone DEF AllWritten
<1>9. AllRead = 0
  <2>1. SubSeq(FileCodes, 1, file_pos) = <<>>
    BY <1>1, <1>7
  <2>2. FlattenSeq(SubSeq(FileCodes, 1, file_pos)) = <<>>
    BY <2>1, FlattenNone, Zenon
  <2> QED BY <2>2 DEF AllRead
<1> QED BY <1>1, <1>2, <1>3, <1>5, <1>6, <1>8, <1>9 DEF Store!Init

(* Every step is one of the store, or the store does not see it.           *)
LEMMA StoreNext ==
  ASSUME StoreInv, ClientFitsStore, Next
  PROVE  Store!Next \/ UNCHANGED Store!vars
<1>1. CASE Column \/ Resize \/ SetTuple_ \/ LoadTextFile
  BY <1>1, ColumnMaps, ResizeMaps, SetTupleMaps, LoadTextFileMaps DEF Store!Next
<1>2. CASE SerToFile \/ DeserFromFile \/ SetBit_
  BY <1>2, SerToFileMaps, DeserFromFileMaps, SetBitMaps DEF Store!Next
<1>3. CASE BulkLoadArray \/ LoadBlock \/ EndLoad
  BY <1>3, BulkLoadArrayMaps, LoadBlockMaps, EndLoadMaps DEF Store!Next
<1>4. CASE StartLoop \/ EndLoop
  BY <1>4, StartLoopMaps, EndLoopMaps DEF Store!Next
<1>5. ASSUME NEW t \in Threads, TakeBlock(t) \/ RunBlock(t)
      PROVE  Store!Next \/ UNCHANGED Store!vars
  BY <1>5, TakeBlockMaps, RunBlockMaps DEF Store!Next
<1>6. CASE NewIterator \/ Iterate
  BY <1>6, NewIteratorMaps, IterateMaps DEF Store!Next
<1> QED BY <1>1, <1>2, <1>3, <1>4, <1>5, <1>6 DEF Next

(* Nor does it see a step that changes nothing.                            *)
LEMMA StoreKept ==
  ASSUME UNCHANGED vars
  PROVE  UNCHANGED Store!vars
<1>1. /\ UNCHANGED <<script, ip, pc, columns, bitvectors, file, file_pos, next_block, running>>
      /\ UNCHANGED <<load, result>> /\ Call' = Call
  BY DEF vars, store, loop, Call
<1>2. Undone' = Undone
  BY <1>1 DEF Undone, BlockPositions, Unfinished, Iterations, Range
<1>3. AllValues' = AllValues
  BY <1>1 DEF AllValues, ColumnCodes, GetTuple_, Code, block_id, pos_in_block
<1>4. AllNums' = AllNums
  BY <1>1 DEF AllNums
<1>5. AllSelected' = AllSelected
  BY <1>1 DEF AllSelected, Selected, IsSet, GetBit, block_id, pos_in_block
<1>6. FileCodes' = FileCodes
  BY <1>1 DEF FileCodes, Code
<1>7. AllWritten' = AllWritten /\ AllRead' = AllRead
  BY <1>1, <1>6, Zenon DEF AllWritten, AllRead
<1> QED BY <1>1, <1>2, <1>3, <1>4, <1>5, <1>7 DEF Store!vars

(***************************************************************************)
(* Blocks, words, the order of the threads, the iterator's stack and how   *)
(* codes are stored do not show to such a client: its columns are          *)
(* functions, its bit vectors sets, and every call does to them what the   *)
(* store's does.                                                           *)
(***************************************************************************)
THEOREM ClientImplementsStore == Spec /\ []ClientFitsStore => ImplementsColumnStore
<1>1. Init => Store!Init
  BY StoreInits
<1>2. StoreInv /\ ClientFitsStore /\ [Next]_vars => [Store!Next]_(Store!vars)
  BY StoreNext, StoreKept
<1> QED BY <1>1, <1>2, StoreIsKept, PTL DEF Spec, ImplementsColumnStore, Store!Spec
=============================================================================
