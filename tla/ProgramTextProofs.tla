--------------------------- MODULE ProgramTextProofs ---------------------------
(***************************************************************************)
(* The texts of the editor and the lines of the document are well formed   *)
(* whatever the edits and for all bounds.  The lemmas about joined texts,  *)
(* their rows and the documents that show them are what LoadedTextProofs   *)
(* rests on.                                                               *)
(***************************************************************************)
EXTENDS ProgramText, Integers, FiniteSetTheorems, FunctionTheorems,
        SequenceTheorems, WellFoundedInduction, TLAPS

\* What a line of the editor may be, and a line of the document.
Lines == Seq(Chars)
DocumentLines == {l \in Texts : Newlines(l) \subseteq {Len(l)}}

-----------------------------------------------------------------------------
(* Numbers.                                                                *)

\* A set of numbers has a least one: the form of induction used below.
LEMMA LeastNumber ==
    ASSUME NEW T \in SUBSET Nat, T # {}
    PROVE  \E n \in T : \A m \in T : n <= m
PROOF
  <1>1. IsWellFoundedOn(OpToRel(<, Nat), Nat)
    BY NatLessThanWellFounded
  <1>2. PICK n \in T : \A m \in T : ~(<<m, n>> \in OpToRel(<, Nat))
    BY <1>1, WFMin
  <1>3. \A m \in T : ~(m < n)
    BY <1>2, Zenon DEF OpToRel
  <1>4. \A m \in T : m \in Nat
    OBVIOUS
  <1>5. \A m \in T : n <= m
    BY <1>3, <1>4, SMT
  <1> QED BY <1>5

LEMMA MinOfNumbers ==
    ASSUME NEW T \in SUBSET Nat, T # {}
    PROVE  Min(T) \in T /\ \A m \in T : Min(T) <= m
PROOF
  <1> DEFINE Least(n) == n \in T /\ \A m \in T : n <= m
  <1>1. \E n : Least(n)
    BY LeastNumber
  <1>2. Min(T) = CHOOSE n : Least(n)
    BY DEF Min
  <1> HIDE DEF Least
  <1>3. Least(CHOOSE n : Least(n))
    BY <1>1
  <1> QED BY <1>2, <1>3 DEF Least

LEMMA MaxOfNumbers ==
    ASSUME NEW T \in SUBSET Nat, T # {}, NEW b \in Nat, \A m \in T : m <= b
    PROVE  Max(T) \in T /\ \A m \in T : m <= Max(T)
PROOF
  <1> DEFINE Greatest(n) == n \in T /\ \A m \in T : n >= m
             Bounds == {n \in Nat : \A m \in T : m <= n}
  <1>1. Bounds \in SUBSET Nat /\ Bounds # {}
    OBVIOUS
  <1>2. PICK n \in Bounds : \A m \in Bounds : n <= m
    BY <1>1, LeastNumber
  <1>3. n \in T
    <2> SUFFICES ASSUME n \notin T PROVE FALSE
      OBVIOUS
    <2>1. \A m \in T : m \in Nat /\ m <= n /\ m # n
      OBVIOUS
    <2>2. PICK k \in T : TRUE
      OBVIOUS
    <2>3. n - 1 \in Nat /\ \A m \in T : m <= n - 1
      BY <2>1, <2>2
    <2>4. n - 1 \in Bounds
      BY <2>3
    <2>5. n <= n - 1
      BY <1>2, <2>4
    <2> QED BY <2>5
  <1>4. \E i : Greatest(i)
    BY <1>3
  <1>5. Max(T) = CHOOSE i : Greatest(i)
    BY DEF Max
  <1> HIDE DEF Greatest
  <1>6. Greatest(CHOOSE i : Greatest(i))
    BY <1>4
  <1>7. Max(T) \in T /\ \A m \in T : Max(T) >= m
    BY <1>5, <1>6 DEF Greatest
  <1> QED BY <1>7

-----------------------------------------------------------------------------
(* Rows.                                                                   *)

LEMMA NewlinesOfText ==
    ASSUME NEW t \in Texts
    PROVE  /\ Len(t) \in Nat
           /\ Newlines(t) \in SUBSET (1..Len(t))
           /\ IsFiniteSet(Newlines(t))
           /\ Cardinality(Newlines(t)) \in Nat
PROOF
  <1>1. Len(t) \in Nat
    BY LenProperties DEF Texts
  <1>2. Newlines(t) \in SUBSET (1..Len(t))
    BY DEF Newlines
  <1>3. IsFiniteSet(1..Len(t))
    BY <1>1, FS_Interval
  <1>4. IsFiniteSet(Newlines(t))
    BY <1>2, <1>3, FS_Subset
  <1> QED BY <1>1, <1>2, <1>4, FS_CardinalityType

LEMMA RowType ==
    ASSUME NEW t \in Texts, NEW p \in Nat
    PROVE  Row(t, p) \in 0..Cardinality(Newlines(t))
PROOF
  <1> DEFINE Before == {i \in Newlines(t) : i <= p}
  <1>1. Before \in SUBSET Newlines(t)
    OBVIOUS
  <1>2. IsFiniteSet(Before) /\ Cardinality(Before) <= Cardinality(Newlines(t))
    BY <1>1, NewlinesOfText, FS_Subset
  <1>3. Cardinality(Before) \in Nat
    BY <1>2, FS_CardinalityType
  <1> QED BY <1>2, <1>3, NewlinesOfText DEF Row

\* The newlines of the rows up to that of a position are those before it.
LEMMA RowOrder ==
    ASSUME NEW t \in Texts, NEW p \in Nat, NEW i \in Newlines(t)
    PROVE  Row(t, i) <= Row(t, p) <=> i <= p
PROOF
  <1> DEFINE B == {j \in Newlines(t) : j <= i}
             C == {j \in Newlines(t) : j <= p}
  <1>1. i \in Nat /\ \A j \in Newlines(t) : j \in Nat
    BY NewlinesOfText
  <1>2. B \in SUBSET Newlines(t) /\ C \in SUBSET Newlines(t)
    OBVIOUS
  <1>3. IsFiniteSet(B) /\ IsFiniteSet(C)
    BY <1>2, NewlinesOfText, FS_Subset
  <1>4. Cardinality(B) \in Nat /\ Cardinality(C) \in Nat
    BY <1>3, FS_CardinalityType
  <1>5. Row(t, i) = Cardinality(B) /\ Row(t, p) = Cardinality(C)
    BY DEF Row
  <1>6. CASE i <= p
    <2>1. B \in SUBSET C
      <3>1. \A j \in Newlines(t) : j <= i => j <= p
        BY <1>1, <1>6
      <3> QED BY <3>1
    <2> HIDE DEF B, C
    <2>2. Cardinality(B) <= Cardinality(C)
      BY <1>3, <2>1, FS_Subset
    <2> QED BY <1>5, <1>6, <2>2
  <1>7. CASE ~(i <= p)
    <2>1. i \notin C /\ C \cup {i} \in SUBSET B
      <3>1. i <= i /\ \A j \in Newlines(t) : j <= p => j <= i
        BY <1>1, <1>7
      <3> QED BY <1>7, <3>1
    <2> HIDE DEF B, C
    <2>2. Cardinality(C \cup {i}) = Cardinality(C) + 1
      BY <1>3, <2>1, FS_AddElement
    <2>3. Cardinality(C \cup {i}) <= Cardinality(B)
      BY <1>3, <2>1, FS_Subset
    <2>4. ~(Cardinality(B) <= Cardinality(C))
      BY <1>4, <2>2, <2>3
    <2> QED BY <1>5, <1>7, <2>4
  <1> QED BY <1>6, <1>7

LEMMA RowBounds ==
    ASSUME NEW t \in Texts, NEW row \in Nat
    PROVE  /\ RowStart(t, row) \in 0..Len(t)
           /\ RowEnd(t, row) \in 0..Len(t)
           /\ RowStart(t, row) # 0 =>
                RowStart(t, row) \in Newlines(t) /\ Row(t, RowStart(t, row)) <= row
           /\ \A i \in Newlines(t) : IF Row(t, i) <= row THEN i <= RowStart(t, row)
                                                         ELSE RowEnd(t, row) < i
           /\ RowEnd(t, row) # Len(t) =>
                RowEnd(t, row) + 1 \in Newlines(t) /\ Row(t, RowEnd(t, row) + 1) > row
PROOF
  <1> DEFINE Starts == {0} \cup {i \in Newlines(t) : Row(t, i) <= row}
             Ends == {Len(t)} \cup {i - 1 : i \in {j \in Newlines(t) : Row(t, j) > row}}
  <1>1. Len(t) \in Nat /\ \A i \in Newlines(t) : i \in 1..Len(t) /\ i \in Nat /\ i - 1 \in 0..Len(t)
    BY NewlinesOfText
  <1>2. \A i \in Newlines(t) : Row(t, i) \in Nat
    BY <1>1, RowType, NewlinesOfText
  <1>3. Starts \in SUBSET Nat /\ Starts # {} /\ \A m \in Starts : m <= Len(t)
    BY <1>1
  <1>4. Max(Starts) \in Starts /\ \A m \in Starts : m <= Max(Starts)
    BY <1>1, <1>3, MaxOfNumbers
  <1>5. Ends \in SUBSET Nat /\ Ends # {} /\ \A m \in Ends : m <= Len(t)
    BY <1>1
  <1>6. Min(Ends) \in Ends /\ \A m \in Ends : Min(Ends) <= m
    BY <1>5, MinOfNumbers
  <1>7. RowStart(t, row) = Max(Starts) /\ RowEnd(t, row) = Min(Ends)
    BY DEF RowStart, RowEnd
  <1> HIDE DEF Starts, Ends
  <1>8. RowStart(t, row) \in 0..Len(t) /\ RowEnd(t, row) \in 0..Len(t)
    <2>1. \A m \in Starts : m \in Nat /\ m <= Len(t)
      BY <1>3
    <2>2. \A m \in Ends : m \in Nat /\ m <= Len(t)
      BY <1>5
    <2> QED BY <1>1, <1>4, <1>6, <1>7, <2>1, <2>2
  <1>9. ASSUME NEW i \in Newlines(t)
        PROVE  IF Row(t, i) <= row THEN i <= RowStart(t, row) ELSE RowEnd(t, row) < i
    <2>1. CASE Row(t, i) <= row
      <3>1. i \in Starts
        BY <2>1 DEF Starts
      <3> QED BY <1>4, <1>7, <2>1, <3>1
    <2>2. CASE ~(Row(t, i) <= row)
      <3>1. i - 1 \in Ends
        BY <1>2, <2>2 DEF Ends
      <3>2. RowEnd(t, row) <= i - 1
        BY <1>6, <1>7, <3>1
      <3> QED BY <1>1, <1>8, <2>2, <3>2
    <2> QED BY <2>1, <2>2
  <1>10. RowStart(t, row) # 0 =>
                RowStart(t, row) \in Newlines(t) /\ Row(t, RowStart(t, row)) <= row
    BY <1>4, <1>7, Zenon DEF Starts
  <1>11. RowEnd(t, row) # Len(t) =>
                RowEnd(t, row) + 1 \in Newlines(t) /\ Row(t, RowEnd(t, row) + 1) > row
    <2>1. CASE Min(Ends) = Len(t)
      BY <1>7, <2>1, Zenon
    <2>2. CASE Min(Ends) # Len(t)
      <3>1. PICK j \in Newlines(t) : Row(t, j) > row /\ Min(Ends) = j - 1
        BY <1>6, <2>2 DEF Ends
      <3>2. Min(Ends) + 1 = j
        BY <1>1, <3>1
      <3> QED BY <1>7, <3>1, <3>2
    <2> QED BY <2>1, <2>2
  <1> QED BY <1>8, <1>9, <1>10, <1>11

\* The row of a position has it.
LEMMA RowOfPosition ==
    ASSUME NEW t \in Texts, NEW p \in 0..Len(t)
    PROVE  /\ Row(t, p) \in 0..Cardinality(Newlines(t))
           /\ RowStart(t, Row(t, p)) <= p
           /\ p <= RowEnd(t, Row(t, p))
           /\ \A i \in Newlines(t) : IF i <= p THEN i <= RowStart(t, Row(t, p))
                                               ELSE RowEnd(t, Row(t, p)) < i
PROOF
  <1>1. /\ Len(t) \in Nat /\ p \in Nat /\ p <= Len(t)
        /\ \A i \in Newlines(t) : i \in Nat /\ i \in 1..Len(t)
    BY NewlinesOfText
  <1>2. Row(t, p) \in 0..Cardinality(Newlines(t)) /\ Cardinality(Newlines(t)) \in Nat
    BY <1>1, RowType, NewlinesOfText
  <1> DEFINE r == Row(t, p)
  <1>3. r \in Nat
    BY <1>2
  <1>4. \A i \in Newlines(t) : Row(t, i) <= r <=> i <= p
    BY <1>1, RowOrder
  <1> HIDE DEF r
  <1>5. /\ RowStart(t, r) \in 0..Len(t)
        /\ RowEnd(t, r) \in 0..Len(t)
        /\ RowStart(t, r) # 0 => RowStart(t, r) \in Newlines(t) /\ Row(t, RowStart(t, r)) <= r
        /\ \A i \in Newlines(t) : IF Row(t, i) <= r THEN i <= RowStart(t, r)
                                                    ELSE RowEnd(t, r) < i
        /\ RowEnd(t, r) # Len(t) =>
                RowEnd(t, r) + 1 \in Newlines(t) /\ Row(t, RowEnd(t, r) + 1) > r
    BY <1>3, RowBounds
  <1>6. RowStart(t, r) <= p
    BY <1>1, <1>4, <1>5
  <1>7. p <= RowEnd(t, r)
    <2>1. CASE RowEnd(t, r) = Len(t)
      BY <1>1, <2>1
    <2>2. CASE RowEnd(t, r) # Len(t)
      <3> DEFINE e == RowEnd(t, r) + 1
      <3>1. e \in Newlines(t) /\ Row(t, e) > r /\ e \in Nat
        BY <1>1, <1>5, <2>2
      <3>2. Row(t, e) \in Nat
        BY <3>1, RowType
      <3>3. ~(e <= p)
        BY <1>3, <1>4, <3>1, <3>2
      <3> QED BY <1>1, <1>5, <3>3
    <2> QED BY <2>1, <2>2
  <1>8. \A i \in Newlines(t) : IF i <= p THEN i <= RowStart(t, r) ELSE RowEnd(t, r) < i
    BY <1>4, <1>5
  <1> QED BY <1>2, <1>6, <1>7, <1>8 DEF r

\* What is in one piece of a text without newlines is a line.
LEMMA LineOfText ==
    ASSUME NEW t \in Texts, NEW l \in 1..Len(t) + 1, NEW h \in 0..Len(t),
           \A i \in Newlines(t) : i < l \/ h < i
    PROVE  /\ SubSeq(t, l, h) \in Lines
           /\ Len(SubSeq(t, l, h)) = IF l <= h THEN h - l + 1 ELSE 0
           /\ \A i \in 1..h - l + 1 : SubSeq(t, l, h)[i] = t[l + i - 1]
PROOF
  <1>1. Len(t) \in Nat /\ l \in Int /\ h \in Int
    BY NewlinesOfText
  <1>2. \A i \in l..h : t[i] \in Chars
    <2> SUFFICES ASSUME NEW i \in l..h PROVE t[i] \in Chars
      OBVIOUS
    <2>1. i \in 1..Len(t) /\ ~(i < l \/ h < i)
      BY <1>1
    <2>2. t[i] \in Chars \cup {NL}
      BY <2>1, ElementOfSeq DEF Texts
    <2>3. i \notin Newlines(t)
      BY <2>1
    <2> QED BY <2>1, <2>2, <2>3 DEF Newlines
  <1> QED BY <1>1, <1>2, SubSeqProperties DEF Lines

LEMMA SplitTypes ==
    ASSUME NEW t \in Texts
    PROVE  /\ Split(t) \in Seq(Lines)
           /\ Len(Split(t)) = Cardinality(Newlines(t)) + 1
           /\ \A row \in 0..Cardinality(Newlines(t)) :
                Split(t)[row + 1] = SubSeq(t, RowStart(t, row) + 1, RowEnd(t, row))
PROOF
  <1>1. Len(t) \in Nat /\ Cardinality(Newlines(t)) \in Nat
    BY NewlinesOfText
  <1> DEFINE n == Cardinality(Newlines(t)) + 1
             part(k) == SubSeq(t, RowStart(t, k - 1) + 1, RowEnd(t, k - 1))
  <1>2. ASSUME NEW k \in 1..n PROVE part(k) \in Lines
    <2>1. k - 1 \in Nat
      BY <1>1
    <2> DEFINE row == k - 1
    <2>2. row \in Nat
      BY <2>1
    <2> HIDE DEF row
    <2>3. /\ RowStart(t, row) \in 0..Len(t)
          /\ RowEnd(t, row) \in 0..Len(t)
          /\ \A i \in Newlines(t) : IF Row(t, i) <= row THEN i <= RowStart(t, row)
                                                        ELSE RowEnd(t, row) < i
      BY <2>2, RowBounds
    <2>4. RowStart(t, row) + 1 \in 1..Len(t) + 1
      BY <1>1, <2>3
    <2>5. \A i \in Newlines(t) : i < RowStart(t, row) + 1 \/ RowEnd(t, row) < i
      <3>1. \A i \in Newlines(t) : i \in Nat
        BY NewlinesOfText
      <3> QED BY <1>1, <2>3, <3>1
    <2>6. SubSeq(t, RowStart(t, row) + 1, RowEnd(t, row)) \in Lines
      BY <2>3, <2>4, <2>5, LineOfText
    <2> QED BY <2>6 DEF row
  <1>3. Split(t) = [k \in 1..n |-> part(k)]
    BY DEF Split
  <1>4. n \in Nat
    BY <1>1
  <1> HIDE DEF n, part
  <1>5. Split(t) \in [1..n -> Lines]
    BY <1>2, <1>3
  <1>6. Split(t) \in Seq(Lines) /\ Len(Split(t)) = n
    BY <1>4, <1>5, SeqDef
  <1>7. ASSUME NEW row \in 0..Cardinality(Newlines(t))
        PROVE  Split(t)[row + 1] = SubSeq(t, RowStart(t, row) + 1, RowEnd(t, row))
    <2>1. row + 1 \in 1..n /\ (row + 1) - 1 = row
      BY <1>1 DEF n
    <2>2. Split(t)[row + 1] = part(row + 1)
      BY <1>3, <2>1
    <2> QED BY <2>1, <2>2 DEF part
  <1> QED BY <1>6, <1>7 DEF n

-----------------------------------------------------------------------------
(* Parts and lines.                                                        *)

LEMMA PartOfSeq ==
    ASSUME NEW S, NEW s \in Seq(S), NEW l \in Nat \ {0}, NEW h \in Int, h <= Len(s)
    PROVE  /\ SubSeq(s, l, h) \in Seq(S)
           /\ Len(SubSeq(s, l, h)) = IF l <= h THEN h - l + 1 ELSE 0
           /\ \A i \in 1..h - l + 1 : SubSeq(s, l, h)[i] = s[l + i - 1]
PROOF
  <1>1. Len(s) \in Nat
    BY LenProperties
  <1>2. \A i \in l..h : s[i] \in S
    BY <1>1, ElementOfSeq
  <1> QED BY <1>2, SubSeqProperties

LEMMA FrontTypes ==
    ASSUME NEW S, NEW s \in Seq(S)
    PROVE  Front(s) \in Seq(S)
PROOF
  <1>1. Len(s) \in Nat /\ Len(s) - 1 \in Int /\ Len(s) - 1 <= Len(s)
    BY LenProperties
  <1> QED BY <1>1, PartOfSeq DEF Front

\* What FlattenSeq computes from the first n texts of a sequence.
Flattens(f, seqs, n) ==
    f = [i \in 1..n |-> IF i = 1 THEN seqs[i] ELSE f[i - 1] \o seqs[i]]

LEMMA FlattenExists ==
    ASSUME NEW seqs, NEW n \in Nat
    PROVE  \E f : Flattens(f, seqs, n)
PROOF
  <1> DEFINE Missing == {k \in Nat : ~ \E f : Flattens(f, seqs, k)}
  <1> SUFFICES ASSUME Missing # {} PROVE FALSE
    OBVIOUS
  <1>1. PICK k \in Missing : \A m \in Missing : k <= m
    BY LeastNumber
  <1>2. CASE k = 0
    <2> DEFINE f == [i \in 1..k |-> <<>>]
    <2>1. 1..k = {}
      BY <1>2
    <2>2. Flattens(f, seqs, k)
      BY <2>1 DEF Flattens
    <2> QED BY <1>1, <2>2
  <1>3. CASE k # 0
    <2>1. k - 1 \in Nat /\ ~(k <= k - 1)
      BY <1>1, <1>3
    <2>2. PICK g : Flattens(g, seqs, k - 1)
      BY <1>1, <2>1
    <2> DEFINE f == [i \in 1..k |->
                        IF i = 1 THEN seqs[i]
                        ELSE IF i = k THEN g[i - 1] \o seqs[i] ELSE g[i]]
    <2>3. ASSUME NEW i \in 1..k
          PROVE  f[i] = IF i = 1 THEN seqs[i] ELSE f[i - 1] \o seqs[i]
      <3>1. CASE i = 1
        BY <3>1
      <3>2. CASE i # 1
        <4>1. i - 1 \in 1..k - 1 /\ i - 1 \in 1..k /\ i - 1 # k
          BY <1>1, <3>2
        <4>2. g[i - 1] = IF i - 1 = 1 THEN seqs[i - 1] ELSE g[(i - 1) - 1] \o seqs[i - 1]
          BY <2>2, <4>1, Zenon DEF Flattens
        <4>3. f[i - 1] = g[i - 1]
          BY <4>1, <4>2
        <4>4. CASE i = k
          BY <3>2, <4>3, <4>4
        <4>5. CASE i # k
          <5>1. i \in 1..k - 1
            BY <1>1, <4>5
          <5>2. g[i] = g[i - 1] \o seqs[i]
            BY <2>2, <3>2, <5>1, Zenon DEF Flattens
          <5> QED BY <3>2, <4>3, <4>5, <5>2
        <4> QED BY <4>4, <4>5
      <3> QED BY <3>1, <3>2
    <2>4. Flattens(f, seqs, k)
      BY <2>3 DEF Flattens
    <2> QED BY <1>1, <2>4
  <1> QED BY <1>2, <1>3

LEMMA FlattenSteps ==
    ASSUME NEW S, NEW seqs \in Seq(S), seqs # <<>>
    PROVE  \E f : /\ FlattenSeq(seqs) = f[Len(seqs)]
                  /\ f[1] = seqs[1]
                  /\ \A i \in 2..Len(seqs) : f[i] = f[i - 1] \o seqs[i]
PROOF
  <1>1. Len(seqs) \in Nat \ {0}
    BY EmptySeq
  <1>2. FlattenSeq(seqs) = (CHOOSE f : Flattens(f, seqs, Len(seqs)))[Len(seqs)]
    BY <1>1 DEF FlattenSeq, Flattens
  <1>3. PICK f : Flattens(f, seqs, Len(seqs)) /\ FlattenSeq(seqs) = f[Len(seqs)]
    BY <1>1, <1>2, FlattenExists
  <1>4. \A i \in 1..Len(seqs) : f[i] = IF i = 1 THEN seqs[i] ELSE f[i - 1] \o seqs[i]
    BY <1>3, Zenon DEF Flattens
  <1>5. 1 \in 1..Len(seqs) /\ \A i \in 2..Len(seqs) : i \in 1..Len(seqs) /\ i # 1
    BY <1>1
  <1> QED BY <1>3, <1>4, <1>5

\* The texts in a sequence, one after the other, are a text.
LEMMA FlattenTypes ==
    ASSUME NEW S, NEW seqs \in Seq(Seq(S))
    PROVE  FlattenSeq(seqs) \in Seq(S)
PROOF
  <1>1. Len(seqs) \in Nat /\ \A i \in 1..Len(seqs) : seqs[i] \in Seq(S)
    BY LenProperties, ElementOfSeq
  <1>2. CASE seqs = <<>>
    <2>1. Len(seqs) = 0
      BY <1>2, EmptySeq
    <2> QED BY <1>2, <2>1, EmptySeq DEF FlattenSeq
  <1>3. CASE seqs # <<>>
    <2>1. PICK f : /\ FlattenSeq(seqs) = f[Len(seqs)]
                   /\ f[1] = seqs[1]
                   /\ \A i \in 2..Len(seqs) : f[i] = f[i - 1] \o seqs[i]
      BY <1>3, FlattenSteps
    <2>2. Len(seqs) \in Nat \ {0}
      BY <1>3, EmptySeq
    <2> DEFINE Bad == {k \in 1..Len(seqs) : f[k] \notin Seq(S)}
    <2>3. Bad = {}
      <3> SUFFICES ASSUME Bad # {} PROVE FALSE
        OBVIOUS
      <3>0. Bad \in SUBSET Nat
        BY <2>2
      <3>1. PICK k \in Bad : \A m \in Bad : k <= m
        BY <3>0, LeastNumber
      <3>2. k # 1
        BY <1>1, <2>1
      <3>3. k \in 2..Len(seqs) /\ k - 1 \in 1..Len(seqs) /\ ~(k <= k - 1)
        BY <2>2, <3>2
      <3>4. f[k - 1] \in Seq(S) /\ seqs[k] \in Seq(S)
        BY <1>1, <3>1, <3>3
      <3>5. f[k] \in Seq(S)
        BY <2>1, <3>3, <3>4, ConcatProperties
      <3> QED BY <3>5
    <2> QED BY <2>1, <2>2, <2>3
  <1> QED BY <1>2, <1>3

LEMMA TerminatedTypes ==
    ASSUME NEW lines \in Seq(Lines)
    PROVE  /\ Terminated(lines) \in Seq(DocumentLines)
           /\ Terminated(lines) \in Seq(Texts)
           /\ Len(Terminated(lines)) = Len(lines)
PROOF
  <1>1. Len(lines) \in Nat /\ \A i \in 1..Len(lines) : lines[i] \in Lines
    BY LenProperties, ElementOfSeq
  <1>2. ASSUME NEW i \in 1..Len(lines) PROVE Append(lines[i], NL) \in DocumentLines
    <2> DEFINE l == lines[i]
    <2>1. l \in Seq(Chars) /\ l \in Texts
      BY <1>1, SeqMonotonic DEF Lines, Texts
    <2>2. Len(l) \in Nat /\ \A j \in 1..Len(l) : l[j] \in Chars
      BY <2>1, LenProperties, ElementOfSeq
    <2> HIDE DEF l
    <2>3. /\ Append(l, NL) \in Texts
          /\ Len(Append(l, NL)) = Len(l) + 1
          /\ \A j \in 1..Len(l) : Append(l, NL)[j] = l[j]
      BY <2>1, AppendProperties DEF Texts
    <2>4. \A j \in 1..Len(l) + 1 : j # Len(l) + 1 => j \in 1..Len(l)
      BY <2>2
    <2>5. Newlines(Append(l, NL)) \subseteq {Len(l) + 1}
      BY <2>2, <2>3, <2>4, TextAssumption DEF Newlines
    <2> QED BY <2>3, <2>5 DEF l, DocumentLines
  <1>3. Terminated(lines) \in [1..Len(lines) -> DocumentLines]
    BY <1>2 DEF Terminated
  <1>4. Terminated(lines) \in Seq(DocumentLines) /\ Len(Terminated(lines)) = Len(lines)
    BY <1>1, <1>3, SeqDef
  <1>5. DocumentLines \subseteq Texts
    BY DEF DocumentLines
  <1> QED BY <1>4, <1>5, SeqMonotonic

LEMMA JoinedTypes ==
    ASSUME NEW lines \in Seq(Lines)
    PROVE  Joined(lines) \in Texts
PROOF
  <1>1. FlattenSeq(Terminated(lines)) \in Texts
    BY TerminatedTypes, FlattenTypes DEF Texts
  <1> QED BY <1>1, FrontTypes DEF Joined, Texts

LEMMA JavaSplitTypes ==
    ASSUME NEW t \in Texts
    PROVE  JavaSplit(t) \in Seq(Lines)
PROOF
  <1>1. CASE Newlines(t) = {}
    <2>1. Len(t) \in Nat /\ \A i \in 1..Len(t) : t[i] \in Chars
      BY <1>1, LenProperties, ElementOfSeq DEF Texts, Newlines
    <2>2. t \in Lines
      <3>1. t \in [1..Len(t) -> Chars]
        BY <2>1, LenProperties DEF Texts
      <3> QED BY <2>1, <3>1, SeqDef DEF Lines
    <2>3. <<t>> \in Seq(Lines)
      BY <2>2
    <2> QED BY <1>1, <2>3 DEF JavaSplit
  <1>2. CASE Newlines(t) # {}
    <2> DEFINE parts == Split(t)
               Kept == {0} \cup {i \in 1..Len(parts) : parts[i] # <<>>}
    <2>1. parts \in Seq(Lines) /\ Len(parts) \in Nat
      BY SplitTypes, LenProperties
    <2> HIDE DEF parts
    <2>2. Kept \in SUBSET Nat /\ Kept # {} /\ \A m \in Kept : m <= Len(parts)
      BY <2>1
    <2>3. Max(Kept) \in Kept
      BY <2>1, <2>2, MaxOfNumbers
    <2>4. Max(Kept) \in Int /\ Max(Kept) <= Len(parts)
      BY <2>2, <2>3
    <2> DEFINE m == Max(Kept)
    <2>5. SubSeq(parts, 1, m) \in Seq(Lines)
      <3>1. m \in Int /\ m <= Len(parts) /\ 1 \in Nat \ {0}
        BY <2>4
      <3> HIDE DEF m
      <3> QED BY <2>1, <3>1, PartOfSeq
    <2> QED BY <1>2, <2>5 DEF JavaSplit, WithoutBlankEnd, parts
  <1> QED BY <1>1, <1>2

-----------------------------------------------------------------------------
(* The editor.                                                             *)

\* What the editor reports: the place of a text has its start before its end,
\* but for that of a newline, which ends on the next row.
Changes ==
    {ch \in [type : {"insertText", "removeText", "insertLines", "removeLines"},
             row : Nat, from : Nat, to : Nat, text : Texts] :
        ch.text # <<NL>> => ch.from <= ch.to}

Edits == [text : Texts, changes : Seq(Changes), good : BOOLEAN]

LEMMA LinesAreTexts ==
    /\ \A l \in Lines : l \in Texts
    /\ <<NL>> \in Texts
PROOF
  <1>1. \A l \in Lines : l \in Texts
    BY SeqMonotonic DEF Lines, Texts
  <1>2. <<NL>> \in Seq(Chars \cup {NL})
    OBVIOUS
  <1> QED BY <1>1, <1>2 DEF Texts

LEMMA OneChange ==
    ASSUME NEW row \in Nat, NEW col \in Nat
    PROVE  /\ \A t \in Texts : InsertText(row, col, t) \in Changes
           /\ \A to \in Nat, t \in Texts :
                t = <<NL>> \/ col <= to => RemoveText(row, col, to, t) \in Changes
           /\ \A lines \in Seq(Lines) : /\ InsertLines(row, lines) \in Changes
                                        /\ RemoveLines(row, lines) \in Changes
PROOF
  <1>1. ASSUME NEW t \in Texts PROVE InsertText(row, col, t) \in Changes
    <2>1. Len(t) \in Nat
      BY NewlinesOfText
    <2>2. col + Len(t) \in Nat /\ col <= col + Len(t)
      BY <2>1
    <2> QED BY <2>2 DEF InsertText, Change, Changes
  <1>2. ASSUME NEW to \in Nat, NEW t \in Texts, t = <<NL>> \/ col <= to
        PROVE  RemoveText(row, col, to, t) \in Changes
    BY <1>2 DEF RemoveText, Change, Changes
  <1>3. ASSUME NEW lines \in Seq(Lines)
        PROVE  InsertLines(row, lines) \in Changes /\ RemoveLines(row, lines) \in Changes
    BY JoinedTypes DEF InsertLines, RemoveLines, Change, Changes
  <1> QED BY <1>1, <1>2, <1>3

LEMMA OneOrNone ==
    ASSUME NEW c \in BOOLEAN, NEW ch, c => ch \in Changes
    PROVE  (IF c THEN <<ch>> ELSE <<>>) \in Seq(Changes)
PROOF
  <1>1. CASE c
    <2>1. <<ch>> \in Seq(Changes)
      BY <1>1
    <2> QED BY <1>1, <2>1
  <1>2. CASE ~c
    BY <1>2, EmptySeq
  <1> QED BY <1>1, <1>2

LEMMA LinesInsertedTypes ==
    ASSUME NEW parts \in Seq(Lines), parts # <<>>, NEW row \in Nat, NEW col \in Nat
    PROVE  LinesInserted(parts, row, col) \in Seq(Changes)
PROOF
  <1> DEFINE n == Len(parts)
  <1>1. n \in Nat \ {0} /\ \A i \in 1..n : parts[i] \in Texts
    BY EmptySeq, ElementOfSeq, LinesAreTexts
  <1> HIDE DEF n
  <1>2. parts[1] \in Texts /\ parts[n] \in Texts
    BY <1>1
  <1>3. col + Len(parts[1]) \in Nat /\ row + n - 1 \in Nat /\ row + 1 \in Nat
    BY <1>1, <1>2, NewlinesOfText
  <1> DEFINE A == IF parts[1] # <<>> THEN <<InsertText(row, col, parts[1])>> ELSE <<>>
             B == IF n > 1 THEN <<InsertText(row, col + Len(parts[1]), <<NL>>)>> ELSE <<>>
             C == IF n > 2 THEN <<InsertLines(row + 1, SubSeq(parts, 2, n - 1))>> ELSE <<>>
             D == IF n > 1 /\ parts[n] # <<>>
                  THEN <<InsertText(row + n - 1, 0, parts[n])>> ELSE <<>>
  <1>4. A \in Seq(Changes)
    <2>1. InsertText(row, col, parts[1]) \in Changes
      BY <1>2, OneChange
    <2> QED BY <2>1, OneOrNone
  <1>5. B \in Seq(Changes)
    <2>1. InsertText(row, col + Len(parts[1]), <<NL>>) \in Changes
      BY <1>3, OneChange, LinesAreTexts
    <2> QED BY <2>1, OneOrNone
  <1>6. C \in Seq(Changes)
    <2>1. SubSeq(parts, 2, n - 1) \in Seq(Lines)
      BY <1>1, PartOfSeq DEF n
    <2>2. InsertLines(row + 1, SubSeq(parts, 2, n - 1)) \in Changes
      BY <1>3, <2>1, OneChange
    <2> QED BY <2>2, OneOrNone
  <1>7. D \in Seq(Changes)
    <2>1. InsertText(row + n - 1, 0, parts[n]) \in Changes
      BY <1>2, <1>3, OneChange
    <2> QED BY <2>1, OneOrNone
  <1>8. LinesInserted(parts, row, col) = A \o B \o C \o D
    BY DEF LinesInserted, n
  <1> HIDE DEF A, B, C, D
  <1>9. A \o B \in Seq(Changes)
    BY <1>4, <1>5, ConcatProperties
  <1>10. A \o B \o C \in Seq(Changes)
    BY <1>6, <1>9, ConcatProperties
  <1> QED BY <1>7, <1>8, <1>10, ConcatProperties

LEMMA RemovedInLineTypes ==
    ASSUME NEW lines \in Seq(Lines), NEW row \in Nat, row < Len(lines),
           NEW c \in Nat, NEW d \in Nat, c <= d, d <= Len(lines[row + 1])
    PROVE  RemovedInLine(lines, row, c, d) \in Seq(Changes)
PROOF
  <1>1. row + 1 \in 1..Len(lines)
    BY LenProperties
  <1>2. lines[row + 1] \in Lines
    BY <1>1, ElementOfSeq
  <1>3. SubSeq(lines[row + 1], c + 1, d) \in Lines
    BY <1>2, PartOfSeq DEF Lines
  <1>4. RemoveText(row, c, d, SubSeq(lines[row + 1], c + 1, d)) \in Changes
    BY <1>3, OneChange, LinesAreTexts
  <1>5. (IF c # d THEN <<RemoveText(row, c, d, SubSeq(lines[row + 1], c + 1, d))>>
                  ELSE <<>>) \in Seq(Changes)
    BY <1>4, OneOrNone
  <1>6. CASE c = d
    BY <1>6, EmptySeq DEF RemovedInLine
  <1>7. CASE c # d
    BY <1>5, <1>7 DEF RemovedInLine
  <1> QED BY <1>6, <1>7

LEMMA LinesRemovedTypes ==
    ASSUME NEW lines \in Seq(Lines), NEW first \in Nat, NEW last \in Nat,
           first <= last, last < Len(lines),
           NEW from \in Nat, from <= Len(lines[first + 1]),
           NEW to \in Nat, to <= Len(lines[last + 1]),
           first = last => from <= to
    PROVE  LinesRemoved(lines, first, from, last, to) \in Seq(Changes)
PROOF
  <1>1. CASE first = last
    <2>1. RemovedInLine(lines, first, from, to) \in Seq(Changes)
      BY <1>1, RemovedInLineTypes
    <2> QED BY <1>1, <2>1 DEF LinesRemoved
  <1>2. CASE first # last
    <2>1. Len(lines) \in Nat /\ first < Len(lines) /\ first + 1 \in 1..Len(lines)
      BY LenProperties
    <2> DEFINE full == IF from = 0 THEN first ELSE first + 1
               A == RemovedInLine(lines, last, 0, to)
               B == IF full < last THEN <<RemoveLines(full, SubSeq(lines, full + 1, last))>>
                                   ELSE <<>>
               E == RemovedInLine(lines, first, from, Len(lines[first + 1]))
               F == <<RemoveText(first, from, 0, <<NL>>)>>
               C == IF from = 0 THEN <<>> ELSE E \o F
    <2>2. LinesRemoved(lines, first, from, last, to) = A \o B \o C
      BY <1>2 DEF LinesRemoved
    <2>3. A \in Seq(Changes)
      BY RemovedInLineTypes
    <2>4. B \in Seq(Changes)
      <3>1. full \in Nat
        OBVIOUS
      <3> HIDE DEF full
      <3>2. SubSeq(lines, full + 1, last) \in Seq(Lines)
        BY <2>1, <3>1, PartOfSeq
      <3>3. RemoveLines(full, SubSeq(lines, full + 1, last)) \in Changes
        BY <3>1, <3>2, OneChange
      <3> QED BY <3>3, OneOrNone
    <2>5. C \in Seq(Changes)
      <3>1. Len(lines[first + 1]) \in Nat
        BY <2>1, ElementOfSeq, LenProperties DEF Lines
      <3>2. E \in Seq(Changes)
        BY <2>1, <3>1, RemovedInLineTypes
      <3>3. RemoveText(first, from, 0, <<NL>>) \in Changes
        BY OneChange, LinesAreTexts
      <3>4. F \in Seq(Changes)
        BY <3>3
      <3> HIDE DEF E, F
      <3>5. E \o F \in Seq(Changes)
        BY <3>2, <3>4, ConcatProperties
      <3> QED BY <3>5, EmptySeq
    <2> HIDE DEF A, B, C
    <2>6. A \o B \in Seq(Changes)
      BY <2>3, <2>4, ConcatProperties
    <2> QED BY <2>2, <2>5, <2>6, ConcatProperties
  <1> QED BY <1>1, <1>2

LEMMA RowMonotone ==
    ASSUME NEW t \in Texts, NEW p \in Nat, NEW q \in Nat, p <= q
    PROVE  Row(t, p) <= Row(t, q)
PROOF
  <1> DEFINE B == {j \in Newlines(t) : j <= p}
             C == {j \in Newlines(t) : j <= q}
  <1>1. \A j \in Newlines(t) : j <= p => j <= q
    BY NewlinesOfText
  <1>2. C \in SUBSET Newlines(t) /\ B \in SUBSET C
    BY <1>1
  <1>3. IsFiniteSet(C)
    BY <1>2, NewlinesOfText, FS_Subset
  <1> HIDE DEF B, C
  <1>4. Cardinality(B) <= Cardinality(C)
    BY <1>2, <1>3, FS_Subset
  <1> QED BY <1>4 DEF Row, B, C

\* A position is a column of its row.
LEMMA ColumnTypes ==
    ASSUME NEW t \in Texts, NEW p \in 0..Len(t)
    PROVE  /\ Row(t, p) \in Nat /\ Row(t, p) < Len(Split(t))
           /\ Column(t, p) \in Nat
           /\ Column(t, p) <= Len(Split(t)[Row(t, p) + 1])
PROOF
  <1> DEFINE r == Row(t, p)
  <1>1. Len(t) \in Nat /\ Cardinality(Newlines(t)) \in Nat
    BY NewlinesOfText
  <1>2. /\ r \in 0..Cardinality(Newlines(t))
        /\ RowStart(t, r) <= p
        /\ p <= RowEnd(t, r)
        /\ \A i \in Newlines(t) : IF i <= p THEN i <= RowStart(t, r) ELSE RowEnd(t, r) < i
    BY RowOfPosition
  <1>3. Column(t, p) = p - RowStart(t, r)
    BY DEF Column
  <1> HIDE DEF r
  <1>4. r \in Nat /\ r < Len(Split(t))
    BY <1>1, <1>2, SplitTypes
  <1>5. RowStart(t, r) \in 0..Len(t) /\ RowEnd(t, r) \in 0..Len(t)
    BY <1>4, RowBounds
  <1>6. Split(t)[r + 1] = SubSeq(t, RowStart(t, r) + 1, RowEnd(t, r))
    BY <1>2, SplitTypes
  <1>7. Len(Split(t)[r + 1]) = RowEnd(t, r) - RowStart(t, r)
    <2> DEFINE l == RowStart(t, r) + 1
               h == RowEnd(t, r)
    <2>1. l \in Nat \ {0} /\ h \in Int /\ h <= Len(t) /\ l <= h + 1
      BY <1>1, <1>2, <1>5
    <2>2. h - l + 1 = RowEnd(t, r) - RowStart(t, r) /\ (~(l <= h) => h - l + 1 = 0)
      BY <1>5, <2>1
    <2> HIDE DEF l, h
    <2>3. Len(SubSeq(t, l, h)) = IF l <= h THEN h - l + 1 ELSE 0
      BY <2>1, PartOfSeq DEF Texts
    <2>4. Len(SubSeq(t, l, h)) = h - l + 1
      BY <2>2, <2>3
    <2> QED BY <1>6, <2>2, <2>4 DEF l, h
  <1>8. p - RowStart(t, r) \in Nat /\ p - RowStart(t, r) <= RowEnd(t, r) - RowStart(t, r)
    BY <1>1, <1>2, <1>5
  <1> QED BY <1>3, <1>4, <1>7, <1>8 DEF r

LEMMA PieceTypes ==
    ASSUME NEW s \in Texts, NEW p \in 0..Len(s), NEW q \in 0..Len(s)
    PROVE  /\ SubSeq(s, 1, p) \in Texts
           /\ SubSeq(s, q + 1, Len(s)) \in Texts
           /\ \A t \in Texts : Inserting(s, p, t) \in Texts
           /\ Removing(s, p, q) \in Texts
PROOF
  <1>1. Len(s) \in Nat /\ p \in Int /\ p <= Len(s) /\ q + 1 \in Nat \ {0} /\ 1 \in Nat \ {0}
        /\ Len(s) \in Int /\ Len(s) <= Len(s) /\ p + 1 \in Nat \ {0}
    BY NewlinesOfText
  <1>2. SubSeq(s, 1, p) \in Texts
    BY <1>1, PartOfSeq DEF Texts
  <1>3. SubSeq(s, q + 1, Len(s)) \in Texts /\ SubSeq(s, p + 1, Len(s)) \in Texts
    BY <1>1, PartOfSeq DEF Texts
  <1>4. \A u, v \in Texts : u \o v \in Texts
    BY ConcatProperties DEF Texts
  <1>5. ASSUME NEW t \in Texts PROVE Inserting(s, p, t) \in Texts
    <2>1. SubSeq(s, 1, p) \o t \in Texts
      BY <1>2, <1>4
    <2> QED BY <1>3, <1>4, <2>1 DEF Inserting
  <1>6. Removing(s, p, q) \in Texts
    BY <1>2, <1>3, <1>4 DEF Removing
  <1> QED BY <1>2, <1>3, <1>5, <1>6

LEMMA InsertionTypes ==
    ASSUME NEW s \in Texts, NEW p \in 0..Len(s), NEW t \in Texts
    PROVE  Insertion(s, p, t) \in Edits
PROOF
  <1>1. Split(t) \in Seq(Lines) /\ Split(t) # <<>>
    BY SplitTypes, EmptySeq, NewlinesOfText
  <1>2. InsertChanges(s, p, t) \in Seq(Changes)
    BY <1>1, ColumnTypes, LinesInsertedTypes DEF InsertChanges
  <1>3. Inserting(s, p, t) \in Texts
    BY PieceTypes
  <1>4. (Newlines(t) # {} => p = Len(s) \/ \E i \in Newlines(s) : i > p) \in BOOLEAN
    OBVIOUS
  <1> QED BY <1>2, <1>3, <1>4 DEF Insertion, Edits

LEMMA RemovalTypes ==
    ASSUME NEW s \in Texts, NEW p \in 0..Len(s), NEW q \in 0..Len(s), p <= q
    PROVE  Removal(s, p, q) \in Edits
PROOF
  <1>1. Split(s) \in Seq(Lines)
    BY SplitTypes
  <1>2. /\ Row(s, p) \in Nat /\ Row(s, p) < Len(Split(s))
        /\ Column(s, p) \in Nat
        /\ Column(s, p) <= Len(Split(s)[Row(s, p) + 1])
    BY ColumnTypes
  <1>3. /\ Row(s, q) \in Nat /\ Row(s, q) < Len(Split(s))
        /\ Column(s, q) \in Nat
        /\ Column(s, q) <= Len(Split(s)[Row(s, q) + 1])
    BY ColumnTypes
  <1>4. p \in Nat /\ q \in Nat
    BY NewlinesOfText
  <1>5. Row(s, p) <= Row(s, q)
    BY <1>4, RowMonotone
  <1>6. Row(s, p) = Row(s, q) => Column(s, p) <= Column(s, q)
    <2>1. RowStart(s, Row(s, p)) \in Nat
      BY <1>2, RowBounds, NewlinesOfText
    <2> QED BY <1>4, <2>1 DEF Column
  <1>7. RemoveChanges(s, p, q) \in Seq(Changes)
    BY <1>1, <1>2, <1>3, <1>5, <1>6, LinesRemovedTypes DEF RemoveChanges
  <1>8. Removing(s, p, q) \in Texts
    BY PieceTypes
  <1>9. (~(q = Len(s) /\ s[q] = NL)) \in BOOLEAN
    OBVIOUS
  <1> QED BY <1>7, <1>8, <1>9 DEF Removal, Edits

-----------------------------------------------------------------------------
(* Undo.                                                                   *)

LEMMA ClipTypes ==
    ASSUME NEW s \in Texts, NEW p \in Nat
    PROVE  /\ Clip(s, p) = IF p <= Len(s) THEN p ELSE Len(s)
           /\ Clip(s, p) \in 0..Len(s)
PROOF
  <1>1. Len(s) \in Nat
    BY NewlinesOfText
  <1> DEFINE T == {p, Len(s)}
  <1>2. T \in SUBSET Nat /\ T # {}
    BY <1>1
  <1>3. Min(T) \in T /\ \A m \in T : Min(T) <= m
    BY <1>2, MinOfNumbers
  <1>4. Min(T) <= p /\ Min(T) <= Len(s) /\ (Min(T) = p \/ Min(T) = Len(s))
    BY <1>3
  <1> HIDE DEF T
  <1>5. Clip(s, p) = Min(T)
    BY DEF Clip, T
  <1>6. Clip(s, p) = IF p <= Len(s) THEN p ELSE Len(s)
    BY <1>1, <1>4, <1>5
  <1> QED BY <1>1, <1>6

LEMMA PositionTypes ==
    ASSUME NEW s \in Texts, NEW row \in Nat, NEW col \in Nat
    PROVE  Position(s, row, col) \in 0..Len(s)
PROOF
  <1>1. Len(s) \in Nat
    BY NewlinesOfText
  <1>2. RowStart(s, row) + col \in Nat
    <2>1. RowStart(s, row) \in 0..Len(s)
      BY RowBounds
    <2>2. \A i \in 0..Len(s) : i \in Nat /\ i + col \in Nat
      BY <1>1
    <2> QED BY <2>1, <2>2
  <1>3. Clip(s, RowStart(s, row) + col) \in 0..Len(s)
    BY <1>2, ClipTypes
  <1>4. Len(s) \in 0..Len(s)
    BY <1>1
  <1> QED BY <1>3, <1>4 DEF Position

LEMMA ReversedTypes ==
    ASSUME NEW ch \in Changes
    PROVE  Reversed(ch) \in Changes
PROOF
  BY DEF Reversed, Changes

LEMMA ApplyDeltaTypes ==
    ASSUME NEW s \in Texts, NEW ch \in Changes, NEW p \in 0..Len(s)
    PROVE  ApplyDelta(s, ch, p) \in Edits
PROOF
  <1>1. Len(s) \in Nat /\ p \in Nat /\ p <= Len(s) /\ ch.text \in Texts /\ Len(ch.text) \in Nat
    BY NewlinesOfText DEF Changes
  <1>2. ASSUME NEW d \in Nat
        PROVE  Clip(s, p + d) \in 0..Len(s) /\ p <= Clip(s, p + d)
    <2>1. p + d \in Nat
      BY <1>1
    <2>2. Clip(s, p + d) = IF p + d <= Len(s) THEN p + d ELSE Len(s)
      BY <2>1, ClipTypes
    <2> QED BY <1>1, <1>2, <2>1, <2>2
  <1>3. CASE ch.type = "insertText"
    <2>1. Insertion(s, p, ch.text) \in Edits
      BY <1>1, InsertionTypes
    <2> QED BY <1>3, <2>1 DEF ApplyDelta
  <1>4. CASE ch.type = "removeText"
    <2> DEFINE q == IF ch.text = <<NL>> THEN p + 1 ELSE p + Len(ch.text)
    <2>1. Clip(s, q) \in 0..Len(s) /\ p <= Clip(s, q)
      BY <1>1, <1>2
    <2> HIDE DEF q
    <2>2. Removal(s, p, Clip(s, q)) \in Edits
      BY <2>1, RemovalTypes
    <2> QED BY <1>4, <2>2 DEF ApplyDelta, q
  <1>5. <<ch>> \in Seq(Changes)
    OBVIOUS
  <1>6. CASE ch.type = "insertLines"
    <2>1. Append(ch.text, NL) \in Texts
      BY <1>1, AppendProperties DEF Texts
    <2>2. Inserting(s, p, Append(ch.text, NL)) \in Texts
      BY <2>1, PieceTypes
    <2> QED BY <1>5, <1>6, <2>2 DEF ApplyDelta, Block, Edits
  <1>7. CASE ch.type = "removeLines"
    <2>1. Len(ch.text) + 1 \in Nat /\ p + Len(ch.text) + 1 = p + (Len(ch.text) + 1)
      BY <1>1
    <2>2. Clip(s, p + Len(ch.text) + 1) \in 0..Len(s)
      BY <1>2, <2>1
    <2>3. Removing(s, p, Clip(s, p + Len(ch.text) + 1)) \in Texts
      BY <2>2, PieceTypes
    <2> QED BY <1>5, <1>7, <2>3 DEF ApplyDelta, Block, Edits
  <1> QED BY <1>3, <1>4, <1>6, <1>7 DEF Changes

LEMMA DeltaTypes ==
    ASSUME NEW e \in Edits, NEW ch \in Changes
    PROVE  DeltaApplied(e, ch) \in Edits
PROOF
  <1>1. e.text \in Texts /\ e.changes \in Seq(Changes) /\ e.good \in BOOLEAN
    BY DEF Edits
  <1>2. ch.row \in Nat /\ ch.from \in Nat
    BY DEF Changes
  <1> DEFINE d == ApplyDelta(e.text, ch, Position(e.text, ch.row, ch.from))
  <1>3. d \in Edits
    BY <1>1, <1>2, PositionTypes, ApplyDeltaTypes
  <1> HIDE DEF d
  <1>4. d.text \in Texts /\ d.changes \in Seq(Changes) /\ d.good \in BOOLEAN
    BY <1>3 DEF Edits
  <1>5. e.changes \o d.changes \in Seq(Changes)
    BY <1>1, <1>4, ConcatProperties
  <1>6. Then(e, d) \in Edits
    BY <1>1, <1>4, <1>5 DEF Then, Edits
  <1> QED BY <1>6 DEF DeltaApplied, d

-----------------------------------------------------------------------------
(* The document.                                                           *)

LEMMA EmptyLine == <<>> \in DocumentLines
PROOF
  <1>1. <<>> \in Texts /\ Len(<<>>) = 0
    BY EmptySeq DEF Texts
  <1>2. Newlines(<<>>) = {}
    BY <1>1 DEF Newlines
  <1> QED BY <1>1, <1>2 DEF DocumentLines

LEMMA PaddedTypes ==
    ASSUME NEW lines \in Seq(DocumentLines), NEW row \in Nat, row <= Len(lines)
    PROVE  /\ Padded(lines, row) \in Seq(DocumentLines)
           /\ row < Len(Padded(lines, row))
           /\ Padded(lines, row)[row + 1] \in Texts
PROOF
  <1>1. Len(lines) \in Nat
    BY LenProperties
  <1>2. Padded(lines, row) \in Seq(DocumentLines) /\ row < Len(Padded(lines, row))
    <2>1. CASE row = Len(lines)
      <3>1. /\ Append(lines, <<>>) \in Seq(DocumentLines)
            /\ Len(Append(lines, <<>>)) = Len(lines) + 1
        BY EmptyLine, AppendProperties
      <3> QED BY <1>1, <2>1, <3>1 DEF Padded
    <2>2. CASE row # Len(lines)
      BY <1>1, <2>2 DEF Padded
    <2> QED BY <2>1, <2>2
  <1>3. row + 1 \in 1..Len(Padded(lines, row))
    BY <1>2, LenProperties
  <1>4. Padded(lines, row)[row + 1] \in DocumentLines
    BY <1>2, <1>3, ElementOfSeq
  <1> QED BY <1>2, <1>4 DEF DocumentLines

LEMMA ChangeLineTypes ==
    ASSUME NEW lines \in Seq(DocumentLines), NEW row \in Nat, row < Len(lines),
           NEW text \in Texts
    PROVE  ChangeLine(lines, row, text) \in Seq(DocumentLines)
PROOF
  <1>1. Len(lines) \in Nat /\ row + 1 \in 1..Len(lines)
    BY LenProperties
  <1>2. CASE Newlines(text) \subseteq {Len(text)}
    <2>1. text \in DocumentLines
      BY <1>2 DEF DocumentLines
    <2>2. ReplaceAt(lines, row + 1, text) \in Seq(DocumentLines)
      BY <1>1, <2>1, ExceptSeq DEF ReplaceAt
    <2> QED BY <1>2, <2>2 DEF ChangeLine
  <1>3. CASE ~(Newlines(text) \subseteq {Len(text)})
    <2> DEFINE A == SubSeq(lines, 1, row)
               B == Terminated(Front(Split(text)))
               C == SubSeq(lines, row + 2, Len(lines))
    <2>1. A \in Seq(DocumentLines)
      BY <1>1, PartOfSeq
    <2>2. B \in Seq(DocumentLines)
      <3>1. Front(Split(text)) \in Seq(Lines)
        BY SplitTypes, FrontTypes
      <3> QED BY <3>1, TerminatedTypes
    <2>3. C \in Seq(DocumentLines)
      BY <1>1, PartOfSeq
    <2>4. ChangeLine(lines, row, text) = A \o B \o C
      BY <1>3 DEF ChangeLine
    <2> HIDE DEF A, B, C
    <2>5. A \o B \in Seq(DocumentLines)
      BY <2>1, <2>2, ConcatProperties
    <2> QED BY <2>3, <2>4, <2>5, ConcatProperties
  <1> QED BY <1>2, <1>3

LEMMA InsertedTypes ==
    ASSUME NEW lines \in Seq(DocumentLines), NEW row \in Nat, row <= Len(lines),
           NEW text \in Texts, NEW col \in Nat, col <= Len(Padded(lines, row)[row + 1])
    PROVE  Inserted(lines, row, col, text) \in Seq(DocumentLines)
PROOF
  <1> DEFINE padded == Padded(lines, row)
             line == padded[row + 1]
             whole == SubSeq(line, 1, col) \o text \o SubSeq(line, col + 1, Len(line))
  <1>1. padded \in Seq(DocumentLines) /\ row < Len(padded) /\ line \in Texts
    BY PaddedTypes
  <1>2. Inserted(lines, row, col, text) = ChangeLine(padded, row, whole)
    BY DEF Inserted
  <1>3. col <= Len(line)
    OBVIOUS
  <1>4. whole = Inserting(line, col, text)
    BY DEF Inserting
  <1> HIDE DEF padded, line, whole
  <1>5. col \in 0..Len(line)
    BY <1>1, <1>3, NewlinesOfText
  <1>6. whole \in Texts
    BY <1>1, <1>4, <1>5, PieceTypes
  <1> QED BY <1>1, <1>2, <1>6, ChangeLineTypes

LEMMA LinesInOut ==
    ASSUME NEW lines \in Seq(DocumentLines), NEW row \in Nat
    PROVE  /\ \A parts \in Seq(Lines) :
                parts = <<>> \/ row <= Len(lines) =>
                    InsertedLines(lines, row, parts) \in Seq(DocumentLines)
           /\ \A count \in Nat :
                count = 0 \/ row + count <= Len(lines) =>
                    RemovedLines(lines, row, count) \in Seq(DocumentLines)
PROOF
  <1>1. Len(lines) \in Nat
    BY LenProperties
  <1>2. ASSUME NEW parts \in Seq(Lines), parts # <<>>, row <= Len(lines)
        PROVE  InsertedLines(lines, row, parts) \in Seq(DocumentLines)
    <2> DEFINE A == SubSeq(lines, 1, row)
               B == Terminated(parts)
               C == SubSeq(lines, row + 1, Len(lines))
    <2>1. A \in Seq(DocumentLines)
      BY <1>1, <1>2, PartOfSeq
    <2>2. B \in Seq(DocumentLines)
      BY TerminatedTypes
    <2>3. C \in Seq(DocumentLines)
      BY <1>1, PartOfSeq
    <2>4. InsertedLines(lines, row, parts) = A \o B \o C
      BY <1>2 DEF InsertedLines
    <2> HIDE DEF A, B, C
    <2>5. A \o B \in Seq(DocumentLines)
      BY <2>1, <2>2, ConcatProperties
    <2> QED BY <2>3, <2>4, <2>5, ConcatProperties
  <1>3. ASSUME NEW count \in Nat, count # 0, row + count <= Len(lines)
        PROVE  RemovedLines(lines, row, count) \in Seq(DocumentLines)
    <2>1. row <= Len(lines) /\ row + count + 1 \in Nat \ {0}
      BY <1>1, <1>3
    <2>2. SubSeq(lines, 1, row) \in Seq(DocumentLines)
      BY <1>1, <2>1, PartOfSeq
    <2>3. SubSeq(lines, row + count + 1, Len(lines)) \in Seq(DocumentLines)
      BY <1>1, <2>1, PartOfSeq
    <2>4. RemovedLines(lines, row, count) =
            SubSeq(lines, 1, row) \o SubSeq(lines, row + count + 1, Len(lines))
      BY <1>3 DEF RemovedLines
    <2> QED BY <2>2, <2>3, <2>4, ConcatProperties
  <1>4. /\ InsertedLines(lines, row, <<>>) = lines
        /\ RemovedLines(lines, row, 0) = lines
    BY DEF InsertedLines, RemovedLines
  <1> QED BY <1>2, <1>3, <1>4

\* What is left of a line without its last character is in one row.
LEMMA FrontOfLine ==
    ASSUME NEW l \in DocumentLines
    PROVE  Front(l) \in Lines
PROOF
  <1>1. l \in Texts /\ Newlines(l) \subseteq {Len(l)}
    BY DEF DocumentLines
  <1>2. Len(l) \in Nat
    BY <1>1, NewlinesOfText
  <1>3. CASE Len(l) = 0
    <2>1. SubSeq(l, 1, Len(l) - 1) = <<>>
      BY <1>3, SubSeqEmpty
    <2> QED BY <2>1, EmptySeq DEF Front, Lines
  <1>4. CASE Len(l) # 0
    <2>1. 1 \in 1..Len(l) + 1 /\ Len(l) - 1 \in 0..Len(l)
      BY <1>2, <1>4
    <2>2. \A i \in Newlines(l) : i < 1 \/ Len(l) - 1 < i
      BY <1>1, <1>2
    <2>3. SubSeq(l, 1, Len(l) - 1) \in Lines
      BY <1>1, <2>1, <2>2, LineOfText
    <2> QED BY <2>3 DEF Front
  <1> QED BY <1>3, <1>4

\* A line keeps its form with another in front that has no newline, and without
\* a part of it.
LEMMA LineBefore ==
    ASSUME NEW l \in DocumentLines, NEW f \in Lines
    PROVE  f \o l \in DocumentLines
PROOF
  <1>1. l \in Texts /\ Newlines(l) \subseteq {Len(l)} /\ f \in Texts
    BY LinesAreTexts DEF DocumentLines
  <1>2. Len(l) \in Nat /\ Len(f) \in Nat
    BY <1>1, NewlinesOfText
  <1>3. /\ f \o l \in Texts
        /\ Len(f \o l) = Len(f) + Len(l)
        /\ \A i \in 1..Len(f) + Len(l) :
                (f \o l)[i] = IF i <= Len(f) THEN f[i] ELSE l[i - Len(f)]
    BY <1>1, ConcatProperties DEF Texts
  <1>4. ASSUME NEW i \in Newlines(f \o l) PROVE i = Len(f) + Len(l)
    <2>1. i \in 1..Len(f) + Len(l) /\ (f \o l)[i] = NL
      BY <1>3, <1>4 DEF Newlines
    <2>2. ~(i <= Len(f))
      <3> SUFFICES ASSUME i <= Len(f) PROVE FALSE
        OBVIOUS
      <3>1. i \in 1..Len(f) /\ f[i] = NL
        BY <1>2, <1>3, <2>1
      <3>2. f[i] \in Chars
        BY <3>1, ElementOfSeq DEF Lines
      <3> QED BY <3>1, <3>2, TextAssumption
    <2>3. i - Len(f) \in 1..Len(l) /\ l[i - Len(f)] = NL
      BY <1>2, <1>3, <2>1, <2>2
    <2>4. i - Len(f) = Len(l)
      BY <1>1, <2>3 DEF Newlines
    <2> QED BY <1>2, <2>1, <2>4
  <1>5. Newlines(f \o l) \subseteq {Len(f \o l)}
    BY <1>3, <1>4
  <1> QED BY <1>3, <1>5 DEF DocumentLines

LEMMA LineWithout ==
    ASSUME NEW l \in DocumentLines, NEW c \in Nat, NEW d \in Nat, c <= d, d <= Len(l)
    PROVE  SubSeq(l, 1, c) \o SubSeq(l, d + 1, Len(l)) \in DocumentLines
PROOF
  <1>1. l \in Texts /\ Newlines(l) \subseteq {Len(l)}
    BY DEF DocumentLines
  <1>2. Len(l) \in Nat
    BY <1>1, NewlinesOfText
  <1>3. CASE c = Len(l)
    <2>1. SubSeq(l, 1, c) = l /\ SubSeq(l, d + 1, Len(l)) = <<>>
      BY <1>1, <1>2, <1>3, SubSeqFull, SubSeqEmpty DEF Texts
    <2>2. l \o <<>> = l
      BY <1>1, ConcatEmptySeq DEF Texts
    <2> QED BY <2>1, <2>2
  <1>4. CASE c # Len(l)
    <2>1. c < Len(l) /\ c \in 0..Len(l) /\ 1 \in 1..Len(l) + 1
      BY <1>2, <1>4
    <2>2. \A i \in Newlines(l) : i < 1 \/ c < i
      BY <1>1, <2>1
    <2>3. SubSeq(l, 1, c) \in Lines
      BY <1>1, <2>1, <2>2, LineOfText
    <2> DEFINE r == SubSeq(l, d + 1, Len(l))
    <2>4. /\ r \in Texts
          /\ Len(r) = IF d + 1 <= Len(l) THEN Len(l) - (d + 1) + 1 ELSE 0
          /\ \A i \in 1..Len(l) - (d + 1) + 1 : r[i] = l[d + 1 + i - 1]
      <3>1. d + 1 \in Nat \ {0} /\ Len(l) \in Int /\ Len(l) <= Len(l) /\ l \in Seq(Chars \cup {NL})
        BY <1>1, <1>2 DEF Texts
      <3> QED BY <3>1, PartOfSeq DEF Texts
    <2> HIDE DEF r
    <2>5. ASSUME NEW i \in Newlines(r) PROVE i = Len(r)
      <3>1. i \in 1..Len(r) /\ r[i] = NL
        BY <2>5 DEF Newlines
      <3>2. Len(r) = Len(l) - d /\ i \in 1..Len(l) - (d + 1) + 1 /\ d + 1 + i - 1 = d + i
        BY <1>2, <2>4, <3>1
      <3>3. l[d + i] = NL /\ d + i \in 1..Len(l)
        BY <1>2, <2>4, <3>1, <3>2
      <3>4. d + i = Len(l)
        BY <1>1, <3>3 DEF Newlines
      <3> QED BY <3>1, <3>2, <3>4
    <2>6. r \in DocumentLines
      BY <2>4, <2>5 DEF DocumentLines
    <2> QED BY <2>3, <2>6, LineBefore DEF r
  <1> QED BY <1>3, <1>4

LEMMA RemovedTypes ==
    ASSUME NEW lines \in Seq(DocumentLines), NEW row \in Nat, row < Len(lines),
           NEW from \in Nat, NEW to \in Nat, NEW text,
           IF text = <<NL>> THEN row + 1 < Len(lines)
                            ELSE from <= to /\ to <= Len(lines[row + 1])
    PROVE  Removed(lines, row, from, to, text) \in Seq(DocumentLines)
PROOF
  <1>1. Len(lines) \in Nat /\ row + 1 \in 1..Len(lines)
    BY LenProperties
  <1>2. lines[row + 1] \in DocumentLines
    BY <1>1, ElementOfSeq
  <1>3. CASE text = <<NL>>
    <2>1. row + 2 \in 1..Len(lines) /\ row + 2 - 1 = row + 1 /\ row + 2 + 1 = row + 3
      BY <1>1, <1>3
    <2>2. lines[row + 2] \in DocumentLines
      BY <2>1, ElementOfSeq
    <2> DEFINE A == SubSeq(lines, 1, (row + 2) - 1)
               B == SubSeq(lines, (row + 2) + 1, Len(lines))
               whole == Front(lines[row + 1]) \o lines[row + 2]
    <2>3. A \in Seq(DocumentLines) /\ Len(A) = row + 1
      BY <1>1, PartOfSeq
    <2>4. B \in Seq(DocumentLines) /\ Len(B) \in Nat
      <3>1. B \in Seq(DocumentLines)
        BY <1>1, PartOfSeq
      <3> QED BY <3>1, LenProperties
    <2>5. RemoveAt(lines, row + 2) = A \o B
      BY DEF RemoveAt
    <2>6. whole \in DocumentLines
      BY <1>2, <2>2, FrontOfLine, LineBefore
    <2> HIDE DEF A, B, whole
    <2>7. A \o B \in Seq(DocumentLines) /\ Len(A \o B) = Len(A) + Len(B)
      BY <2>3, <2>4, ConcatProperties
    <2>8. row + 1 \in 1..Len(A \o B)
      BY <2>3, <2>4, <2>7
    <2>9. ReplaceAt(A \o B, row + 1, whole) \in Seq(DocumentLines)
      BY <2>6, <2>7, <2>8, ExceptSeq DEF ReplaceAt
    <2>10. Removed(lines, row, from, to, text) = ReplaceAt(A \o B, row + 1, whole)
      BY <1>3, <2>5 DEF Removed, whole
    <2> QED BY <2>9, <2>10
  <1>4. CASE text # <<NL>>
    <2> DEFINE line == lines[row + 1]
               whole == SubSeq(line, 1, from) \o SubSeq(line, to + 1, Len(line))
    <2>1. whole \in DocumentLines
      BY <1>2, <1>4, LineWithout
    <2>2. Removed(lines, row, from, to, text) = ReplaceAt(lines, row + 1, whole)
      BY <1>4 DEF Removed
    <2> HIDE DEF whole
    <2>3. ReplaceAt(lines, row + 1, whole) \in Seq(DocumentLines)
      BY <1>1, <2>1, ExceptSeq DEF ReplaceAt
    <2> QED BY <2>2, <2>3
  <1> QED BY <1>3, <1>4

\* A document whose lines have no newline but at their end.
LinesDocument == [lines : Seq(DocumentLines), broken : BOOLEAN]

LEMMA ApplyTypes ==
    ASSUME NEW doc \in LinesDocument, NEW ch \in Changes
    PROVE  Apply(doc, ch) \in LinesDocument
PROOF
  <1> DEFINE lines == doc.lines
             parts == JavaSplit(ch.text)
  <1>1. /\ lines \in Seq(DocumentLines) /\ doc.broken \in BOOLEAN
        /\ ch.row \in Nat /\ ch.from \in Nat /\ ch.to \in Nat /\ ch.text \in Texts
        /\ ch.text # <<NL>> => ch.from <= ch.to
    BY DEF LinesDocument, Changes
  <1>2. parts \in Seq(Lines) /\ Len(parts) \in Nat /\ (Len(parts) = 0 => parts = <<>>)
    BY <1>1, JavaSplitTypes, LenProperties, EmptySeq
  <1>3. CASE doc.broken
    BY <1>3 DEF Apply
  <1>4. CASE ~doc.broken /\ ~Applicable(ch, lines)
    <2>1. [lines |-> <<>>, broken |-> TRUE] \in LinesDocument
      BY EmptySeq DEF LinesDocument
    <2> QED BY <1>4, <2>1 DEF Apply
  <1>5. CASE ~doc.broken /\ Applicable(ch, lines)
    <2>1. Applied(ch, lines) \in Seq(DocumentLines)
      <3>1. CASE ch.type = "insertText"
        <4>1. ch.row <= Len(lines) /\ ch.from <= Len(Padded(lines, ch.row)[ch.row + 1])
          BY <1>5, <3>1 DEF Applicable, ApplicableWith
        <4>2. Inserted(lines, ch.row, ch.from, ch.text) \in Seq(DocumentLines)
          BY <1>1, <4>1, InsertedTypes
        <4> QED BY <3>1, <4>2 DEF Applied
      <3>2. CASE ch.type = "removeText"
        <4>1. /\ ch.row < Len(lines)
              /\ IF ch.text = <<NL>> THEN ch.row + 1 < Len(lines)
                                     ELSE ch.to <= Len(lines[ch.row + 1])
          BY <1>5, <3>2 DEF Applicable, ApplicableWith
        <4>2. Removed(lines, ch.row, ch.from, ch.to, ch.text) \in Seq(DocumentLines)
          BY <1>1, <4>1, RemovedTypes
        <4> QED BY <3>2, <4>2 DEF Applied
      <3>3. CASE ch.type = "insertLines"
        <4>1. Len(parts) = 0 \/ ch.row <= Len(lines)
          BY <1>5, <3>3 DEF Applicable, ApplicableWith
        <4>2. InsertedLines(lines, ch.row, parts) \in Seq(DocumentLines)
          BY <1>1, <1>2, <4>1, LinesInOut
        <4> QED BY <3>3, <4>2 DEF Applied
      <3>4. CASE ch.type = "removeLines"
        <4>1. Len(parts) = 0 \/ ch.row + Len(parts) <= Len(lines)
          BY <1>5, <3>4 DEF Applicable, ApplicableWith
        <4>2. RemovedLines(lines, ch.row, Len(parts)) \in Seq(DocumentLines)
          BY <1>1, <1>2, <4>1, LinesInOut
        <4> QED BY <3>4, <4>2 DEF Applied
      <3> QED BY <3>1, <3>2, <3>3, <3>4 DEF Changes
    <2>2. [doc EXCEPT !.lines = Applied(ch, lines)] \in LinesDocument
      BY <2>1 DEF LinesDocument
    <2> QED BY <1>5, <2>2 DEF Apply
  <1> QED BY <1>3, <1>4, <1>5

-----------------------------------------------------------------------------
(* The folds: every change is carried out after the one before it.         *)

\* One step of the replay, or of an undo.
FoldStep(replays, e, ch) == IF replays THEN Apply(e, ch) ELSE DeltaApplied(e, ch)

\* What a fold over the changes at the places of a set computes.
Folds(f, replays, e, cs, D) ==
    f = [s \in SUBSET D |->
            IF s = {} THEN e ELSE FoldStep(replays, f[s \ {Max(s)}], cs[Max(s)])]

LEMMA MaxOfInterval ==
    ASSUME NEW n \in Nat \ {0}, NEW s \in SUBSET (1..n), n \in s
    PROVE  Max(s) = n
PROOF
  <1>1. s \in SUBSET Nat /\ s # {} /\ \A m \in s : m <= n
    OBVIOUS
  <1>2. Max(s) \in s /\ \A m \in s : m <= Max(s)
    BY <1>1, MaxOfNumbers
  <1>3. Max(s) <= n /\ n <= Max(s) /\ Max(s) \in Nat
    BY <1>1, <1>2
  <1> QED BY <1>3

LEMMA FoldExists ==
    ASSUME NEW replays, NEW e, NEW cs, NEW n \in Nat
    PROVE  \E f : Folds(f, replays, e, cs, 1..n)
PROOF
  <1> DEFINE Missing == {k \in Nat : ~ \E f : Folds(f, replays, e, cs, 1..k)}
  <1> SUFFICES ASSUME Missing # {} PROVE FALSE
    OBVIOUS
  <1>1. PICK k \in Missing : \A m \in Missing : k <= m
    BY LeastNumber
  <1>2. CASE k = 0
    <2> DEFINE f == [s \in SUBSET (1..k) |-> e]
    <2>1. 1..k = {}
      BY <1>2
    <2>2. Folds(f, replays, e, cs, 1..k)
      BY <2>1 DEF Folds
    <2> QED BY <1>1, <2>2
  <1>3. CASE k # 0
    <2>1. k \in Nat \ {0} /\ k - 1 \in Nat /\ ~(k <= k - 1)
      BY <1>1, <1>3
    <2>2. PICK g : Folds(g, replays, e, cs, 1..(k - 1))
      BY <1>1, <2>1
    <2> DEFINE f == [s \in SUBSET (1..k) |->
                        IF k \in s THEN FoldStep(replays, g[s \ {k}], cs[k]) ELSE g[s]]
    <2>3. ASSUME NEW s \in SUBSET (1..k)
          PROVE  f[s] = IF s = {} THEN e
                        ELSE FoldStep(replays, f[s \ {Max(s)}], cs[Max(s)])
      <3>1. \A r \in SUBSET (1..k) : k \notin r => r \in SUBSET (1..(k - 1))
        BY <2>1
      <3>2. CASE k \in s
        <4>1. Max(s) = k
          BY <2>1, <3>2, MaxOfInterval
        <4>2. s \ {k} \in SUBSET (1..k) /\ k \notin s \ {k}
          OBVIOUS
        <4> QED BY <3>2, <4>1, <4>2
      <3>3. CASE k \notin s
        <4>1. s \in SUBSET (1..(k - 1))
          BY <3>1, <3>3
        <4>2. g[s] = IF s = {} THEN e ELSE FoldStep(replays, g[s \ {Max(s)}], cs[Max(s)])
          BY <2>2, <4>1 DEF Folds
        <4>3. s \ {Max(s)} \in SUBSET (1..k) /\ k \notin s \ {Max(s)}
          BY <3>3
        <4> QED BY <3>3, <4>2, <4>3
      <3> QED BY <3>2, <3>3
    <2>4. Folds(f, replays, e, cs, 1..k)
      BY <2>3 DEF Folds
    <2> QED BY <1>1, <2>4
  <1> QED BY <1>2, <1>3

FoldOf(replays, e, cs) == IF replays THEN FoldLeft(Apply, e, cs) ELSE FoldLeft(DeltaApplied, e, cs)

LEMMA FoldIsOne ==
    ASSUME NEW replays \in BOOLEAN, NEW e, NEW S, NEW cs \in Seq(S)
    PROVE  \E f : Folds(f, replays, e, cs, 1..Len(cs)) /\ FoldOf(replays, e, cs) = f[1..Len(cs)]
PROOF
  <1>1. DOMAIN cs = 1..Len(cs) /\ Len(cs) \in Nat
    BY LenProperties
  <1> DEFINE D == 1..Len(cs)
             R(f) == f = [s \in SUBSET D |->
                            IF s = {} THEN e ELSE Apply(f[s \ {Max(s)}], cs[Max(s)])]
             U(f) == f = [s \in SUBSET D |->
                            IF s = {} THEN e ELSE DeltaApplied(f[s \ {Max(s)}], cs[Max(s)])]
  <1>2. CASE replays = TRUE
    <2>1. FoldLeft(Apply, e, cs) = (CHOOSE f : R(f))[D]
      BY <1>1 DEF FoldLeft, MapThenFoldSet, Max
    <2>2. \A f : Folds(f, TRUE, e, cs, D) <=> R(f)
      BY Zenon DEF Folds, FoldStep
    <2>3. \E f : R(f)
      BY <1>1, <1>2, <2>2, FoldExists
    <2> HIDE DEF R, D
    <2>4. R(CHOOSE f : R(f))
      BY <2>3
    <2> QED BY <1>2, <2>1, <2>2, <2>4 DEF FoldOf, D
  <1>3. CASE replays = FALSE
    <2>1. FoldLeft(DeltaApplied, e, cs) = (CHOOSE f : U(f))[D]
      BY <1>1 DEF FoldLeft, MapThenFoldSet, Max
    <2>2. \A f : Folds(f, FALSE, e, cs, D) <=> U(f)
      BY Zenon DEF Folds, FoldStep
    <2>3. \E f : U(f)
      BY <1>1, <1>3, <2>2, FoldExists
    <2> HIDE DEF U, D
    <2>4. U(CHOOSE f : U(f))
      BY <2>3
    <2> QED BY <1>3, <2>1, <2>2, <2>4 DEF FoldOf, D
  <1> QED BY <1>2, <1>3

LEMMA FoldSteps ==
    ASSUME NEW replays \in BOOLEAN, NEW e, NEW S, NEW cs \in Seq(S)
    PROVE  \E g : /\ FoldOf(replays, e, cs) = g[Len(cs)]
                  /\ g[0] = e
                  /\ \A k \in 1..Len(cs) : g[k] = FoldStep(replays, g[k - 1], cs[k])
PROOF
  <1>1. Len(cs) \in Nat
    BY LenProperties
  <1>3. PICK f : Folds(f, replays, e, cs, 1..Len(cs)) /\ FoldOf(replays, e, cs) = f[1..Len(cs)]
    BY FoldIsOne
  <1> DEFINE g == [k \in 0..Len(cs) |-> f[1..k]]
  <1>4. g[Len(cs)] = f[1..Len(cs)]
    BY <1>1
  <1>5. g[0] = e
    <2>1. 1..0 = {} /\ {} \in SUBSET (1..Len(cs)) /\ 0 \in 0..Len(cs)
      BY <1>1
    <2>2. f[{}] = e
      BY <1>3, <2>1 DEF Folds
    <2> QED BY <2>1, <2>2
  <1>6. ASSUME NEW k \in 1..Len(cs)
        PROVE  g[k] = FoldStep(replays, g[k - 1], cs[k])
    <2>1. /\ k \in Nat \ {0} /\ k \in 1..k /\ 1..k \in SUBSET (1..Len(cs)) /\ 1..k # {}
          /\ k \in 0..Len(cs) /\ k - 1 \in 0..Len(cs)
          /\ (1..k) \ {k} = 1..(k - 1)
      <3>1. /\ k \in Nat \ {0} /\ k <= Len(cs) /\ k \in 1..k
            /\ k \in 0..Len(cs) /\ k - 1 \in 0..Len(cs)
        BY <1>1
      <3>2. \A i \in 1..k : i \in 1..Len(cs)
        BY <1>1, <3>1
      <3>3. \A i : i \in (1..k) \ {k} <=> i \in 1..(k - 1)
        BY <3>1
      <3> QED BY <3>1, <3>2, <3>3
    <2>2. Max(1..k) = k
      BY <2>1, MaxOfInterval
    <2>3. f[1..k] = FoldStep(replays, f[(1..k) \ {Max(1..k)}], cs[Max(1..k)])
      BY <1>3, <2>1 DEF Folds
    <2> QED BY <2>1, <2>2, <2>3
  <1> QED BY <1>3, <1>4, <1>5, <1>6

LEMMA FoldTypes ==
    ASSUME NEW replays \in BOOLEAN, NEW cs \in Seq(Changes), NEW T, NEW e \in T,
           \A d \in T, ch \in Changes : FoldStep(replays, d, ch) \in T
    PROVE  FoldOf(replays, e, cs) \in T
PROOF
  <1>1. PICK f : /\ FoldOf(replays, e, cs) = f[Len(cs)]
                 /\ f[0] = e
                 /\ \A k \in 1..Len(cs) : f[k] = FoldStep(replays, f[k - 1], cs[k])
    BY FoldSteps
  <1>2. Len(cs) \in Nat /\ \A k \in 1..Len(cs) : cs[k] \in Changes
    BY LenProperties, ElementOfSeq
  <1> DEFINE Bad == {k \in Nat : k <= Len(cs) /\ f[k] \notin T}
  <1> SUFFICES ASSUME Bad # {} PROVE FALSE
    BY <1>1, <1>2
  <1>3. PICK k \in Bad : \A m \in Bad : k <= m
    BY LeastNumber
  <1>4. k \in 1..Len(cs) /\ k - 1 \in Nat /\ k - 1 <= Len(cs) /\ ~(k <= k - 1)
    BY <1>1, <1>2, <1>3
  <1>5. f[k] = FoldStep(replays, f[k - 1], cs[k]) /\ cs[k] \in Changes
    BY <1>1, <1>2, <1>4
  <1>6. f[k - 1] \in T
    BY <1>3, <1>4
  <1> QED BY <1>3, <1>5, <1>6

LEMMA ReplayTypes ==
    ASSUME NEW doc \in LinesDocument, NEW cs \in Seq(Changes)
    PROVE  FoldLeft(Apply, doc, cs) \in LinesDocument
PROOF
  <1>1. \A d \in LinesDocument, ch \in Changes : FoldStep(TRUE, d, ch) \in LinesDocument
    BY ApplyTypes DEF FoldStep
  <1>2. FoldOf(TRUE, doc, cs) \in LinesDocument
    BY <1>1, FoldTypes
  <1> QED BY <1>2 DEF FoldOf

LEMMA DeltasTypes ==
    ASSUME NEW s \in Texts, NEW cs \in Seq(Changes)
    PROVE  Deltas(s, cs) \in Edits
PROOF
  <1>1. \A d \in Edits, ch \in Changes : FoldStep(FALSE, d, ch) \in Edits
    BY DeltaTypes DEF FoldStep
  <1>2. [text |-> s, changes |-> <<>>, good |-> TRUE] \in Edits
    BY EmptySeq DEF Edits
  <1>3. FoldOf(FALSE, [text |-> s, changes |-> <<>>, good |-> TRUE], cs) \in Edits
    BY <1>1, <1>2, FoldTypes
  <1> QED BY <1>3 DEF FoldOf, Deltas

-----------------------------------------------------------------------------
(* Texts that are joined, and their rows.                                  *)

\* The rows above the last, and the last row.
Rows(t) == Cardinality(Newlines(t))

\* Texts with \o: the empty text, length, and that it is associative.
LEMMA TextAlgebra ==
    /\ <<>> \in Texts
    /\ \A u \in Texts : u \o <<>> = u /\ <<>> \o u = u
    /\ \A u, v \in Texts : u \o v \in Texts /\ Len(u \o v) = Len(u) + Len(v)
    /\ \A u, v, w \in Texts : (u \o v) \o w = u \o (v \o w)
PROOF
  BY EmptySeq, ConcatEmptySeq, ConcatProperties, ConcatAssociative DEF Texts

\* The last row of a text is the row of its end.
LEMMA RowsType ==
    ASSUME NEW t \in Texts
    PROVE  Rows(t) \in Nat /\ Rows(t) = Row(t, Len(t))
PROOF
  <1>1. {i \in Newlines(t) : i <= Len(t)} = Newlines(t)
    BY NewlinesOfText
  <1> QED BY <1>1, NewlinesOfText DEF Rows, Row

\* As many numbers after n is added to each.
LEMMA ShiftedSet ==
    ASSUME NEW S \in SUBSET Nat, IsFiniteSet(S), NEW n \in Nat
    PROVE  /\ IsFiniteSet({i + n : i \in S})
           /\ Cardinality({i + n : i \in S}) = Cardinality(S)
PROOF
  <1> DEFINE T == {i + n : i \in S}
             f == [i \in S |-> i + n]
  <1>1. f \in [S -> T]
    OBVIOUS
  <1>2. \A a, b \in S : f[a] = f[b] => a = b
    BY <1>1
  <1>3. \A t \in T : \E s \in S : f[s] = t
    BY <1>1
  <1>4. f \in Bijection(S, T)
    <2> HIDE DEF f, T
    <2> QED BY <1>1, <1>2, <1>3, Fun_IsBij
  <1>5. ExistsBijection(S, T)
    BY <1>4 DEF ExistsBijection
  <1> HIDE DEF T
  <1>6. IsFiniteSet(T) /\ Cardinality(T) = Cardinality(S)
    BY <1>5, FS_Bijection
  <1> QED BY <1>6 DEF T

\* The newlines of a joined text.
LEMMA NewlinesConcat ==
    ASSUME NEW u \in Texts, NEW v \in Texts
    PROVE  Newlines(u \o v) = Newlines(u) \cup {i + Len(u) : i \in Newlines(v)}
PROOF
  <1>1. Len(u) \in Nat /\ Len(v) \in Nat
    BY NewlinesOfText
  <1>2. /\ u \o v \in Texts
        /\ Len(u \o v) = Len(u) + Len(v)
        /\ \A i \in 1..Len(u) + Len(v) :
                (u \o v)[i] = IF i <= Len(u) THEN u[i] ELSE v[i - Len(u)]
    BY ConcatProperties DEF Texts
  <1>3. ASSUME NEW i \in Newlines(u \o v)
        PROVE  i \in Newlines(u) \cup {j + Len(u) : j \in Newlines(v)}
    <2>1. i \in 1..Len(u) + Len(v) /\ (u \o v)[i] = NL
      BY <1>2, <1>3 DEF Newlines
    <2>2. CASE i <= Len(u)
      <3>1. i \in 1..Len(u) /\ u[i] = NL
        BY <1>1, <1>2, <2>1, <2>2
      <3> QED BY <3>1 DEF Newlines
    <2>3. CASE ~(i <= Len(u))
      <3>1. i - Len(u) \in 1..Len(v) /\ v[i - Len(u)] = NL /\ i = (i - Len(u)) + Len(u)
        BY <1>1, <1>2, <2>1, <2>3
      <3>2. i - Len(u) \in Newlines(v)
        BY <3>1 DEF Newlines
      <3> QED BY <3>1, <3>2
    <2> QED BY <2>2, <2>3
  <1>4. ASSUME NEW i \in Newlines(u) PROVE i \in Newlines(u \o v)
    <2>1. i \in 1..Len(u) /\ u[i] = NL
      BY <1>4 DEF Newlines
    <2>2. i \in 1..Len(u) + Len(v) /\ i <= Len(u)
      BY <1>1, <2>1
    <2>3. i \in 1..Len(u \o v) /\ (u \o v)[i] = NL
      BY <1>2, <2>1, <2>2
    <2> QED BY <2>3 DEF Newlines
  <1>5. ASSUME NEW i \in Newlines(v) PROVE i + Len(u) \in Newlines(u \o v)
    <2>1. i \in 1..Len(v) /\ v[i] = NL
      BY <1>5 DEF Newlines
    <2>2. /\ i + Len(u) \in 1..Len(u) + Len(v) /\ ~(i + Len(u) <= Len(u))
          /\ (i + Len(u)) - Len(u) = i
      BY <1>1, <2>1
    <2>3. i + Len(u) \in 1..Len(u \o v) /\ (u \o v)[i + Len(u)] = NL
      BY <1>2, <2>1, <2>2
    <2> QED BY <2>3 DEF Newlines
  <1> QED BY <1>3, <1>4, <1>5

\* A position has the row it had in the first text, or that of the second behind
\* all rows of the first.
LEMMA RowConcat ==
    ASSUME NEW u \in Texts, NEW v \in Texts, NEW p \in Nat
    PROVE  /\ p <= Len(u) => Row(u \o v, p) = Row(u, p)
           /\ Row(u \o v, p + Len(u)) = Rows(u) + Row(v, p)
PROOF
  <1>1. /\ Len(u) \in Nat /\ IsFiniteSet(Newlines(u)) /\ IsFiniteSet(Newlines(v))
        /\ \A i \in Newlines(u) : i \in Nat /\ i <= Len(u) /\ i # 0
        /\ \A i \in Newlines(v) : i \in Nat /\ i # 0
    BY NewlinesOfText
  <1>2. Newlines(u \o v) = Newlines(u) \cup {i + Len(u) : i \in Newlines(v)}
    BY NewlinesConcat
  <1>3. ASSUME p <= Len(u) PROVE Row(u \o v, p) = Row(u, p)
    <2>1. \A j \in Newlines(v) : ~(j + Len(u) <= p)
      BY <1>1, <1>3
    <2>2. {i \in Newlines(u \o v) : i <= p} = {i \in Newlines(u) : i <= p}
      BY <1>2, <2>1
    <2> QED BY <2>2 DEF Row
  <1>4. Row(u \o v, p + Len(u)) = Rows(u) + Row(v, p)
    <2> DEFINE B == {i \in Newlines(v) : i <= p}
               C == {i + Len(u) : i \in B}
    <2>1. \A j \in Newlines(v) : j + Len(u) <= p + Len(u) <=> j <= p
      BY <1>1
    <2>2. \A i \in Newlines(u) : i <= p + Len(u)
      BY <1>1
    <2>3. {i \in Newlines(u \o v) : i <= p + Len(u)} = Newlines(u) \cup C
      BY <1>2, <2>1, <2>2
    <2>4. B \in SUBSET Newlines(v) /\ B \in SUBSET Nat
      BY <1>1
    <2>5. IsFiniteSet(B)
      BY <1>1, <2>4, FS_Subset
    <2>6. IsFiniteSet(C) /\ Cardinality(C) = Cardinality(B)
      BY <1>1, <2>4, <2>5, ShiftedSet
    <2>7. Newlines(u) \cap C = {}
      <3>1. \A i \in Newlines(u), j \in Newlines(v) : i # j + Len(u)
        BY <1>1
      <3> QED BY <2>4, <3>1
    <2>8. Cardinality(B) = Row(v, p)
      BY DEF Row
    <2> HIDE DEF B, C
    <2>9. Cardinality(Newlines(u) \cup C) = Cardinality(Newlines(u)) + Cardinality(C) - 0
      BY <1>1, <2>6, <2>7, FS_Union, FS_EmptySet
    <2>10. Cardinality(Newlines(u)) \in Nat /\ Cardinality(C) \in Nat
      BY <1>1, <2>6, FS_CardinalityType
    <2>11. Row(u \o v, p + Len(u)) = Cardinality(Newlines(u) \cup C)
      BY <2>3 DEF Row
    <2>12. Rows(u) = Cardinality(Newlines(u))
      BY DEF Rows
    <2> QED BY <2>6, <2>8, <2>9, <2>10, <2>11, <2>12
  <1> QED BY <1>3, <1>4

\* The first newline of a text ends its first row, the last one its last but one.
LEMMA SomeNewline ==
    ASSUME NEW t \in Texts, Rows(t) # 0
    PROVE  /\ \E i \in Newlines(t) : Row(t, i) = 1
           /\ \E i \in Newlines(t) : Row(t, i) = Rows(t)
PROOF
  <1>1. /\ Len(t) \in Nat /\ IsFiniteSet(Newlines(t)) /\ Newlines(t) \in SUBSET Nat
        /\ \A i \in Newlines(t) : i <= Len(t)
    BY NewlinesOfText
  <1>2. Newlines(t) # {}
    BY FS_EmptySet DEF Rows
  <1>3. PICK i \in Newlines(t) : \A j \in Newlines(t) : i <= j
    BY <1>1, <1>2, LeastNumber
  <1>4. Row(t, i) = 1
    <2>1. \A j \in Newlines(t) : j <= i => j = i
      BY <1>1, <1>3
    <2>2. {j \in Newlines(t) : j <= i} = {i}
      BY <1>1, <1>3, <2>1
    <2> QED BY <2>2, FS_Singleton DEF Row
  <1> DEFINE l == Max(Newlines(t))
  <1>5. l \in Newlines(t) /\ \A j \in Newlines(t) : j <= l
    BY <1>1, <1>2, MaxOfNumbers
  <1>6. Row(t, l) = Rows(t)
    <2>1. {j \in Newlines(t) : j <= l} = Newlines(t)
      BY <1>5
    <2> QED BY <2>1 DEF Row, Rows
  <1> QED BY <1>4, <1>5, <1>6

\* A newline is counted at its own place already.
LEMMA RowOfNewline ==
    ASSUME NEW t \in Texts, NEW i \in Newlines(t)
    PROVE  i \in Nat /\ i <= Len(t) /\ Row(t, i) \in 1..Rows(t)
PROOF
  <1> DEFINE B == {j \in Newlines(t) : j <= i}
  <1>1. i \in Nat /\ i <= Len(t) /\ IsFiniteSet(Newlines(t))
    BY NewlinesOfText
  <1>2. Row(t, i) \in 0..Cardinality(Newlines(t))
    BY <1>1, RowType
  <1>3. B # {} /\ B \in SUBSET Newlines(t)
    BY <1>1
  <1>4. IsFiniteSet(B)
    BY <1>1, <1>3, FS_Subset
  <1> HIDE DEF B
  <1>5. Cardinality(B) # 0
    BY <1>3, <1>4, FS_EmptySet
  <1>6. Row(t, i) # 0
    BY <1>5 DEF Row, B
  <1> QED BY <1>1, <1>2, <1>6 DEF Rows

\* What the start of a row is, without CHOOSE.
LEMMA RowStartIs ==
    ASSUME NEW t \in Texts, NEW row \in Nat, NEW x \in Nat,
           x = 0 \/ (x \in Newlines(t) /\ Row(t, x) <= row),
           \A i \in Newlines(t) : Row(t, i) <= row => i <= x
    PROVE  RowStart(t, row) = x
PROOF
  <1> DEFINE y == RowStart(t, row)
  <1>1. /\ y \in 0..Len(t)
        /\ y # 0 => y \in Newlines(t) /\ Row(t, y) <= row
        /\ \A i \in Newlines(t) : IF Row(t, i) <= row THEN i <= y ELSE RowEnd(t, row) < i
    BY RowBounds
  <1> HIDE DEF y
  <1>2. y \in Nat
    BY <1>1, NewlinesOfText
  <1>3. x <= y
    BY <1>1, <1>2
  <1>4. y <= x
    BY <1>1, <1>2
  <1>5. x = y
    BY <1>2, <1>3, <1>4
  <1> QED BY <1>5 DEF y

\* What the end of a row is, without CHOOSE.
LEMMA RowEndIs ==
    ASSUME NEW t \in Texts, NEW row \in Nat, NEW x \in 0..Len(t),
           x = Len(t) \/ (x + 1 \in Newlines(t) /\ Row(t, x + 1) > row),
           \A i \in Newlines(t) : Row(t, i) > row => x < i
    PROVE  RowEnd(t, row) = x
PROOF
  <1> DEFINE y == RowEnd(t, row)
  <1>0. Len(t) \in Nat /\ \A i \in Newlines(t) : Row(t, i) \in Nat
    BY NewlinesOfText, RowOfNewline
  <1>1. /\ y \in 0..Len(t)
        /\ y # Len(t) => y + 1 \in Newlines(t) /\ Row(t, y + 1) > row
        /\ \A i \in Newlines(t) : IF Row(t, i) <= row THEN i <= RowStart(t, row) ELSE y < i
    BY RowBounds
  <1> HIDE DEF y
  <1>2. x \in Nat /\ y \in Nat /\ x <= Len(t) /\ y <= Len(t)
    BY <1>0, <1>1
  <1>3. x <= y
    <2>1. CASE y = Len(t)
      BY <1>2, <2>1
    <2>2. CASE y # Len(t)
      <3>1. x < y + 1
        BY <1>1, <2>2
      <3> QED BY <1>2, <3>1
    <2> QED BY <2>1, <2>2
  <1>4. y <= x
    <2>1. CASE x = Len(t)
      BY <1>2, <2>1
    <2>2. CASE x # Len(t)
      <3>1. x + 1 \in Newlines(t) /\ ~(Row(t, x + 1) <= row)
        BY <1>0, <2>2
      <3>2. y < x + 1
        BY <1>1, <3>1
      <3> QED BY <1>2, <3>2
    <2> QED BY <2>1, <2>2
  <1>5. x = y
    BY <1>2, <1>3, <1>4
  <1> QED BY <1>5 DEF y

\* Where the rows of a joined text start and end.
LEMMA BoundsConcat ==
    ASSUME NEW u \in Texts, NEW v \in Texts
    PROVE  /\ Rows(u \o v) = Rows(u) + Rows(v)
           /\ \A row \in 0..Rows(u) : RowStart(u \o v, row) = RowStart(u, row)
           /\ \A row \in 0..Rows(u) : row # Rows(u) => RowEnd(u \o v, row) = RowEnd(u, row)
           /\ \A k \in 1..Rows(v) : RowStart(u \o v, Rows(u) + k) = Len(u) + RowStart(v, k)
           /\ \A k \in 0..Rows(v) : RowEnd(u \o v, Rows(u) + k) = Len(u) + RowEnd(v, k)
PROOF
  <1> DEFINE w == u \o v
             n == Len(u)
  <1>1. /\ w \in Texts /\ Len(w) = n + Len(v) /\ n \in Nat /\ Len(v) \in Nat
        /\ Rows(u) \in Nat /\ Rows(v) \in Nat
    BY TextAlgebra, NewlinesOfText, RowsType
  <1>2. Newlines(w) = Newlines(u) \cup {i + n : i \in Newlines(v)}
    BY NewlinesConcat
  <1>3. \A i \in Newlines(u) : /\ i \in Nat /\ i <= n /\ i \in Newlines(w)
                               /\ Row(w, i) = Row(u, i) /\ Row(u, i) \in 1..Rows(u)
    BY <1>2, RowOfNewline, RowConcat
  <1>4. \A j \in Newlines(v) : /\ j \in Nat /\ j <= Len(v) /\ j + n \in Newlines(w)
                               /\ Row(w, j + n) = Rows(u) + Row(v, j) /\ Row(v, j) \in 1..Rows(v)
    BY <1>2, RowOfNewline, RowConcat
  <1>5. Rows(w) = Rows(u) + Rows(v)
    <2>1. Row(w, Len(v) + n) = Rows(u) + Row(v, Len(v))
      BY <1>1, RowConcat
    <2>2. Len(v) + n = Len(w)
      BY <1>1
    <2> QED BY <1>1, <2>1, <2>2, RowsType
  <1> HIDE DEF w, n
  <1>6. ASSUME NEW row \in 0..Rows(u)
        PROVE  RowStart(w, row) = RowStart(u, row)
    <2> DEFINE x == RowStart(u, row)
    <2>0. row \in Nat /\ row <= Rows(u)
      BY <1>1
    <2>1. /\ x \in 0..Len(u)
          /\ x # 0 => x \in Newlines(u) /\ Row(u, x) <= row
          /\ \A i \in Newlines(u) : IF Row(u, i) <= row THEN i <= x ELSE RowEnd(u, row) < i
      BY <2>0, RowBounds
    <2> HIDE DEF x
    <2>2. x \in Nat
      BY <1>1, <2>1 DEF n
    <2>3. x = 0 \/ (x \in Newlines(w) /\ Row(w, x) <= row)
      BY <1>3, <2>1
    <2>4. ASSUME NEW i \in Newlines(w), Row(w, i) <= row PROVE i <= x
      <3>1. CASE i \in Newlines(u)
        BY <1>3, <2>1, <2>4, <3>1
      <3>2. CASE i \notin Newlines(u)
        <4>1. PICK j \in Newlines(v) : i = j + n
          BY <1>2, <3>2
        <4>2. ~(Row(w, i) <= row)
          BY <1>1, <1>4, <2>0, <4>1
        <4> QED BY <2>4, <4>2
      <3> QED BY <3>1, <3>2
    <2>5. RowStart(w, row) = x
      BY <1>1, <2>0, <2>2, <2>3, <2>4, RowStartIs
    <2> QED BY <2>5 DEF x
  <1>7. ASSUME NEW row \in 0..Rows(u), row # Rows(u)
        PROVE  RowEnd(w, row) = RowEnd(u, row)
    <2> DEFINE x == RowEnd(u, row)
    <2>0. row \in Nat /\ row < Rows(u) /\ Rows(u) # 0
      BY <1>1, <1>7
    <2>1. /\ x \in 0..Len(u)
          /\ x # Len(u) => x + 1 \in Newlines(u) /\ Row(u, x + 1) > row
          /\ \A i \in Newlines(u) : IF Row(u, i) <= row THEN i <= RowStart(u, row) ELSE x < i
      BY <2>0, RowBounds
    <2> HIDE DEF x
    <2>2. PICK l \in Newlines(u) : Row(u, l) = Rows(u)
      BY <2>0, SomeNewline
    <2>3. x \in Nat /\ x < l /\ l \in Nat /\ l <= n
      <3>1. ~(Row(u, l) <= row)
        BY <1>1, <2>0, <2>2
      <3> QED BY <1>1, <1>3, <2>1, <3>1 DEF n
    <2>4. x + 1 \in Newlines(u) /\ Row(u, x + 1) > row
      <3>1. x # Len(u)
        BY <1>1, <2>3 DEF n
      <3> QED BY <2>1, <3>1
    <2>5. x + 1 \in Newlines(w) /\ Row(w, x + 1) > row
      BY <1>3, <2>4
    <2>6. ASSUME NEW i \in Newlines(w), Row(w, i) > row PROVE x < i
      <3>1. CASE i \in Newlines(u)
        <4>1. ~(Row(u, i) <= row)
          BY <1>3, <2>0, <2>6, <3>1
        <4> QED BY <2>1, <3>1, <4>1
      <3>2. CASE i \notin Newlines(u)
        <4>1. PICK j \in Newlines(v) : i = j + n
          BY <1>2, <3>2
        <4> QED BY <1>1, <1>4, <2>3, <4>1
      <3> QED BY <3>1, <3>2
    <2>7. x \in 0..Len(w)
      BY <1>1, <2>3
    <2>8. RowEnd(w, row) = x
      BY <1>1, <2>0, <2>5, <2>6, <2>7, RowEndIs
    <2> QED BY <2>8 DEF x
  <1>8. ASSUME NEW k \in 1..Rows(v)
        PROVE  RowStart(w, Rows(u) + k) = n + RowStart(v, k)
    <2> DEFINE x == RowStart(v, k)
    <2>0. k \in Nat /\ 1 <= k /\ Rows(v) # 0 /\ Rows(u) + k \in Nat
      BY <1>1
    <2>1. /\ x \in 0..Len(v)
          /\ x # 0 => x \in Newlines(v) /\ Row(v, x) <= k
          /\ \A i \in Newlines(v) : IF Row(v, i) <= k THEN i <= x ELSE RowEnd(v, k) < i
      BY <2>0, RowBounds
    <2> HIDE DEF x
    <2>2. PICK l \in Newlines(v) : Row(v, l) = 1
      BY <2>0, SomeNewline
    <2>3. x \in Newlines(v) /\ Row(v, x) <= k
      <3>1. l <= x /\ l # 0 /\ l \in Nat
        BY <1>4, <2>0, <2>1, <2>2, NewlinesOfText
      <3>2. x # 0
        BY <1>1, <2>1, <3>1
      <3> QED BY <2>1, <3>2
    <2>4. x + n \in Newlines(w) /\ Row(w, x + n) <= Rows(u) + k /\ x + n \in Nat
      BY <1>1, <1>4, <2>0, <2>3
    <2>5. ASSUME NEW i \in Newlines(w), Row(w, i) <= Rows(u) + k PROVE i <= x + n
      <3>1. CASE i \in Newlines(u)
        BY <1>1, <1>3, <1>4, <2>3, <3>1
      <3>2. CASE i \notin Newlines(u)
        <4>1. PICK j \in Newlines(v) : i = j + n
          BY <1>2, <3>2
        <4>2. Row(v, j) <= k
          BY <1>1, <1>4, <2>0, <2>5, <4>1
        <4>3. j <= x
          BY <2>1, <4>2
        <4> QED BY <1>1, <1>4, <2>3, <4>1, <4>3
      <3> QED BY <3>1, <3>2
    <2>6. RowStart(w, Rows(u) + k) = x + n
      BY <1>1, <2>0, <2>4, <2>5, RowStartIs
    <2>7. x + n = n + x
      BY <1>1, <1>4, <2>3
    <2> QED BY <2>6, <2>7 DEF x
  <1>9. ASSUME NEW k \in 0..Rows(v)
        PROVE  RowEnd(w, Rows(u) + k) = n + RowEnd(v, k)
    <2> DEFINE x == RowEnd(v, k)
    <2>0. k \in Nat /\ Rows(u) + k \in Nat
      BY <1>1
    <2>1. /\ x \in 0..Len(v)
          /\ x # Len(v) => x + 1 \in Newlines(v) /\ Row(v, x + 1) > k
          /\ \A i \in Newlines(v) : IF Row(v, i) <= k THEN i <= RowStart(v, k) ELSE x < i
      BY <2>0, RowBounds
    <2> HIDE DEF x
    <2>2. x \in Nat /\ x <= Len(v) /\ n + x \in 0..Len(w)
      BY <1>1, <2>1
    <2>3. n + x = Len(w) \/ ((n + x) + 1 \in Newlines(w) /\ Row(w, (n + x) + 1) > Rows(u) + k)
      <3>1. CASE x = Len(v)
        BY <1>1, <3>1
      <3>2. CASE x # Len(v)
        <4>1. x + 1 \in Newlines(v) /\ Row(v, x + 1) > k /\ (x + 1) + n = (n + x) + 1
          BY <1>1, <2>1, <2>2, <3>2
        <4>2. /\ (x + 1) + n \in Newlines(w)
              /\ Row(w, (x + 1) + n) = Rows(u) + Row(v, x + 1) /\ Row(v, x + 1) \in 1..Rows(v)
          BY <1>4, <4>1
        <4>3. Rows(u) + Row(v, x + 1) > Rows(u) + k
          BY <1>1, <2>0, <4>1, <4>2
        <4> QED BY <4>1, <4>2, <4>3
      <3> QED BY <3>1, <3>2
    <2>4. ASSUME NEW i \in Newlines(w), Row(w, i) > Rows(u) + k PROVE n + x < i
      <3>1. CASE i \in Newlines(u)
        <4>1. ~(Row(w, i) > Rows(u) + k)
          BY <1>1, <1>3, <2>0, <3>1
        <4> QED BY <2>4, <4>1
      <3>2. CASE i \notin Newlines(u)
        <4>1. PICK j \in Newlines(v) : i = j + n
          BY <1>2, <3>2
        <4>2. ~(Row(v, j) <= k)
          BY <1>1, <1>4, <2>0, <2>4, <4>1
        <4>3. x < j
          BY <2>1, <4>2
        <4> QED BY <1>1, <1>4, <2>2, <4>1, <4>3
      <3> QED BY <3>1, <3>2
    <2>5. RowEnd(w, Rows(u) + k) = n + x
      BY <1>1, <2>0, <2>2, <2>3, <2>4, RowEndIs
    <2> QED BY <2>5 DEF x
  <1> QED BY <1>5, <1>6, <1>7, <1>8, <1>9 DEF w, n

\* The part of a text that Split gives for a row.
LEMMA RowPart ==
    ASSUME NEW t \in Texts, NEW row \in 0..Rows(t)
    PROVE  /\ Split(t)[row + 1] = SubSeq(t, RowStart(t, row) + 1, RowEnd(t, row))
           /\ Split(t)[row + 1] \in Lines
           /\ RowStart(t, row) \in 0..Len(t) /\ RowEnd(t, row) \in 0..Len(t)
           /\ RowStart(t, row) <= RowEnd(t, row)
           /\ row = 0 => RowStart(t, row) = 0
           /\ row = Rows(t) => RowEnd(t, row) = Len(t)
PROOF
  <1>1. Len(t) \in Nat /\ Rows(t) \in Nat /\ row \in Nat /\ row <= Rows(t)
    BY NewlinesOfText, RowsType
  <1> DEFINE s == RowStart(t, row)
             e == RowEnd(t, row)
  <1>2. /\ s \in 0..Len(t)
        /\ e \in 0..Len(t)
        /\ s # 0 => s \in Newlines(t) /\ Row(t, s) <= row
        /\ e # Len(t) => e + 1 \in Newlines(t) /\ Row(t, e + 1) > row
    BY <1>1, RowBounds
  <1>3. Split(t)[row + 1] = SubSeq(t, s + 1, e)
    BY SplitTypes DEF Rows
  <1>4. Split(t)[row + 1] \in Lines
    <2>1. Split(t) \in Seq(Lines) /\ Len(Split(t)) = Rows(t) + 1
      BY SplitTypes DEF Rows
    <2>2. row + 1 \in 1..Len(Split(t))
      BY <1>1, <2>1
    <2> QED BY <2>1, <2>2, ElementOfSeq
  <1> HIDE DEF s, e
  <1>5. s <= e
    <2>1. CASE s = 0 \/ e = Len(t)
      BY <1>1, <1>2, <2>1
    <2>2. CASE s # 0 /\ e # Len(t)
      <3>1. /\ s \in Newlines(t) /\ Row(t, s) <= row /\ s \in Nat /\ Row(t, s) \in Nat
            /\ e + 1 \in Newlines(t) /\ Row(t, e + 1) > row /\ Row(t, e + 1) \in Nat
        BY <1>2, <2>2, RowOfNewline
      <3>2. ~(Row(t, e + 1) <= Row(t, s))
        BY <1>1, <3>1
      <3>3. ~(e + 1 <= s)
        BY <3>1, <3>2, RowOrder
      <3> QED BY <1>1, <1>2, <3>3
    <2> QED BY <2>1, <2>2
  <1>6. row = 0 => s = 0
    <2> SUFFICES ASSUME row = 0, s # 0 PROVE FALSE
      OBVIOUS
    <2>1. Row(t, s) \in 1..Rows(t) /\ Row(t, s) <= 0
      BY <1>2, RowOfNewline
    <2> QED BY <1>1, <2>1
  <1>7. row = Rows(t) => e = Len(t)
    <2> SUFFICES ASSUME row = Rows(t), e # Len(t) PROVE FALSE
      OBVIOUS
    <2>1. Row(t, e + 1) \in 1..Rows(t) /\ Row(t, e + 1) > Rows(t)
      BY <1>2, RowOfNewline
    <2> QED BY <1>1, <2>1
  <1> QED BY <1>2, <1>3, <1>4, <1>5, <1>6, <1>7 DEF s, e

\* A piece of a joined text, in either text or across both.
LEMMA PieceOfConcat ==
    ASSUME NEW u \in Texts, NEW v \in Texts
    PROVE  /\ \A l \in 1..Len(u) + 1, h \in 0..Len(u) : SubSeq(u \o v, l, h) = SubSeq(u, l, h)
           /\ \A l \in 1..Len(v) + 1, h \in 0..Len(v) :
                SubSeq(u \o v, Len(u) + l, Len(u) + h) = SubSeq(v, l, h)
           /\ \A l \in 1..Len(u) + 1, h \in 0..Len(v) :
                SubSeq(u \o v, l, Len(u) + h) = SubSeq(u, l, Len(u)) \o SubSeq(v, 1, h)
PROOF
  <1> DEFINE w == u \o v
             n == Len(u)
             m == Len(v)
             S == Chars \cup {NL}
  <1>1. /\ n \in Nat /\ m \in Nat /\ Len(w) = n + m
        /\ u \in Seq(S) /\ v \in Seq(S) /\ w \in Seq(S)
        /\ \A i \in 1..n + m : w[i] = IF i <= n THEN u[i] ELSE v[i - n]
    BY ConcatProperties, NewlinesOfText DEF Texts
  <1> HIDE DEF w, n, m, S
  <1>2. ASSUME NEW l \in 1..n + 1, NEW h \in 0..n
        PROVE  SubSeq(w, l, h) = SubSeq(u, l, h)
    <2>1. l \in Nat \ {0} /\ h \in Int /\ h <= Len(w) /\ h <= n
      BY <1>1
    <2>2. /\ SubSeq(w, l, h) \in Seq(S)
          /\ Len(SubSeq(w, l, h)) = IF l <= h THEN h - l + 1 ELSE 0
          /\ \A i \in 1..h - l + 1 : SubSeq(w, l, h)[i] = w[l + i - 1]
      BY <1>1, <2>1, PartOfSeq
    <2>3. /\ SubSeq(u, l, h) \in Seq(S)
          /\ Len(SubSeq(u, l, h)) = IF l <= h THEN h - l + 1 ELSE 0
          /\ \A i \in 1..h - l + 1 : SubSeq(u, l, h)[i] = u[l + i - 1]
      BY <1>1, <2>1, PartOfSeq DEF n
    <2>4. \A i \in 1..h - l + 1 : l + i - 1 \in 1..n + m /\ l + i - 1 <= n
      BY <1>1, <2>1
    <2>5. \A i \in 1..h - l + 1 : SubSeq(w, l, h)[i] = SubSeq(u, l, h)[i]
      BY <1>1, <2>2, <2>3, <2>4
    <2>6. \A i \in 1..Len(SubSeq(w, l, h)) : i \in 1..h - l + 1
      BY <2>1, <2>2
    <2> QED BY <2>2, <2>3, <2>5, <2>6, SeqEqual
  <1>3. ASSUME NEW l \in 1..m + 1, NEW h \in 0..m
        PROVE  SubSeq(w, n + l, n + h) = SubSeq(v, l, h)
    <2>1. /\ l \in Nat \ {0} /\ h \in Int /\ h <= m
          /\ n + l \in Nat \ {0} /\ n + h \in Int /\ n + h <= Len(w)
          /\ (n + l <= n + h <=> l <= h) /\ (n + h) - (n + l) + 1 = h - l + 1
      BY <1>1
    <2>2. /\ SubSeq(w, n + l, n + h) \in Seq(S)
          /\ Len(SubSeq(w, n + l, n + h)) = IF l <= h THEN h - l + 1 ELSE 0
          /\ \A i \in 1..h - l + 1 : SubSeq(w, n + l, n + h)[i] = w[(n + l) + i - 1]
      <3> DEFINE a == n + l
                 b == n + h
      <3>1. a \in Nat \ {0} /\ b \in Int /\ b <= Len(w) /\ (a <= b <=> l <= h) /\ b - a + 1 = h - l + 1
        BY <2>1
      <3> HIDE DEF a, b
      <3>2. /\ SubSeq(w, a, b) \in Seq(S)
            /\ Len(SubSeq(w, a, b)) = IF a <= b THEN b - a + 1 ELSE 0
            /\ \A i \in 1..b - a + 1 : SubSeq(w, a, b)[i] = w[a + i - 1]
        BY <1>1, <3>1, PartOfSeq
      <3>3. /\ SubSeq(w, a, b) \in Seq(S)
            /\ Len(SubSeq(w, a, b)) = IF l <= h THEN h - l + 1 ELSE 0
            /\ \A i \in 1..h - l + 1 : SubSeq(w, a, b)[i] = w[a + i - 1]
        BY <3>1, <3>2
      <3> QED BY <3>3 DEF a, b
    <2>3. /\ SubSeq(v, l, h) \in Seq(S)
          /\ Len(SubSeq(v, l, h)) = IF l <= h THEN h - l + 1 ELSE 0
          /\ \A i \in 1..h - l + 1 : SubSeq(v, l, h)[i] = v[l + i - 1]
      BY <1>1, <2>1, PartOfSeq DEF m
    <2>4. \A i \in 1..h - l + 1 : /\ (n + l) + i - 1 \in 1..n + m /\ ~((n + l) + i - 1 <= n)
                                  /\ ((n + l) + i - 1) - n = l + i - 1
      BY <1>1, <2>1
    <2>5. \A i \in 1..h - l + 1 : SubSeq(w, n + l, n + h)[i] = SubSeq(v, l, h)[i]
      BY <1>1, <2>2, <2>3, <2>4
    <2>6. \A i \in 1..Len(SubSeq(v, l, h)) : i \in 1..h - l + 1
      BY <2>1, <2>3
    <2>7. Len(SubSeq(w, n + l, n + h)) = Len(SubSeq(v, l, h))
      BY <2>2, <2>3
    <2> QED BY <2>2, <2>3, <2>5, <2>6, <2>7, SeqEqual
  <1>4. ASSUME NEW l \in 1..n + 1, NEW h \in 0..m
        PROVE  SubSeq(w, l, n + h) = SubSeq(u, l, n) \o SubSeq(v, 1, h)
    <2>1. /\ l \in 1..Len(w) + 1 /\ n \in l - 1..Len(w) /\ n + h \in n..Len(w)
          /\ 1 \in 1..m + 1 /\ n \in 0..n
      BY <1>1
    <2>2. SubSeq(w, l, n) \o SubSeq(w, n + 1, n + h) = SubSeq(w, l, n + h)
      BY <1>1, <2>1, ConcatAdjacentSubSeq
    <2>3. SubSeq(w, l, n) = SubSeq(u, l, n)
      BY <1>2, <2>1
    <2>4. SubSeq(w, n + 1, n + h) = SubSeq(v, 1, h)
      BY <1>3, <2>1
    <2> QED BY <2>2, <2>3, <2>4
  <1> QED BY <1>2, <1>3, <1>4 DEF w, n, m

-----------------------------------------------------------------------------
(* Parts of joined texts.                                                  *)

\* A text ends at position p and goes on there.
LEMMA CutText ==
    ASSUME NEW s \in Texts, NEW p \in 0..Len(s)
    PROVE  /\ SubSeq(s, 1, p) \in Texts /\ SubSeq(s, p + 1, Len(s)) \in Texts
           /\ s = SubSeq(s, 1, p) \o SubSeq(s, p + 1, Len(s))
           /\ Len(SubSeq(s, 1, p)) = p
PROOF
  <1>1. /\ Len(s) \in Nat /\ s \in Seq(Chars \cup {NL})
        /\ p \in Int /\ p <= Len(s) /\ 1 \in Nat \ {0} /\ p + 1 \in Nat \ {0}
        /\ Len(s) \in Int /\ Len(s) <= Len(s)
        /\ 1 \in 1..Len(s) + 1 /\ p \in 1 - 1..Len(s) /\ Len(s) \in p..Len(s)
        /\ (IF 1 <= p THEN p - 1 + 1 ELSE 0) = p
    BY NewlinesOfText DEF Texts
  <1>2. SubSeq(s, 1, p) \in Seq(Chars \cup {NL}) /\ Len(SubSeq(s, 1, p)) = IF 1 <= p THEN p - 1 + 1 ELSE 0
    BY <1>1, PartOfSeq
  <1>3. SubSeq(s, p + 1, Len(s)) \in Seq(Chars \cup {NL})
    BY <1>1, PartOfSeq
  <1>4. SubSeq(s, 1, p) \o SubSeq(s, p + 1, Len(s)) = SubSeq(s, 1, Len(s))
    BY <1>1, ConcatAdjacentSubSeq
  <1>5. SubSeq(s, 1, Len(s)) = s
    BY <1>1, SubSeqFull
  <1>6. Len(SubSeq(s, 1, p)) = p
    BY <1>1, <1>2
  <1>7. SubSeq(s, 1, p) \in Texts /\ SubSeq(s, p + 1, Len(s)) \in Texts
    BY <1>2, <1>3, Zenon DEF Texts
  <1> QED BY <1>4, <1>5, <1>6, <1>7, Zenon

\* The two parts of a joined text.
LEMMA CutConcat ==
    ASSUME NEW u \in Texts, NEW v \in Texts
    PROVE  /\ SubSeq(u \o v, 1, Len(u)) = u
           /\ SubSeq(u \o v, Len(u) + 1, Len(u \o v)) = v
PROOF
  <1>1. /\ Len(u) \in Nat /\ Len(v) \in Nat /\ Len(u \o v) = Len(u) + Len(v)
        /\ u \in Seq(Chars \cup {NL}) /\ v \in Seq(Chars \cup {NL})
    BY NewlinesOfText, TextAlgebra DEF Texts
  <1>2. 1 \in 1..Len(u) + 1 /\ Len(u) \in 0..Len(u) /\ 1 \in 1..Len(v) + 1 /\ Len(v) \in 0..Len(v)
    BY <1>1
  <1>3. SubSeq(u \o v, 1, Len(u)) = SubSeq(u, 1, Len(u))
    BY <1>2, PieceOfConcat
  <1>4. SubSeq(u \o v, Len(u) + 1, Len(u) + Len(v)) = SubSeq(v, 1, Len(v))
    BY <1>2, PieceOfConcat
  <1> QED BY <1>1, <1>3, <1>4, SubSeqFull

\* What an edit does to the text, in terms of the parts it is between.
LEMMA EditOfParts ==
    ASSUME NEW u \in Texts, NEW t \in Texts, NEW v \in Texts
    PROVE  /\ Inserting(u \o v, Len(u), t) = u \o (t \o v)
           /\ Removing(u \o (t \o v), Len(u), Len(u) + Len(t)) = u \o v
PROOF
  <1>1. t \o v \in Texts /\ u \o t \in Texts /\ Len(u \o t) = Len(u) + Len(t)
        /\ (u \o t) \o v = u \o (t \o v)
    BY TextAlgebra
  <1>2. Inserting(u \o v, Len(u), t) = u \o t \o v
    BY CutConcat DEF Inserting
  <1>3. SubSeq(u \o (t \o v), 1, Len(u)) = u
    BY <1>1, CutConcat
  <1>4. SubSeq((u \o t) \o v, Len(u \o t) + 1, Len((u \o t) \o v)) = v
    BY <1>1, CutConcat
  <1>5. Removing(u \o (t \o v), Len(u), Len(u) + Len(t)) = u \o v
    BY <1>1, <1>3, <1>4 DEF Removing
  <1> QED BY <1>1, <1>2, <1>5

\* Whole lines: nothing, or a text that ends in a newline.
Whole(w) == w = <<>> \/ w[Len(w)] = NL

\* Whether a joined text is whole is up to the second one.
LEMMA WholeConcat ==
    ASSUME NEW u \in Texts, NEW v \in Texts
    PROVE  /\ v # <<>> => (Whole(u \o v) <=> Whole(v))
           /\ Whole(u) /\ Whole(v) => Whole(u \o v)
PROOF
  <1>1. u \in Seq(Chars \cup {NL}) /\ v \in Seq(Chars \cup {NL}) /\ u \o <<>> = u
    BY TextAlgebra DEF Texts
  <1>2. ASSUME v # <<>> PROVE Whole(u \o v) <=> Whole(v)
    <2>1. /\ Len(u) \in Nat /\ Len(v) \in Nat \ {0} /\ Len(u \o v) = Len(u) + Len(v)
          /\ \A i \in 1..Len(u) + Len(v) : (u \o v)[i] = IF i <= Len(u) THEN u[i] ELSE v[i - Len(u)]
      BY <1>1, <1>2, EmptySeq, ConcatProperties, NewlinesOfText
    <2>2. /\ Len(u) + Len(v) \in 1..Len(u) + Len(v) /\ ~(Len(u) + Len(v) <= Len(u))
          /\ (Len(u) + Len(v)) - Len(u) = Len(v)
      BY <2>1
    <2>3. (u \o v)[Len(u \o v)] = v[Len(v)]
      BY <2>1, <2>2
    <2>4. u \o v # <<>>
      BY <1>1, <1>2, ConcatEqualIffEmpty
    <2> QED BY <1>2, <2>3, <2>4 DEF Whole
  <1> QED BY <1>1, <1>2

\* The rows of a line, of a newline and of a line that has one.
LEMMA RowsOf ==
    /\ Rows(<<>>) = 0
    /\ \A l \in Lines : Rows(l) = 0
    /\ Rows(<<NL>>) = 1
    /\ \A u, v \in Texts : Rows(u \o v) = Rows(u) + Rows(v)
PROOF
  <1>1. \A l \in Lines : Rows(l) = 0
    <2> TAKE l \in Lines
    <2>1. Len(l) \in Nat /\ \A i \in 1..Len(l) : l[i] \in Chars
      BY LenProperties, ElementOfSeq DEF Lines
    <2>2. Newlines(l) = {}
      BY <2>1, TextAssumption DEF Newlines
    <2> QED BY <2>2, FS_EmptySet DEF Rows
  <1>2. Rows(<<>>) = 0
    BY <1>1, EmptySeq DEF Lines
  <1>3. Rows(<<NL>>) = 1
    <2>1. Newlines(<<NL>>) = {1}
      BY DEF Newlines
    <2> QED BY <2>1, FS_Singleton DEF Rows
  <1> QED BY <1>1, <1>2, <1>3, BoundsConcat

-----------------------------------------------------------------------------
(* Sequences of texts.                                                     *)

\* No texts make the empty text.
LEMMA FlattenEmpty == FlattenSeq(<<>>) = <<>>
PROOF
  <1>1. Len(<<>>) = 0
    BY EmptySeq
  <1> QED BY <1>1 DEF FlattenSeq

\* One text more.
LEMMA FlattenAppend ==
    ASSUME NEW seqs \in Seq(Texts), NEW x \in Texts
    PROVE  FlattenSeq(Append(seqs, x)) = FlattenSeq(seqs) \o x
PROOF
  <1> DEFINE n == Len(seqs)
             more == Append(seqs, x)
  <1>1. /\ n \in Nat /\ more \in Seq(Texts) /\ more # <<>> /\ Len(more) = n + 1
        /\ \A i \in 1..n : more[i] = seqs[i]
        /\ more[n + 1] = x
    BY AppendProperties, LenProperties
  <1> HIDE DEF more
  <1>2. PICK g : /\ FlattenSeq(more) = g[Len(more)]
                 /\ g[1] = more[1]
                 /\ \A i \in 2..Len(more) : g[i] = g[i - 1] \o more[i]
    BY <1>1, FlattenSteps
  <1>3. CASE seqs = <<>>
    <2>1. n = 0
      BY <1>3, EmptySeq
    <2>2. FlattenSeq(more) = x
      BY <1>1, <1>2, <2>1
    <2> QED BY <1>3, <2>2, FlattenEmpty, TextAlgebra DEF more
  <1>4. CASE seqs # <<>>
    <2>1. PICK f : /\ FlattenSeq(seqs) = f[Len(seqs)]
                   /\ f[1] = seqs[1]
                   /\ \A i \in 2..Len(seqs) : f[i] = f[i - 1] \o seqs[i]
      BY <1>4, FlattenSteps
    <2>2. n \in Nat \ {0}
      BY <1>4, EmptySeq
    <2> DEFINE Bad == {k \in 1..n : g[k] # f[k]}
    <2>3. Bad = {}
      <3> SUFFICES ASSUME Bad # {} PROVE FALSE
        OBVIOUS
      <3>0. Bad \in SUBSET Nat
        BY <2>2
      <3>1. PICK k \in Bad : \A m \in Bad : k <= m
        BY <3>0, LeastNumber
      <3>2. k # 1
        BY <1>1, <1>2, <2>1, <2>2
      <3>3. /\ k \in 2..n /\ k \in 1..n /\ k \in 2..n + 1
            /\ k - 1 \in 1..n /\ ~(k <= k - 1)
        BY <2>2, <3>2
      <3>4. g[k - 1] = f[k - 1]
        BY <3>1, <3>3
      <3>5. g[k] = g[k - 1] \o more[k] /\ f[k] = f[k - 1] \o seqs[k] /\ more[k] = seqs[k]
        BY <1>1, <1>2, <2>1, <3>3
      <3> QED BY <3>1, <3>4, <3>5
    <2>4. g[n] = f[n]
      BY <2>2, <2>3
    <2>5. n + 1 \in 2..n + 1 /\ (n + 1) - 1 = n
      BY <2>2
    <2>6. g[n + 1] = g[(n + 1) - 1] \o more[n + 1]
      BY <1>1, <1>2, <2>5
    <2>7. FlattenSeq(more) = g[n + 1]
      BY <1>1, <1>2
    <2> QED BY <1>1, <2>1, <2>4, <2>5, <2>6, <2>7 DEF more
  <1> QED BY <1>3, <1>4

\* A sequence without its last element, and with it.
LEMMA PrefixGrows ==
    ASSUME NEW S, NEW s \in Seq(S), NEW k \in 1..Len(s)
    PROVE  /\ SubSeq(s, 1, k - 1) \in Seq(S)
           /\ s[k] \in S
           /\ SubSeq(s, 1, k) = Append(SubSeq(s, 1, k - 1), s[k])
PROOF
  <1>1. Len(s) \in Nat /\ k \in Nat /\ k - 1 \in Int /\ k - 1 <= Len(s) /\ 1 \in Nat \ {0}
        /\ 1 \in 1..Len(s) /\ k \in 1..Len(s)
    BY LenProperties
  <1>2. SubSeq(s, 1, k - 1) \in Seq(S) /\ s[k] \in S
    BY <1>1, PartOfSeq, ElementOfSeq
  <1>3. SubSeq(s, 1, k) = SubSeq(s, 1, k - 1) \o <<s[k]>>
    BY <1>1, SubSeqRecursiveSecond
  <1> QED BY <1>2, <1>3, AppendIsConcat

\* A text after two sequences.
LEMMA ConcatAppend ==
    ASSUME NEW a \in Seq(Texts), NEW b \in Seq(Texts), NEW x \in Texts
    PROVE  a \o b \in Seq(Texts) /\ a \o Append(b, x) = Append(a \o b, x)
PROOF
  <1>1. <<x>> \in Seq(Texts)
    OBVIOUS
  <1>2. Append(b, x) = b \o <<x>> /\ a \o b \in Seq(Texts)
    BY AppendIsConcat, ConcatProperties
  <1>3. (a \o b) \o <<x>> = a \o (b \o <<x>>)
    BY <1>1, ConcatAssociative
  <1>4. Append(a \o b, x) = (a \o b) \o <<x>>
    BY <1>2, AppendIsConcat
  <1> QED BY <1>2, <1>3, <1>4, Zenon

\* The text of two sequences of texts is that of the first and that of the
\* second.
LEMMA FlattenConcat ==
    ASSUME NEW a \in Seq(Texts), NEW b \in Seq(Texts)
    PROVE  FlattenSeq(a \o b) = FlattenSeq(a) \o FlattenSeq(b)
PROOF
  <1> DEFINE n == Len(b)
             B(k) == SubSeq(b, 1, k)
             Bad == {k \in Nat : k <= n /\ FlattenSeq(a \o B(k)) # FlattenSeq(a) \o FlattenSeq(B(k))}
  <1>1. n \in Nat /\ B(n) = b
    BY LenProperties, SubSeqFull
  <1> HIDE DEF B
  <1> SUFFICES ASSUME Bad # {} PROVE FALSE
    <2>1. n <= n
      BY <1>1
    <2> QED BY <1>1, <2>1, Zenon
  <1>2. PICK k \in Bad : \A m \in Bad : k <= m
    BY LeastNumber
  <1>3. FlattenSeq(a) \in Texts /\ \A s \in Seq(Texts) : FlattenSeq(s) \in Texts
    BY FlattenTypes DEF Texts
  <1>4. CASE k = 0
    <2>1. B(k) = <<>>
      BY <1>4, SubSeqEmpty DEF B
    <2>2. a \o B(k) = a /\ FlattenSeq(a) \o FlattenSeq(B(k)) = FlattenSeq(a)
      BY <1>3, <2>1, ConcatEmptySeq, FlattenEmpty, TextAlgebra
    <2> QED BY <1>2, <2>2
  <1>5. CASE k # 0
    <2>1. k \in 1..n /\ k - 1 \in Nat /\ k - 1 <= n /\ ~(k <= k - 1)
      BY <1>1, <1>2, <1>5
    <2>2. FlattenSeq(a \o B(k - 1)) = FlattenSeq(a) \o FlattenSeq(B(k - 1))
      BY <1>2, <2>1
    <2>3. B(k - 1) \in Seq(Texts) /\ b[k] \in Texts /\ B(k) = Append(B(k - 1), b[k])
      BY <2>1, PrefixGrows DEF B
    <2> DEFINE p == B(k - 1)
               x == b[k]
    <2>p. p \in Seq(Texts) /\ x \in Texts
      BY <2>3
    <2> HIDE DEF p, x
    <2>4. a \o Append(p, x) = Append(a \o p, x) /\ a \o p \in Seq(Texts)
      BY <2>p, ConcatAppend
    <2>5. FlattenSeq(Append(a \o p, x)) = FlattenSeq(a \o p) \o x
      BY <2>3, <2>4, FlattenAppend DEF p, x
    <2>6. FlattenSeq(Append(p, x)) = FlattenSeq(p) \o x
      BY <2>3, FlattenAppend DEF p, x
    <2>7. FlattenSeq(a) \o (FlattenSeq(p) \o x) = (FlattenSeq(a) \o FlattenSeq(p)) \o x
      BY <1>3, <2>3, TextAlgebra DEF p, x
    <2>8. FlattenSeq(a \o B(k)) = FlattenSeq(a) \o FlattenSeq(B(k))
      BY <2>2, <2>3, <2>4, <2>5, <2>6, <2>7, Zenon DEF p, x
    <2> QED BY <1>2, <2>8
  <1> QED BY <1>4, <1>5

\* The facts about FlattenSeq.
LEMMA FlattenText ==
    /\ FlattenSeq(<<>>) = <<>>
    /\ \A x \in Texts : FlattenSeq(<<x>>) = x /\ <<x>> \in Seq(Texts)
    /\ \A a \in Seq(Texts) : FlattenSeq(a) \in Texts
    /\ \A a, b \in Seq(Texts) : /\ a \o b \in Seq(Texts)
                                /\ FlattenSeq(a \o b) = FlattenSeq(a) \o FlattenSeq(b)
PROOF
  <1>1. ASSUME NEW x \in Texts PROVE FlattenSeq(<<x>>) = x /\ <<x>> \in Seq(Texts)
    <2>1. <<>> \in Seq(Texts) /\ Append(<<>>, x) = <<x>>
      BY EmptySeq
    <2>2. FlattenSeq(Append(<<>>, x)) = FlattenSeq(<<>>) \o x
      BY <2>1, FlattenAppend, Zenon
    <2>3. FlattenSeq(Append(<<>>, x)) = x
      BY <2>2, FlattenEmpty, TextAlgebra
    <2>4. <<x>> \in Seq(Texts)
      OBVIOUS
    <2> QED BY <2>1, <2>3, <2>4, Zenon
  <1>2. \A a \in Seq(Texts) : FlattenSeq(a) \in Texts
    BY FlattenTypes DEF Texts
  <1>3. \A a, b \in Seq(Texts) : a \o b \in Seq(Texts)
    BY ConcatProperties
  <1> QED BY <1>1, <1>2, <1>3, FlattenEmpty, FlattenConcat

-----------------------------------------------------------------------------
(* Concatenation under a name of its own, so that the provers reason with  *)
(* these facts instead of with the elements.                               *)

a ++ b == a \o b

\* The facts about ++ of sequences.
LEMMA SumOfSeqs ==
    ASSUME NEW S
    PROVE  /\ <<>> \in Seq(S) /\ Len(<<>>) = 0
           /\ \A a \in Seq(S) : a ++ <<>> = a /\ <<>> ++ a = a
           /\ \A a, b \in Seq(S) : a ++ b \in Seq(S) /\ Len(a ++ b) = Len(a) + Len(b)
           /\ \A a, b, c \in Seq(S) : (a ++ b) ++ c = a ++ (b ++ c)
           /\ \A a \in Seq(S), x \in S : Append(a, x) = a ++ <<x>> /\ <<x>> \in Seq(S)
PROOF
  <1>1. ASSUME NEW a \in Seq(S), NEW x \in S PROVE <<x>> \in Seq(S) /\ Append(a, x) = a ++ <<x>>
    BY AppendIsConcat DEF ++
  <1>2. ASSUME NEW a \in Seq(S), NEW b \in Seq(S), NEW c \in Seq(S)
        PROVE  (a ++ b) ++ c = a ++ (b ++ c)
    BY ConcatAssociative DEF ++
  <1>3. ASSUME NEW a \in Seq(S), NEW b \in Seq(S) PROVE a ++ b \in Seq(S) /\ Len(a ++ b) = Len(a) + Len(b)
    BY ConcatProperties DEF ++
  <1>4. \A a \in Seq(S) : a ++ <<>> = a /\ <<>> ++ a = a
    BY ConcatEmptySeq DEF ++
  <1>5. <<>> \in Seq(S) /\ Len(<<>>) = 0
    BY EmptySeq
  <1> QED BY <1>1, <1>2, <1>3, <1>4, <1>5

\* The facts about ++ of texts.
LEMMA SumOfTexts ==
    /\ <<>> \in Texts /\ Len(<<>>) = 0
    /\ \A u \in Texts : u ++ <<>> = u /\ <<>> ++ u = u /\ Len(u) \in Nat
    /\ \A u, v \in Texts : u ++ v \in Texts /\ Len(u ++ v) = Len(u) + Len(v)
    /\ \A u, v, w \in Texts : (u ++ v) ++ w = u ++ (v ++ w)
PROOF
  BY SumOfSeqs, NewlinesOfText DEF Texts

\* One instance, for texts.
LEMMA Regroup ==
    ASSUME NEW a \in Texts, NEW b \in Texts, NEW c \in Texts
    PROVE  (a ++ b) ++ c = a ++ (b ++ c)
PROOF
  BY SumOfTexts

\* The facts about one sum.
LEMMA SumOfTwo ==
    ASSUME NEW u \in Texts, NEW v \in Texts
    PROVE  u ++ v \in Texts /\ Len(u ++ v) = Len(u) + Len(v) /\ Len(u) \in Nat /\ Len(v) \in Nat
PROOF
  BY SumOfTexts

\* A text of which nothing is left had nothing, and one that stays the same got
\* nothing.
LEMMA NothingAdded ==
    ASSUME NEW u \in Texts, NEW v \in Texts
    PROVE  /\ u ++ v = <<>> => u = <<>> /\ v = <<>>
           /\ u ++ v = u => v = <<>>
PROOF
  BY ConcatEqualIffEmpty DEF ++, Texts

\* A text ends at position p and goes on there.
LEMMA CutAt ==
    ASSUME NEW s \in Texts, NEW p \in 0..Len(s)
    PROVE  /\ SubSeq(s, 1, p) \in Texts /\ SubSeq(s, p + 1, Len(s)) \in Texts
           /\ s = SubSeq(s, 1, p) ++ SubSeq(s, p + 1, Len(s))
           /\ Len(SubSeq(s, 1, p)) = p
PROOF
  BY CutText DEF ++

\* The two parts of a joined text.
LEMMA PartsOf ==
    ASSUME NEW u \in Texts, NEW v \in Texts
    PROVE  /\ SubSeq(u ++ v, 1, Len(u)) = u
           /\ SubSeq(u ++ v, Len(u) + 1, Len(u ++ v)) = v
PROOF
  BY CutConcat DEF ++

\* What an edit does to the text, in terms of the parts it is between.
LEMMA EditOf ==
    ASSUME NEW u \in Texts, NEW t \in Texts, NEW v \in Texts
    PROVE  /\ Inserting(u ++ v, Len(u), t) = u ++ (t ++ v)
           /\ Removing(u ++ (t ++ v), Len(u), Len(u) + Len(t)) = u ++ v
PROOF
  BY EditOfParts DEF ++

\* The same text behind the same text.
LEMMA SameAfter ==
    ASSUME NEW x \in Texts, NEW u \in Texts, NEW v \in Texts, x ++ u = x ++ v
    PROVE  u = v
PROOF
  BY ConcatSimplifications DEF ++, Texts

\* Two ways to cut a text.
LEMMA Overlaps ==
    ASSUME NEW u \in Texts, NEW v \in Texts, NEW x \in Texts, NEW y \in Texts,
           u ++ v = x ++ y, Len(x) <= Len(u)
    PROVE  \E z \in Texts : u = x ++ z /\ y = z ++ v
PROOF
  <1> DEFINE z == SubSeq(u, Len(x) + 1, Len(u))
  <1>1. Len(x) \in Nat /\ Len(u) \in Nat /\ Len(x) \in 0..Len(u) /\ 1 \in 1..Len(u) + 1
    BY NewlinesOfText
  <1>2. /\ z \in Texts /\ u = SubSeq(u, 1, Len(x)) ++ z
    BY <1>1, CutAt
  <1> HIDE DEF z
  <1>3. SubSeq(u, 1, Len(x)) = SubSeq(u ++ v, 1, Len(x))
    <2>1. SubSeq(u \o v, 1, Len(x)) = SubSeq(u, 1, Len(x))
      BY <1>1, PieceOfConcat
    <2> QED BY <2>1 DEF ++
  <1>4. SubSeq(u ++ v, 1, Len(x)) = x
    <2>1. SubSeq(x ++ y, 1, Len(x)) = x
      BY PartsOf
    <2> QED BY <2>1
  <1>5. u = x ++ z
    BY <1>2, <1>3, <1>4
  <1>6. x ++ (z ++ v) = x ++ y /\ z ++ v \in Texts
    BY <1>2, <1>5, SumOfTexts
  <1>7. z ++ v = y
    BY <1>2, <1>6, SameAfter
  <1> QED BY <1>2, <1>5, <1>7

\* WholeConcat for ++.
LEMMA WholeSum ==
    ASSUME NEW u \in Texts, NEW v \in Texts
    PROVE  /\ v # <<>> => (Whole(u ++ v) <=> Whole(v))
           /\ Whole(u) /\ Whole(v) => Whole(u ++ v)
PROOF
  BY WholeConcat DEF ++

\* Rows add up.
LEMMA RowsOfSum ==
    /\ Rows(<<>>) = 0
    /\ \A l \in Lines : Rows(l) = 0
    /\ Rows(<<NL>>) = 1
    /\ \A u \in Texts : Rows(u) \in Nat
    /\ \A u, v \in Texts : Rows(u ++ v) = Rows(u) + Rows(v)
PROOF
  BY RowsOf, RowsType DEF ++

\* The row of the place between two texts.
LEMMA RowAtEnd ==
    ASSUME NEW u \in Texts, NEW v \in Texts
    PROVE  Row(u ++ v, Len(u)) = Rows(u)
PROOF
  <1>1. Len(u) \in Nat /\ Len(u) <= Len(u)
    BY NewlinesOfText
  <1>2. Row(u \o v, Len(u)) = Row(u, Len(u))
    BY <1>1, RowConcat
  <1> QED BY <1>2, RowsType DEF ++

\* FlattenText for ++.
LEMMA FlattenSum ==
    /\ FlattenSeq(<<>>) = <<>>
    /\ \A x \in Texts : FlattenSeq(<<x>>) = x /\ <<x>> \in Seq(Texts)
    /\ \A a \in Seq(Texts) : FlattenSeq(a) \in Texts
    /\ \A a, b \in Seq(Texts) : /\ a ++ b \in Seq(Texts)
                                /\ FlattenSeq(a ++ b) = FlattenSeq(a) ++ FlattenSeq(b)
PROOF
  BY FlattenText DEF ++

\* One instance of it.
LEMMA FlattenOfTwo ==
    ASSUME NEW a \in Seq(Texts), NEW b \in Seq(Texts)
    PROVE  /\ a ++ b \in Seq(Texts)
           /\ FlattenSeq(a) \in Texts /\ FlattenSeq(b) \in Texts
           /\ FlattenSeq(a ++ b) = FlattenSeq(a) ++ FlattenSeq(b)
PROOF
  BY FlattenSum

\* One instance of RowsOfSum.
LEMMA RowsOfTwo ==
    ASSUME NEW u \in Texts, NEW v \in Texts
    PROVE  Rows(u ++ v) = Rows(u) + Rows(v) /\ Rows(u) \in Nat /\ Rows(v) \in Nat
PROOF
  BY RowsOfSum

\* A line is made of lines.
LEMMA SumIsLine ==
    ASSUME NEW x \in Texts, NEW y \in Texts
    PROVE  x ++ y \in Lines <=> x \in Lines /\ y \in Lines
PROOF
  <1>1. /\ x \in Seq(Chars \cup {NL}) /\ y \in Seq(Chars \cup {NL})
        /\ Len(x) \in Nat /\ Len(y) \in Nat
        /\ Len(x \o y) = Len(x) + Len(y)
        /\ \A i \in 1..Len(x) + Len(y) : (x \o y)[i] = IF i <= Len(x) THEN x[i] ELSE y[i - Len(x)]
    BY ConcatProperties, LenProperties DEF Texts
  <1>2. ASSUME x \o y \in Lines PROVE x \in Lines /\ y \in Lines
    <2>1. \A i \in 1..Len(x) + Len(y) : (x \o y)[i] \in Chars
      BY <1>1, <1>2, ElementOfSeq DEF Lines
    <2>2. ASSUME NEW i \in 1..Len(x) PROVE x[i] \in Chars
      <3>1. i \in 1..Len(x) + Len(y) /\ i <= Len(x)
        BY <1>1
      <3> QED BY <1>1, <2>1, <3>1
    <2>3. ASSUME NEW i \in 1..Len(y) PROVE y[i] \in Chars
      <3>1. i + Len(x) \in 1..Len(x) + Len(y) /\ ~(i + Len(x) <= Len(x)) /\ (i + Len(x)) - Len(x) = i
        BY <1>1
      <3>2. (x \o y)[i + Len(x)] = y[i]
        BY <1>1, <3>1
      <3> QED BY <2>1, <3>1, <3>2
    <2>4. x \in [1..Len(x) -> Chars] /\ y \in [1..Len(y) -> Chars]
      BY <1>1, <2>2, <2>3, LenProperties
    <2>5. x \in Seq(Chars) /\ y \in Seq(Chars)
      <3> DEFINE n == Len(x)
                 m == Len(y)
      <3>1. n \in Nat /\ m \in Nat /\ x \in [1..n -> Chars] /\ y \in [1..m -> Chars]
        BY <1>1, <2>4
      <3> HIDE DEF n, m
      <3> QED BY <3>1, SeqDef
    <2> QED BY <2>5 DEF Lines
  <1>3. x \in Lines /\ y \in Lines => x \o y \in Lines
    BY ConcatProperties DEF Lines
  <1> QED BY <1>2, <1>3 DEF ++

-----------------------------------------------------------------------------
(* Places of a text, and documents that show it.                           *)

\* The text u ends at this row and column.
Place(u, row, col) ==
    \E w \in Texts, x \in Lines :
        /\ u = w ++ x
        /\ Whole(w) /\ Rows(w) = row /\ Len(x) = col

\* A position of a text has the place that Row and Column say.
LEMMA PlaceOf ==
    ASSUME NEW s \in Texts, NEW p \in 0..Len(s)
    PROVE  Place(SubSeq(s, 1, p), Row(s, p), Column(s, p))
PROOF
  <1> DEFINE r == Row(s, p)
             b == RowStart(s, r)
             w == SubSeq(s, 1, b)
             x == SubSeq(s, b + 1, p)
             u == SubSeq(s, 1, p)
  <1>1. /\ r \in 0..Cardinality(Newlines(s)) /\ r \in Nat
        /\ b <= p
        /\ \A i \in Newlines(s) : i <= p => i <= b
    BY RowOfPosition, NewlinesOfText
  <1>2. b \in 0..Len(s) /\ (b # 0 => b \in Newlines(s))
    BY <1>1, RowBounds
  <1>3. /\ Len(s) \in Nat /\ \A i \in Newlines(s) : i \in Nat
        /\ \A i \in Newlines(s) : s[i] = NL
        /\ s \in Seq(Chars \cup {NL})
    BY NewlinesOfText DEF Newlines, Texts
  <1>4. /\ u \in Texts /\ s = u ++ SubSeq(s, p + 1, Len(s)) /\ SubSeq(s, p + 1, Len(s)) \in Texts
        /\ Len(u) = p /\ w \in Texts /\ Len(w) = b
    BY <1>2, CutAt
  <1> HIDE DEF b, r
  <1>5. u = w ++ x
    <2>1. 1 \in 1..Len(s) + 1 /\ b \in 1 - 1..Len(s) /\ p \in b..Len(s)
      BY <1>1, <1>2, <1>3
    <2> QED BY <1>3, <2>1, ConcatAdjacentSubSeq DEF ++
  <1>6. x \in Lines /\ Len(x) = p - b
    <2>1. b + 1 \in 1..Len(s) + 1 /\ \A i \in Newlines(s) : i < b + 1 \/ p < i
      BY <1>1, <1>2, <1>3
    <2>2. x \in Lines /\ Len(x) = IF b + 1 <= p THEN p - (b + 1) + 1 ELSE 0
      BY <2>1, LineOfText
    <2> QED BY <1>1, <1>2, <2>2
  <1>7. Whole(w)
    <2>1. CASE b = 0
      <3>1. w = <<>>
        BY <2>1, SubSeqEmpty
      <3> QED BY <3>1 DEF Whole
    <2>2. CASE b # 0
      <3>1. 1 \in Nat \ {0} /\ b \in Int /\ b <= Len(s) /\ b \in 1..b - 1 + 1 /\ 1 + b - 1 = b
        BY <1>2, <1>3, <2>2
      <3>2. w[b] = s[1 + b - 1]
        BY <1>3, <3>1, PartOfSeq
      <3> QED BY <1>2, <1>3, <1>4, <2>2, <3>1, <3>2 DEF Whole
    <2> QED BY <2>1, <2>2
  <1>8. Rows(w) = r
    <2> HIDE DEF u, w, x
    <2>1. x \in Texts
      BY <1>6, LinesAreTexts
    <2>2. Rows(u) = Rows(w) + 0 /\ Rows(w) \in Nat /\ Rows(u) \in Nat
      <3>1. Rows(x) = 0
        BY <1>6, RowsOfSum
      <3>2. Rows(w ++ x) = Rows(w) + Rows(x) /\ Rows(w) \in Nat
        BY <1>4, <2>1, RowsOfTwo
      <3> QED BY <1>5, <3>1, <3>2
    <2>3. Row(s, p) = Row(u, p) /\ Row(u, Len(u)) = Rows(u)
      <3>1. p \in Nat /\ p <= p
        BY <1>3
      <3>2. Row(u ++ SubSeq(s, p + 1, Len(s)), p) = Row(u, p)
        BY <1>4, <3>1, RowConcat DEF ++
      <3> QED BY <1>4, <3>2, RowsType
    <2> QED BY <1>4, <2>2, <2>3 DEF r
  <1>9. Column(s, p) = p - b
    BY DEF Column, b, r
  <1> HIDE DEF u, w, x
  <1>10. Place(u, r, Column(s, p))
    BY <1>4, <1>5, <1>6, <1>7, <1>8, <1>9 DEF Place
  <1> QED BY <1>10 DEF u, r

\* The editor finds this place again in every text that starts this way.
LEMMA PlaceIs ==
    ASSUME NEW u \in Texts, NEW row, NEW col, Place(u, row, col), NEW v \in Texts
    PROVE  /\ row \in Nat /\ col \in Nat /\ Rows(u) = row
           /\ Row(u ++ v, Len(u)) = row
           /\ Column(u ++ v, Len(u)) = col
           /\ Position(u ++ v, row, col) = Len(u)
PROOF
  <1>1. PICK w \in Texts, x \in Lines :
            u = w ++ x /\ Whole(w) /\ Rows(w) = row /\ Len(x) = col
    BY DEF Place
  <1>2. /\ x \in Texts /\ Len(w) \in Nat /\ Len(x) \in Nat /\ Len(u) = Len(w) + Len(x)
        /\ Len(u) \in Nat /\ Len(v) \in Nat /\ Len(u ++ v) = Len(u) + Len(v)
        /\ x ++ v \in Texts /\ u ++ v \in Texts /\ w ++ (x ++ v) = u ++ v
    <2>1. x \in Texts /\ Len(u) = Len(w) + Len(x)
      BY <1>1, LinesAreTexts, SumOfTwo
    <2>2. Len(w) \in Nat /\ Len(x) \in Nat /\ Len(u) \in Nat /\ Len(v) \in Nat
      BY <2>1, NewlinesOfText
    <2>3. x ++ v \in Texts /\ u ++ v \in Texts /\ Len(u ++ v) = Len(u) + Len(v)
      BY <2>1, SumOfTwo
    <2>4. w ++ (x ++ v) = u ++ v
      BY <1>1, <2>1, Regroup
    <2> QED BY <2>1, <2>2, <2>3, <2>4
  <1>3. row \in Nat /\ col \in Nat /\ Rows(u) = row
    <2>1. Rows(u) = Rows(w) + 0 /\ Rows(w) \in Nat
      BY <1>1, <1>2, RowsOfSum, RowsType
    <2> QED BY <1>1, <1>2, <2>1
  <1> DEFINE t == u ++ v
  <1>4. Row(t, Len(u)) = row /\ row <= Cardinality(Newlines(t))
    <2>1. Row(t, Len(u)) = Rows(u)
      BY RowAtEnd
    <2>2. Rows(t) = Rows(u) + Rows(v) /\ Rows(v) \in Nat
      BY RowsOfSum, RowsType
    <2> QED BY <1>3, <2>1, <2>2 DEF Rows
  <1>5. RowStart(t, row) = Len(w)
    <2>1. Row(t, Len(w)) = row
      <3>1. Row(w ++ (x ++ v), Len(w)) = Rows(w)
        BY <1>2, RowAtEnd
      <3> QED BY <1>1, <1>2, <3>1
    <2>2. Len(w) = 0 \/ Len(w) \in Newlines(t)
      <3>1. CASE w = <<>>
        BY <3>1, EmptySeq
      <3>2. CASE w # <<>>
        <4>1. w[Len(w)] = NL /\ Len(w) \in 1..Len(w)
          BY <1>1, <1>2, <3>2, EmptySeq DEF Whole, Texts
        <4>2. Len(w) \in Newlines(w)
          BY <4>1 DEF Newlines
        <4>3. Newlines(w) \subseteq Newlines(w ++ (x ++ v))
          BY <1>2, NewlinesConcat DEF ++
        <4> QED BY <1>2, <4>2, <4>3
      <3> QED BY <3>1, <3>2
    <2>3. \A i \in Newlines(t) : Row(t, i) <= row => i <= Len(w)
      BY <1>2, <2>1, RowOrder
    <2>4. row <= row
      BY <1>3
    <2> HIDE DEF t
    <2> QED BY <1>2, <1>3, <2>1, <2>2, <2>3, <2>4, RowStartIs DEF t
  <1>6. Column(t, Len(u)) = col
    BY <1>1, <1>2, <1>4, <1>5 DEF Column
  <1>7. Position(t, row, col) = Len(u)
    <2>1. ~(row > Cardinality(Newlines(t)))
      <3>1. Cardinality(Newlines(t)) \in Nat
        BY <1>2, NewlinesOfText
      <3> QED BY <1>3, <1>4, <3>1
    <2>2. RowStart(t, row) + col = Len(u)
      BY <1>1, <1>2, <1>5
    <2>3. Clip(t, Len(u)) = Len(u)
      <3>1. Len(u) <= Len(t) /\ t \in Texts
        BY <1>2
      <3> HIDE DEF t
      <3> QED BY <1>2, <3>1, ClipTypes
    <2> QED BY <2>1, <2>2, <2>3 DEF Position
  <1> QED BY <1>3, <1>4, <1>6, <1>7

\* A text ends at one place only.
LEMMA PlaceUnique ==
    ASSUME NEW u \in Texts, NEW row, NEW col, Place(u, row, col),
           NEW row2, NEW col2, Place(u, row2, col2)
    PROVE  row = row2 /\ col = col2
PROOF
  BY PlaceIs, SumOfTexts

\* The place behind whole lines, behind a line and behind a newline.
LEMMA PlaceMoves ==
    ASSUME NEW u \in Texts
    PROVE  /\ Whole(u) => Place(u, Rows(u), 0)
           /\ \A row : Place(u, row, 0) => Whole(u)
           /\ \A row, col : Place(u, row, col) =>
                /\ \A l \in Lines : Place(u ++ l, row, col + Len(l))
                /\ Place(u ++ <<NL>>, row + 1, 0)
PROOF
  <1>0. <<>> \in Lines /\ Len(<<>>) = 0 /\ <<NL>> \in Texts
    BY EmptySeq, LinesAreTexts DEF Lines
  <1>1. ASSUME Whole(u) PROVE Place(u, Rows(u), 0)
    BY <1>0, <1>1, SumOfTexts DEF Place
  <1>2. ASSUME NEW row, Place(u, row, 0) PROVE Whole(u)
    <2>1. PICK w \in Texts, x \in Lines :
              u = w ++ x /\ Whole(w) /\ Rows(w) = row /\ Len(x) = 0
      BY <1>2 DEF Place
    <2>2. x = <<>>
      BY <2>1, EmptySeq DEF Lines
    <2> QED BY <2>1, <2>2, SumOfTexts
  <1>3. ASSUME NEW row, NEW col, Place(u, row, col), NEW l \in Lines
        PROVE  Place(u ++ l, row, col + Len(l))
    <2>1. PICK w \in Texts, x \in Lines :
              u = w ++ x /\ Whole(w) /\ Rows(w) = row /\ Len(x) = col
      BY <1>3 DEF Place
    <2>2. x ++ l \in Lines /\ Len(x ++ l) = Len(x) + Len(l)
      BY <1>3, ConcatProperties DEF Lines, ++
    <2>3. u ++ l = w ++ (x ++ l)
      BY <2>1, LinesAreTexts, SumOfTexts
    <2> QED BY <2>1, <2>2, <2>3 DEF Place
  <1>4. ASSUME NEW row, NEW col, Place(u, row, col)
        PROVE  Place(u ++ <<NL>>, row + 1, 0)
    <2>1. Rows(u ++ <<NL>>) = row + 1 /\ u ++ <<NL>> \in Texts
      BY <1>0, <1>4, PlaceIs, RowsOfSum, SumOfTexts
    <2>2. Whole(<<NL>>) /\ <<NL>> # <<>>
      BY DEF Whole
    <2>3. Whole(u ++ <<NL>>)
      BY <1>0, <2>2, WholeSum
    <2>4. (u ++ <<NL>>) ++ <<>> = u ++ <<NL>>
      BY <2>1, SumOfTexts
    <2> QED BY <1>0, <2>1, <2>3, <2>4 DEF Place
  <1> QED BY <1>1, <1>2, <1>3, <1>4

\* Lines with their newline, and what may follow them in a document: nothing, or
\* a line without one.
EndedLines == {l ++ <<NL>> : l \in Lines}
Ends == {<<>>} \cup {<<l>> : l \in Lines}

\* The lines show the text: all of them end in a newline, and there may be one
\* more, which has none. If "full" there is one more.
Agrees(lines, t, full) ==
    \E h \in Seq(EndedLines), e \in Ends :
        /\ lines = h ++ e
        /\ t = FlattenSeq(h) ++ FlattenSeq(e)
        /\ full => e # <<>>

\* A line and its newline.
LEMMA EndedLine ==
    ASSUME NEW l \in Lines
    PROVE  /\ l ++ <<NL>> \in Texts /\ l ++ <<NL>> \in DocumentLines
           /\ l ++ <<NL>> \in EndedLines /\ l ++ <<NL>> # <<>>
           /\ Append(l, NL) = l ++ <<NL>>
           /\ Whole(l ++ <<NL>>) /\ Rows(l ++ <<NL>>) = 1
           /\ Len(l ++ <<NL>>) = Len(l) + 1
PROOF
  <1>1. l \in Texts /\ <<NL>> \in Texts /\ <<NL>> # <<>> /\ Whole(<<NL>>) /\ Len(<<NL>>) = 1
    BY LinesAreTexts DEF Whole
  <1>2. l ++ <<NL>> \in Texts /\ Rows(l ++ <<NL>>) = 0 + 1 /\ Whole(l ++ <<NL>>)
        /\ Len(l ++ <<NL>>) = Len(l) + 1
    <2>1. Rows(l) = 0 /\ Rows(<<NL>>) = 1
      BY RowsOfSum
    <2>2. Rows(l ++ <<NL>>) = Rows(l) + Rows(<<NL>>)
      BY <1>1, RowsOfTwo
    <2> QED BY <1>1, <2>1, <2>2, SumOfTwo, WholeSum
  <1>3. Append(l, NL) = l ++ <<NL>>
    <2>1. l \in Seq(Chars \cup {NL}) /\ NL \in Chars \cup {NL}
      BY <1>1 DEF Texts
    <2> QED BY <2>1, AppendIsConcat DEF ++
  <1>4. l ++ <<NL>> \in DocumentLines
    <2>1. Newlines(<<NL>>) \subseteq {Len(<<NL>>)}
      BY DEF Newlines
    <2>2. <<NL>> \in DocumentLines
      BY <1>1, <2>1 DEF DocumentLines
    <2> QED BY <2>2, LineBefore DEF ++
  <1>5. l ++ <<NL>> # <<>>
    BY <1>1, NothingAdded
  <1> QED BY <1>2, <1>3, <1>4, <1>5 DEF EndedLines

\* A line without a newline is a line of a document too.
LEMMA LineOfDocument ==
    ASSUME NEW l \in Lines
    PROVE  l \in DocumentLines
PROOF
  <1>1. l ++ <<>> = l
    BY LinesAreTexts, SumOfTexts
  <1>2. l ++ <<>> \in DocumentLines
    BY EmptyLine, LineBefore DEF ++
  <1> QED BY <1>1, <1>2, Zenon

\* The text of the last line.
LEMMA EndOfDocument ==
    ASSUME NEW e \in Ends
    PROVE  /\ e \in Seq(DocumentLines) /\ e \in Seq(Texts)
           /\ FlattenSeq(e) \in Lines /\ FlattenSeq(e) \in Texts
           /\ e # <<>> => \E l \in Lines : e = <<l>>
PROOF
  <1>1. CASE e = <<>>
    <2>1. <<>> \in Seq(DocumentLines) /\ <<>> \in Seq(Texts) /\ <<>> \in Lines /\ <<>> \in Texts
      BY EmptySeq, SumOfTexts DEF Lines
    <2> QED BY <1>1, <2>1, FlattenSum, Zenon
  <1>2. CASE e # <<>>
    <2>1. PICK l \in Lines : e = <<l>>
      BY <1>2 DEF Ends
    <2>2. l \in Texts /\ l \in DocumentLines
      BY LinesAreTexts, LineOfDocument
    <2>3. <<l>> \in Seq(DocumentLines) /\ <<l>> \in Seq(Texts)
      BY <2>2
    <2>4. FlattenSeq(<<l>>) = l
      BY <2>2, FlattenSum
    <2> QED BY <2>1, <2>2, <2>3, <2>4, Zenon
  <1> QED BY <1>1, <1>2

\* The text of lines that all end in a newline has as many rows.
LEMMA EndedDocument ==
    ASSUME NEW h \in Seq(EndedLines)
    PROVE  /\ h \in Seq(Texts) /\ h \in Seq(DocumentLines)
           /\ FlattenSeq(h) \in Texts
           /\ Whole(FlattenSeq(h))
           /\ Rows(FlattenSeq(h)) = Len(h)
PROOF
  <1>1. EndedLines \subseteq Texts /\ EndedLines \subseteq DocumentLines
    BY EndedLine DEF EndedLines
  <1>2. h \in Seq(Texts) /\ h \in Seq(DocumentLines)
    BY <1>1, SeqMonotonic
  <1> DEFINE H(k) == SubSeq(h, 1, k)
             Good(k) == Whole(FlattenSeq(H(k))) /\ Rows(FlattenSeq(H(k))) = k
             Bad == {k \in Nat : k <= Len(h) /\ ~Good(k)}
  <1>3. Len(h) \in Nat /\ H(Len(h)) = h
    BY LenProperties, SubSeqFull
  <1>4. Bad = {}
    <2> SUFFICES ASSUME Bad # {} PROVE FALSE
      OBVIOUS
    <2>1. PICK k \in Bad : \A m \in Bad : k <= m
      BY LeastNumber
    <2>2. CASE k = 0
      <3>1. H(k) = <<>>
        BY <2>2, SubSeqEmpty
      <3> HIDE DEF H
      <3>2. Good(k)
        BY <2>2, <3>1, FlattenSum, RowsOfSum DEF Whole
      <3> QED BY <2>1, <3>2
    <2>3. CASE k # 0
      <3>1. k \in 1..Len(h) /\ k - 1 \in Nat /\ k - 1 <= Len(h) /\ ~(k <= k - 1)
        BY <1>3, <2>1, <2>3
      <3>2. Good(k - 1)
        BY <2>1, <3>1
      <3>3. H(k - 1) \in Seq(EndedLines) /\ h[k] \in EndedLines /\ H(k) = Append(H(k - 1), h[k])
        BY <3>1, PrefixGrows
      <3>4. PICK l \in Lines : h[k] = l ++ <<NL>>
        BY <3>3 DEF EndedLines
      <3>5. h[k] \in Texts /\ Whole(h[k]) /\ Rows(h[k]) = 1
        BY <3>4, EndedLine
      <3>6. H(k - 1) \in Seq(Texts)
        BY <1>1, <3>3, SeqMonotonic
      <3> HIDE DEF H
      <3>7. FlattenSeq(H(k)) = FlattenSeq(H(k - 1)) ++ h[k] /\ FlattenSeq(H(k - 1)) \in Texts
        BY <3>3, <3>5, <3>6, FlattenAppend, FlattenSum DEF ++
      <3>8. Whole(FlattenSeq(H(k)))
        BY <3>2, <3>5, <3>7, WholeSum
      <3>9. Rows(FlattenSeq(H(k))) = k
        BY <3>1, <3>2, <3>5, <3>7, RowsOfSum
      <3> QED BY <2>1, <3>8, <3>9
    <2> QED BY <2>2, <2>3
  <1>5. Good(Len(h))
    BY <1>3, <1>4
  <1> HIDE DEF H
  <1>6. Whole(FlattenSeq(h)) /\ Rows(FlattenSeq(h)) = Len(h)
    BY <1>3, <1>5
  <1> QED BY <1>2, <1>6, FlattenSum

\* A document that agrees with a text has it, line after line.
LEMMA AgreesText ==
    ASSUME NEW lines, NEW t, NEW full, Agrees(lines, t, full)
    PROVE  /\ lines \in Seq(DocumentLines)
           /\ t \in Texts
           /\ FlattenSeq(lines) = t
           /\ Agrees(lines, t, FALSE)
PROOF
  <1>1. PICK h \in Seq(EndedLines), e \in Ends :
            lines = h ++ e /\ t = FlattenSeq(h) ++ FlattenSeq(e)
    BY DEF Agrees
  <1>2. /\ h \in Seq(DocumentLines) /\ e \in Seq(DocumentLines)
        /\ h \in Seq(Texts) /\ e \in Seq(Texts)
    BY EndedDocument, EndOfDocument
  <1>3. lines \in Seq(DocumentLines)
    BY <1>1, <1>2, ConcatProperties DEF ++
  <1>4. FlattenSeq(lines) = t /\ t \in Texts
    BY <1>1, <1>2, FlattenSum, SumOfTexts
  <1> QED BY <1>1, <1>3, <1>4 DEF Agrees

\* Where the line of a row of the document is.
Within(h, e, u, v, row, col) ==
    \E h1, h2 \in Seq(EndedLines), x, y \in Lines :
        /\ h = h1 ++ (<<(x ++ y) ++ <<NL>>>> ++ h2)
        /\ Len(h1) = row /\ Len(x) = col
        /\ u = FlattenSeq(h1) ++ x
        /\ v = y ++ (<<NL>> ++ (FlattenSeq(h2) ++ FlattenSeq(e)))
OnLast(h, e, u, v, row, col) ==
    \E x, y \in Lines :
        /\ e = <<x ++ y>>
        /\ Len(h) = row /\ Len(x) = col
        /\ u = FlattenSeq(h) ++ x
        /\ v = y
Behind(h, e, u, v, row, col) ==
    /\ e = <<>>
    /\ Len(h) = row /\ col = 0
    /\ u = FlattenSeq(h)
    /\ v = <<>>

\* There are no lines, or x ends before the first of them does.
Covers(h, x) ==
    \/ h = <<>>
    \/ \E l \in Lines, h2 \in Seq(EndedLines) :
            h = <<l ++ <<NL>>>> ++ h2 /\ Len(x) <= Len(l)

\* The lines of a document up to the place where u ends.
LEMMA LinesBefore ==
    ASSUME NEW h \in Seq(EndedLines), NEW u \in Texts, NEW v \in Texts,
           NEW w \in Texts, u ++ v = FlattenSeq(h) ++ w
    PROVE  \E h1, h2 \in Seq(EndedLines), x, r \in Texts :
              /\ h = h1 ++ h2
              /\ u = FlattenSeq(h1) ++ x
              /\ r = FlattenSeq(h2) ++ w /\ r = x ++ v
              /\ Covers(h2, x)
PROOF
  <1>0. Len(h) \in Nat /\ Len(u) \in Nat
    BY LenProperties, NewlinesOfText
  <1> DEFINE H(i) == SubSeq(h, 1, i)
             J(i) == SubSeq(h, i + 1, Len(h))
  <1>1. ASSUME NEW i \in 0..Len(h)
        PROVE  /\ H(i) \in Seq(EndedLines) /\ J(i) \in Seq(EndedLines)
               /\ h = H(i) ++ J(i)
    <2>1. /\ i \in Int /\ i <= Len(h) /\ 1 \in Nat \ {0} /\ i + 1 \in Nat \ {0}
          /\ Len(h) \in Int /\ Len(h) <= Len(h)
          /\ 1 \in 1..Len(h) + 1 /\ i \in 1 - 1..Len(h) /\ Len(h) \in i..Len(h)
      BY <1>0
    <2>2. H(i) \in Seq(EndedLines) /\ J(i) \in Seq(EndedLines)
      BY <2>1, PartOfSeq
    <2>3. H(i) ++ J(i) = SubSeq(h, 1, Len(h))
      BY <2>1, ConcatAdjacentSubSeq DEF ++
    <2> QED BY <2>2, <2>3, SubSeqFull
  <1>2. H(0) = <<>> /\ J(Len(h)) = <<>>
    BY <1>0, SubSeqEmpty
  <1>3. ASSUME NEW i \in 0..Len(h), i # Len(h)
        PROVE  /\ h[i + 1] \in EndedLines
               /\ H(i + 1) = Append(H(i), h[i + 1])
               /\ J(i) = <<h[i + 1]>> ++ J(i + 1)
    <2>1. /\ i + 1 \in 1..Len(h) /\ (i + 1) - 1 = i /\ Len(h) \in i + 1..Len(h)
      BY <1>0, <1>3
    <2>2. h[i + 1] \in EndedLines /\ SubSeq(h, 1, i + 1) = Append(SubSeq(h, 1, (i + 1) - 1), h[i + 1])
      BY <2>1, PrefixGrows
    <2>3. SubSeq(h, i + 1, Len(h)) = <<h[i + 1]>> ++ SubSeq(h, (i + 1) + 1, Len(h))
      BY <2>1, SubSeqRecursiveFirst DEF ++
    <2> QED BY <2>1, <2>2, <2>3
  <1> HIDE DEF H, J
  <1>4. \E k \in 0..Len(h) : /\ Len(FlattenSeq(H(k))) <= Len(u)
                             /\ k # Len(h) => ~(Len(FlattenSeq(H(k + 1))) <= Len(u))
    <2> DEFINE Fit == {i \in Nat : i <= Len(h) /\ Len(FlattenSeq(H(i))) <= Len(u)}
    <2>1. Len(FlattenSeq(H(0))) = 0
      BY <1>2, FlattenSum, EmptySeq
    <2>2. 0 \in Fit
      BY <1>0, <2>1
    <2>3. /\ \A m \in Fit : m <= Len(h)
          /\ Fit \in SUBSET Nat /\ Fit # {}
      BY <2>2
    <2>4. PICK k \in Fit : \A m \in Fit : m <= k
      <3> HIDE DEF Fit
      <3> QED BY <1>0, <2>3, MaxOfNumbers
    <2>5. k \in 0..Len(h) /\ Len(FlattenSeq(H(k))) <= Len(u)
      BY <1>0, <2>4
    <2>6. ASSUME k # Len(h), Len(FlattenSeq(H(k + 1))) <= Len(u) PROVE FALSE
      <3>1. k + 1 \in Nat /\ k + 1 <= Len(h) /\ ~(k + 1 <= k)
        BY <1>0, <2>5, <2>6
      <3> QED BY <2>4, <2>6, <3>1
    <2> QED BY <2>5, <2>6
  <1>5. PICK k \in 0..Len(h) : /\ Len(FlattenSeq(H(k))) <= Len(u)
                               /\ k # Len(h) => ~(Len(FlattenSeq(H(k + 1))) <= Len(u))
    BY <1>4
  <1>7. PICK h1 \in Seq(EndedLines), h2 \in Seq(EndedLines) : h1 = H(k) /\ h2 = J(k) /\ h = h1 ++ h2
    BY <1>1, <1>5
  <1>8. /\ h1 \in Seq(Texts) /\ h2 \in Seq(Texts)
        /\ FlattenSeq(h1) \in Texts /\ FlattenSeq(h2) \in Texts
    BY EndedDocument
  <1>9. FlattenSeq(h) = FlattenSeq(h1) ++ FlattenSeq(h2)
    BY <1>7, <1>8, FlattenSum
  <1>10. PICK r \in Texts : r = FlattenSeq(h2) ++ w /\ u ++ v = FlattenSeq(h1) ++ r
    <2>1. FlattenSeq(h2) ++ w \in Texts
      BY <1>8, SumOfTexts
    <2>2. (FlattenSeq(h1) ++ FlattenSeq(h2)) ++ w = FlattenSeq(h1) ++ (FlattenSeq(h2) ++ w)
      BY <1>8, Regroup
    <2> QED BY <1>9, <2>1, <2>2, Zenon
  <1>11. PICK x \in Texts : u = FlattenSeq(h1) ++ x /\ r = x ++ v
    <2>1. Len(FlattenSeq(h1)) <= Len(u) /\ u ++ v = FlattenSeq(h1) ++ r
      BY <1>5, <1>7, <1>10
    <2> QED BY <1>8, <1>10, <2>1, Overlaps
  <1>12. CASE k = Len(h)
    BY <1>2, <1>7, <1>10, <1>11, <1>12 DEF Covers
  <1>13. CASE k # Len(h)
    <2>1. PICK l \in Lines : h[k + 1] = l ++ <<NL>>
      BY <1>3, <1>5, <1>13 DEF EndedLines
    <2>2. k + 1 \in 0..Len(h)
      BY <1>0, <1>5, <1>13
    <2>3. h2 = <<l ++ <<NL>>>> ++ J(k + 1) /\ J(k + 1) \in Seq(EndedLines)
      BY <1>1, <1>3, <1>5, <1>7, <1>13, <2>1, <2>2
    <2>4. l ++ <<NL>> \in Texts /\ Len(l ++ <<NL>>) = Len(l) + 1 /\ Len(l) \in Nat
      BY EndedLine, LinesAreTexts, NewlinesOfText
    <2>5. FlattenSeq(H(k + 1)) = FlattenSeq(h1) ++ (l ++ <<NL>>)
      <3>1. H(k + 1) = Append(h1, l ++ <<NL>>)
        BY <1>3, <1>5, <1>7, <1>13, <2>1
      <3> QED BY <1>8, <2>4, <3>1, FlattenAppend DEF ++
    <2>6. Len(FlattenSeq(H(k + 1))) = Len(FlattenSeq(h1)) + (Len(l) + 1)
      <3>1. Len(FlattenSeq(h1) ++ (l ++ <<NL>>)) = Len(FlattenSeq(h1)) + Len(l ++ <<NL>>)
        BY <1>8, <2>4, SumOfTwo
      <3> QED BY <2>4, <2>5, <3>1
    <2>7. Len(u) = Len(FlattenSeq(h1)) + Len(x) /\ Len(x) \in Nat /\ Len(FlattenSeq(h1)) \in Nat
      BY <1>8, <1>11, SumOfTexts, NewlinesOfText
    <2>8. Len(x) <= Len(l)
      BY <1>5, <1>13, <2>4, <2>6, <2>7
    <2>9. Covers(h2, x)
      BY <2>3, <2>8 DEF Covers
    <2> QED BY <1>7, <1>10, <1>11, <2>9
  <1> QED BY <1>12, <1>13

\* The row and the column of a place are those of the line and the character.
LEMMA Locate ==
    ASSUME NEW h \in Seq(EndedLines), NEW e \in Ends, NEW u \in Texts, NEW v \in Texts,
           u ++ v = FlattenSeq(h) ++ FlattenSeq(e),
           NEW row, NEW col, Place(u, row, col)
    PROVE  \/ Within(h, e, u, v, row, col)
           \/ OnLast(h, e, u, v, row, col)
           \/ Behind(h, e, u, v, row, col)
PROOF
  <1> DEFINE w == FlattenSeq(e)
  <1>1. w \in Lines /\ w \in Texts /\ <<NL>> \in Texts
    BY EndOfDocument, LinesAreTexts
  <1> HIDE DEF w
  <1>2. PICK h1 \in Seq(EndedLines), h2 \in Seq(EndedLines), x \in Texts, r \in Texts :
              /\ h = h1 ++ h2
              /\ u = FlattenSeq(h1) ++ x
              /\ r = FlattenSeq(h2) ++ w /\ r = x ++ v
              /\ Covers(h2, x)
    <2>1. u ++ v = FlattenSeq(h) ++ w
      BY DEF w
    <2>2. w \in Texts
      BY <1>1
    <2> QED BY <2>1, <2>2, LinesBefore
  <1>3. /\ FlattenSeq(h1) \in Texts /\ Whole(FlattenSeq(h1)) /\ Rows(FlattenSeq(h1)) = Len(h1)
    BY EndedDocument
  <1>4. x \in Lines => row = Len(h1) /\ col = Len(x)
    <2>1. x \in Lines => Place(u, Len(h1), Len(x))
      BY <1>2, <1>3 DEF Place
    <2> QED BY <2>1, PlaceUnique
  <1>5. CASE h2 = <<>>
    <2>1. h = h1
      BY <1>2, <1>5, ConcatEmptySeq DEF ++
    <2>2. w = x ++ v
      BY <1>1, <1>2, <1>5, FlattenSum, SumOfTexts
    <2>3. x \in Lines /\ v \in Lines
      BY <1>1, <2>2, SumIsLine
    <2>4. CASE e = <<>>
      <3>1. w = <<>>
        BY <2>4, FlattenSum DEF w
      <3>2. x = <<>> /\ v = <<>>
        BY <2>2, <3>1, NothingAdded
      <3>3. Len(x) = 0 /\ u = FlattenSeq(h)
        BY <1>2, <1>3, <2>1, <3>2, EmptySeq, SumOfTexts
      <3>4. Behind(h, e, u, v, row, col)
        BY <1>4, <2>1, <2>3, <2>4, <3>2, <3>3 DEF Behind
      <3> QED BY <3>4
    <2>5. CASE e # <<>>
      <3>1. PICK l \in Lines : e = <<l>>
        BY <2>5, EndOfDocument
      <3>2. w = l
        BY <3>1, LinesAreTexts, FlattenSum DEF w
      <3>3. OnLast(h, e, u, v, row, col)
        BY <1>2, <1>4, <2>1, <2>2, <2>3, <3>1, <3>2 DEF OnLast
      <3> QED BY <3>3
    <2> QED BY <2>4, <2>5
  <1>6. CASE h2 # <<>>
    <2>1. PICK l \in Lines, h3 \in Seq(EndedLines) :
              h2 = <<l ++ <<NL>>>> ++ h3 /\ Len(x) <= Len(l)
      BY <1>2, <1>6 DEF Covers
    <2> DEFINE q == FlattenSeq(h3) ++ w
    <2>2. l \in Texts /\ l ++ <<NL>> \in Texts /\ h3 \in Seq(Texts) /\ FlattenSeq(h3) \in Texts /\ q \in Texts
          /\ <<NL>> ++ q \in Texts
      BY <1>1, EndedLine, LinesAreTexts, EndedDocument, SumOfTexts
    <2>3. FlattenSeq(h2) = (l ++ <<NL>>) ++ FlattenSeq(h3)
      <3>1. <<l ++ <<NL>>>> \in Seq(Texts) /\ FlattenSeq(<<l ++ <<NL>>>>) = l ++ <<NL>>
        BY <2>2, FlattenSum
      <3> QED BY <2>1, <2>2, <3>1, FlattenOfTwo
    <2>4. r = l ++ (<<NL>> ++ q)
      <3>1. ((l ++ <<NL>>) ++ FlattenSeq(h3)) ++ w = (l ++ <<NL>>) ++ (FlattenSeq(h3) ++ w)
        BY <1>1, <2>2, Regroup
      <3>2. (l ++ <<NL>>) ++ q = l ++ (<<NL>> ++ q)
        BY <1>1, <2>2, Regroup
      <3> QED BY <1>2, <2>3, <3>1, <3>2, Zenon
    <2> HIDE DEF q
    <2>5. PICK z \in Texts : l = x ++ z /\ v = z ++ (<<NL>> ++ q)
      <3>1. l ++ (<<NL>> ++ q) = x ++ v /\ Len(x) <= Len(l)
        BY <1>2, <2>1, <2>4
      <3> QED BY <2>2, <3>1, Overlaps
    <2>6. x \in Lines /\ z \in Lines
      BY <2>5, SumIsLine
    <2>7. h = h1 ++ (<<(x ++ z) ++ <<NL>>>> ++ h3)
      BY <1>2, <2>1, <2>5
    <2>8. Within(h, e, u, v, row, col)
      BY <1>2, <1>4, <2>5, <2>6, <2>7 DEF Within, q, w
    <2> QED BY <2>8
  <1> QED BY <1>5, <1>6

-----------------------------------------------------------------------------
(* Sequences around one of their elements.                                 *)

\* The length of joined sequences.
LEMMA SumLength ==
    ASSUME NEW S, NEW a \in Seq(S), NEW b \in Seq(S)
    PROVE  /\ a ++ b \in Seq(S) /\ Len(a) \in Nat /\ Len(b) \in Nat
           /\ Len(a ++ b) = Len(a) + Len(b)
PROOF
  BY ConcatProperties, LenProperties DEF ++

\* An element of the first.
LEMMA SumLeft ==
    ASSUME NEW S, NEW a \in Seq(S), NEW b \in Seq(S), NEW i \in 1..Len(a)
    PROVE  (a ++ b)[i] = a[i]
PROOF
  <1>1. Len(a) \in Nat /\ Len(b) \in Nat
    BY LenProperties
  <1>2. i \in 1..Len(a) + Len(b) /\ i <= Len(a)
    BY <1>1
  <1> QED BY <1>2, ConcatProperties DEF ++

\* An element of the second.
LEMMA SumRight ==
    ASSUME NEW S, NEW a \in Seq(S), NEW b \in Seq(S), NEW i \in 1..Len(b)
    PROVE  (a ++ b)[Len(a) + i] = b[i]
PROOF
  <1>1. Len(a) \in Nat /\ Len(b) \in Nat
    BY LenProperties
  <1>2. Len(a) + i \in 1..Len(a) + Len(b) /\ ~(Len(a) + i <= Len(a)) /\ (Len(a) + i) - Len(a) = i
    BY <1>1
  <1> QED BY <1>2, ConcatProperties DEF ++

\* The two parts.
LEMMA SumParts ==
    ASSUME NEW S, NEW a \in Seq(S), NEW b \in Seq(S)
    PROVE  /\ SubSeq(a ++ b, 1, Len(a)) = a
           /\ SubSeq(a ++ b, Len(a) + 1, Len(a ++ b)) = b
PROOF
  <1> DEFINE s == a ++ b
  <1>0. /\ s \in Seq(S) /\ Len(a) \in Nat /\ Len(b) \in Nat
        /\ Len(s) = Len(a) + Len(b)
    BY SumLength
  <1>1. /\ s \in Seq(S) /\ Len(a) \in Nat /\ Len(b) \in Nat
        /\ Len(s) = Len(a) + Len(b)
        /\ \A i \in 1..Len(a) : s[i] = a[i]
        /\ \A i \in 1..Len(b) : s[Len(a) + i] = b[i]
    <2>1. \A i \in 1..Len(a) : s[i] = a[i]
      BY SumLeft
    <2>2. \A i \in 1..Len(b) : s[Len(a) + i] = b[i]
      BY SumRight
    <2> QED BY <1>0, <2>1, <2>2
  <1> HIDE DEF s
  <1>2. SubSeq(s, 1, Len(a)) = a
    <2>1. /\ 1 \in Nat \ {0} /\ Len(a) \in Int /\ Len(a) <= Len(s)
          /\ (IF 1 <= Len(a) THEN Len(a) - 1 + 1 ELSE 0) = Len(a)
          /\ \A i \in 1..Len(a) : i \in 1..Len(a) - 1 + 1 /\ 1 + i - 1 = i
      BY <1>1
    <2>2. /\ SubSeq(s, 1, Len(a)) \in Seq(S) /\ Len(SubSeq(s, 1, Len(a))) = Len(a)
          /\ \A i \in 1..Len(a) : SubSeq(s, 1, Len(a))[i] = s[i]
      BY <1>1, <2>1, PartOfSeq
    <2> QED BY <1>1, <2>2, SeqEqual
  <1>3. SubSeq(s, Len(a) + 1, Len(s)) = b
    <2> DEFINE k == Len(a) + 1
               p == SubSeq(s, k, Len(s))
    <2>1. /\ k \in Nat \ {0} /\ Len(s) \in Int /\ Len(s) <= Len(s)
          /\ (IF k <= Len(s) THEN Len(s) - k + 1 ELSE 0) = Len(b)
          /\ \A i \in 1..Len(b) : i \in 1..Len(s) - k + 1 /\ k + i - 1 = Len(a) + i
      BY <1>1
    <2> HIDE DEF k
    <2>2. /\ p \in Seq(S) /\ Len(p) = Len(b)
          /\ \A i \in 1..Len(b) : p[i] = s[Len(a) + i]
      BY <1>1, <2>1, PartOfSeq
    <2> HIDE DEF p
    <2>3. p = b
      BY <1>1, <2>2, SeqEqual
    <2> QED BY <2>3 DEF p, k
  <1> QED BY <1>2, <1>3 DEF s

\* A sequence in terms of one of its elements.
LEMMA AroundLength ==
    ASSUME NEW S, NEW a \in Seq(S), NEW x \in S, NEW b \in Seq(S)
    PROVE  /\ a ++ (<<x>> ++ b) \in Seq(S)
           /\ Len(a ++ (<<x>> ++ b)) = Len(a) + 1 + Len(b)
           /\ Len(a) \in Nat /\ Len(b) \in Nat
PROOF
  <1> DEFINE o == <<x>>
  <1>1. o \in Seq(S) /\ Len(o) = 1
    OBVIOUS
  <1> HIDE DEF o
  <1>2. o ++ b \in Seq(S) /\ Len(o ++ b) = 1 + Len(b) /\ Len(b) \in Nat
    BY <1>1, SumLength
  <1>3. a ++ (o ++ b) \in Seq(S) /\ Len(a ++ (o ++ b)) = Len(a) + Len(o ++ b) /\ Len(a) \in Nat
    BY <1>2, SumLength
  <1>4. Len(a ++ (o ++ b)) = Len(a) + 1 + Len(b)
    BY <1>2, <1>3
  <1> QED BY <1>2, <1>3, <1>4 DEF o

\* An element before it.
LEMMA AroundBefore ==
    ASSUME NEW S, NEW a \in Seq(S), NEW x \in S, NEW b \in Seq(S), NEW i \in 1..Len(a)
    PROVE  (a ++ (<<x>> ++ b))[i] = a[i]
PROOF
  <1> DEFINE o == <<x>>
             r == o ++ b
  <1>1. o \in Seq(S)
    OBVIOUS
  <1> HIDE DEF o
  <1>2. r \in Seq(S)
    BY <1>1, SumLength
  <1> HIDE DEF r
  <1>3. (a ++ r)[i] = a[i]
    BY <1>2, SumLeft
  <1> QED BY <1>3 DEF r, o

\* The element itself.
LEMMA AroundAt ==
    ASSUME NEW S, NEW a \in Seq(S), NEW x \in S, NEW b \in Seq(S)
    PROVE  (a ++ (<<x>> ++ b))[Len(a) + 1] = x
PROOF
  <1> DEFINE o == <<x>>
             r == o ++ b
  <1>1. o \in Seq(S) /\ 1 \in 1..Len(o) /\ o[1] = x /\ Len(o) = 1
    OBVIOUS
  <1> HIDE DEF o
  <1>2. r \in Seq(S) /\ Len(r) = 1 + Len(b) /\ Len(b) \in Nat
    BY <1>1, SumLength
  <1>3. r[1] = o[1]
    BY <1>1, SumLeft
  <1> HIDE DEF r
  <1>4. 1 \in 1..Len(r)
    BY <1>2
  <1>5. (a ++ r)[Len(a) + 1] = r[1]
    BY <1>2, <1>4, SumRight
  <1> QED BY <1>1, <1>3, <1>5 DEF r, o

\* An element behind it.
LEMMA AroundAfter ==
    ASSUME NEW S, NEW a \in Seq(S), NEW x \in S, NEW b \in Seq(S), NEW i \in 1..Len(b)
    PROVE  (a ++ (<<x>> ++ b))[Len(a) + 1 + i] = b[i]
PROOF
  <1> DEFINE o == <<x>>
             r == o ++ b
  <1>1. o \in Seq(S) /\ Len(o) = 1
    OBVIOUS
  <1> HIDE DEF o
  <1>2. r \in Seq(S) /\ Len(r) = 1 + Len(b) /\ Len(b) \in Nat /\ Len(a) \in Nat
    BY <1>1, SumLength
  <1>3. r[Len(o) + i] = b[i]
    BY <1>1, SumRight
  <1> HIDE DEF r
  <1>4. 1 + i \in 1..Len(r) /\ Len(a) + (1 + i) = Len(a) + 1 + i
    BY <1>2
  <1>5. (a ++ r)[Len(a) + (1 + i)] = r[1 + i]
    BY <1>2, <1>4, SumRight
  <1> QED BY <1>1, <1>3, <1>4, <1>5 DEF r, o

\* The sequence before it, behind it and without it.
LEMMA AroundCut ==
    ASSUME NEW S, NEW a \in Seq(S), NEW z \in S, NEW b \in Seq(S)
    PROVE  /\ SubSeq(a ++ (<<z>> ++ b), 1, Len(a)) = a
           /\ SubSeq(a ++ (<<z>> ++ b), Len(a) + 2, Len(a ++ (<<z>> ++ b))) = b
           /\ RemoveAt(a ++ (<<z>> ++ b), Len(a) + 1) = a ++ b
PROOF
  <1> DEFINE s == a ++ (<<z>> ++ b)
  <1>1. \A x \in S : <<x>> \in Seq(S) /\ Len(<<x>>) = 1 /\ <<x>>[1] = x
    OBVIOUS
  <1>4. Len(a) \in Nat
    BY LenProperties
  <1>5. <<z>> ++ b \in Seq(S)
    BY <1>1, SumLength
  <1>6. SubSeq(s, 1, Len(a)) = a /\ SubSeq(s, Len(a) + 1, Len(s)) = <<z>> ++ b
    BY <1>5, SumParts
  <1>7. SubSeq(s, Len(a) + 2, Len(s)) = b
    <2> DEFINE c == a ++ <<z>>
    <2>1. s = c ++ b /\ c \in Seq(S) /\ Len(c) = Len(a) + 1
      <3>1. (a ++ <<z>>) ++ b = a ++ (<<z>> ++ b)
        BY <1>1, ConcatAssociative DEF ++
      <3>2. c \in Seq(S) /\ Len(c) = Len(a) + Len(<<z>>)
        BY <1>1, SumLength
      <3> QED BY <1>1, <3>1, <3>2
    <2> HIDE DEF c
    <2>2. SubSeq(c ++ b, Len(c) + 1, Len(c ++ b)) = b
      BY <2>1, SumParts
    <2>3. Len(c) + 1 = Len(a) + 2
      BY <1>4, <2>1
    <2> QED BY <2>1, <2>2, <2>3
  <1>9. RemoveAt(s, Len(a) + 1) = a ++ b
    <2>1. (Len(a) + 1) - 1 = Len(a) /\ (Len(a) + 1) + 1 = Len(a) + 2
      BY <1>4
    <2> QED BY <1>6, <1>7, <2>1 DEF RemoveAt, ++
  <1> QED BY <1>6, <1>7, <1>9 

\* The sequence with another element in its place.
LEMMA AroundReplace ==
    ASSUME NEW S, NEW a \in Seq(S), NEW z \in S, NEW b \in Seq(S), NEW x \in S
    PROVE  ReplaceAt(a ++ (<<z>> ++ b), Len(a) + 1, x) = a ++ (<<x>> ++ b)
PROOF
  <1> DEFINE s == a ++ (<<z>> ++ b)
             k == Len(a) + 1
             r == [s EXCEPT ![k] = x]
             t == a ++ (<<x>> ++ b)
  <1>1. /\ s \in Seq(S) /\ Len(s) = Len(a) + 1 + Len(b)
        /\ Len(a) \in Nat /\ Len(b) \in Nat
    BY AroundLength
  <1>2. ASSUME NEW i \in 1..Len(a) PROVE s[i] = a[i] /\ t[i] = a[i]
    BY AroundBefore
  <1>3. t \in Seq(S) /\ Len(t) = Len(a) + 1 + Len(b) /\ t[Len(a) + 1] = x
    <2>1. t[Len(a) + 1] = x
      BY AroundAt
    <2> QED BY <2>1, AroundLength
  <1>4. ASSUME NEW i \in 1..Len(b)
        PROVE  s[Len(a) + 1 + i] = b[i] /\ t[Len(a) + 1 + i] = b[i]
    BY AroundAfter
  <1> HIDE DEF s, t
  <1>5. k \in 1..Len(s)
    BY <1>1
  <1>6. r \in Seq(S) /\ Len(r) = Len(s) /\ \A j \in 1..Len(s) : r[j] = IF j = k THEN x ELSE s[j]
    BY <1>1, <1>5, ExceptSeq
  <1> HIDE DEF r
  <1>7. ASSUME NEW j \in 1..Len(s) PROVE r[j] = t[j]
    <2>1. CASE j = k
      BY <1>3, <1>6, <2>1
    <2>2. CASE j < k
      <3>1. j \in 1..Len(a) /\ j # k
        BY <1>1, <2>2
      <3> QED BY <1>2, <1>4, <1>6, <3>1
    <2>3. CASE j > k
      <3>1. j - k \in 1..Len(b) /\ Len(a) + 1 + (j - k) = j /\ j # k
        BY <1>1, <2>3
      <3> QED BY <1>2, <1>4, <1>6, <3>1
    <2> QED BY <1>1, <2>1, <2>2, <2>3
  <1>8. r = t
    BY <1>1, <1>3, <1>6, <1>7, SeqEqual
  <1> QED BY <1>8 DEF ReplaceAt, r, s, t

-----------------------------------------------------------------------------
(* Lines around one of a document.                                         *)

\* One instance of SumOfSeqs.
LEMMA RegroupSeqs ==
    ASSUME NEW S, NEW a \in Seq(S), NEW b \in Seq(S), NEW c \in Seq(S)
    PROVE  (a ++ b) ++ c = a ++ (b ++ c)
PROOF
  BY ConcatAssociative DEF ++

\* A sequence of one element.
LEMMA OneElement ==
    ASSUME NEW S, NEW z \in S
    PROVE  <<z>> \in Seq(S)
PROOF
  OBVIOUS

\* The document with its lines in three parts.
LEMMA DocumentParts ==
    ASSUME NEW a \in Seq(EndedLines), NEW b \in Seq(EndedLines), NEW e \in Ends
    PROVE  /\ a ++ b \in Seq(EndedLines)
           /\ (a ++ b) ++ e = a ++ (b ++ e)
           /\ b ++ e \in Seq(DocumentLines) /\ b ++ e \in Seq(Texts)
           /\ a \in Seq(DocumentLines)
           /\ FlattenSeq(a) \in Texts /\ FlattenSeq(b) \in Texts /\ FlattenSeq(e) \in Texts
           /\ FlattenSeq(b ++ e) = FlattenSeq(b) ++ FlattenSeq(e)
           /\ FlattenSeq(a ++ b) = FlattenSeq(a) ++ FlattenSeq(b)
PROOF
  <1>1. /\ a \in Seq(Texts) /\ b \in Seq(Texts) /\ e \in Seq(Texts)
        /\ a \in Seq(DocumentLines) /\ b \in Seq(DocumentLines) /\ e \in Seq(DocumentLines)
        /\ FlattenSeq(a) \in Texts /\ FlattenSeq(b) \in Texts /\ FlattenSeq(e) \in Texts
    BY EndedDocument, EndOfDocument
  <1>2. a ++ b \in Seq(EndedLines)
    BY SumLength
  <1>3. b ++ e \in Seq(DocumentLines)
    BY <1>1, SumLength
  <1>4. b ++ e \in Seq(Texts) /\ FlattenSeq(b ++ e) = FlattenSeq(b) ++ FlattenSeq(e)
    BY <1>1, FlattenOfTwo
  <1>5. FlattenSeq(a ++ b) = FlattenSeq(a) ++ FlattenSeq(b)
    BY <1>1, FlattenOfTwo
  <1>6. (a ++ b) ++ e = a ++ (b ++ e)
    BY <1>1, RegroupSeqs
  <1> QED BY <1>1, <1>2, <1>3, <1>4, <1>5, <1>6

\* Documents that show a text.
LEMMA AgreesWhole ==
    ASSUME NEW a \in Seq(EndedLines), NEW b \in Seq(EndedLines), NEW e \in Ends
    PROVE  Agrees(a ++ (b ++ e), FlattenSeq(a) ++ (FlattenSeq(b) ++ FlattenSeq(e)), e # <<>>)
PROOF
  <1>1. a ++ b \in Seq(EndedLines) /\ a ++ (b ++ e) = (a ++ b) ++ e
    BY DocumentParts
  <1>2. FlattenSeq(a) ++ (FlattenSeq(b) ++ FlattenSeq(e)) = FlattenSeq(a ++ b) ++ FlattenSeq(e)
    BY DocumentParts, Regroup
  <1> QED BY <1>1, <1>2 DEF Agrees

\* A document with one line that ends in a newline and others around it.
LEMMA AgreesAround ==
    ASSUME NEW a \in Seq(EndedLines), NEW b \in Seq(EndedLines), NEW e \in Ends,
           NEW l \in Lines
    PROVE  Agrees(a ++ (<<l ++ <<NL>>>> ++ (b ++ e)),
                  FlattenSeq(a) ++ (l ++ (<<NL>> ++ (FlattenSeq(b) ++ FlattenSeq(e)))),
                  e # <<>>)
PROOF
  <1> DEFINE z == l ++ <<NL>>
             q == FlattenSeq(b) ++ FlattenSeq(e)
             c == <<z>> ++ b
  <1>1. z \in EndedLines /\ z \in Texts /\ l \in Texts /\ <<NL>> \in Texts
    BY EndedLine, LinesAreTexts
  <1>2. q \in Texts /\ z ++ q = l ++ (<<NL>> ++ q)
    <2>1. FlattenSeq(b) \in Texts /\ FlattenSeq(e) \in Texts
      BY DocumentParts
    <2>2. q \in Texts
      BY <2>1, SumOfTwo
    <2> HIDE DEF q
    <2> QED BY <1>1, <2>2, Regroup
  <1> HIDE DEF z
  <1>3. c \in Seq(EndedLines) /\ FlattenSeq(c) = z ++ FlattenSeq(b)
    <2>1. <<z>> \in Seq(EndedLines) /\ <<z>> \in Seq(Texts) /\ b \in Seq(Texts)
      BY <1>1, OneElement, EndedDocument
    <2>2. FlattenSeq(<<z>>) = z
      BY <1>1, FlattenSum
    <2>3. FlattenSeq(<<z>> ++ b) = FlattenSeq(<<z>>) ++ FlattenSeq(b)
      BY <2>1, FlattenOfTwo
    <2>4. <<z>> ++ b \in Seq(EndedLines)
      BY <2>1, SumLength
    <2> QED BY <2>2, <2>3, <2>4
  <1>4. c ++ e = <<z>> ++ (b ++ e)
    <2> DEFINE o == <<z>>
    <2>1. o \in Seq(Texts) /\ b \in Seq(Texts) /\ e \in Seq(Texts)
      BY <1>1, OneElement, EndedDocument, EndOfDocument
    <2> HIDE DEF o
    <2>2. (o ++ b) ++ e = o ++ (b ++ e)
      BY <2>1, RegroupSeqs
    <2> QED BY <2>2 DEF o, c
  <1>5. FlattenSeq(c) ++ FlattenSeq(e) = z ++ q
    <2>1. (z ++ FlattenSeq(b)) ++ FlattenSeq(e) = z ++ (FlattenSeq(b) ++ FlattenSeq(e))
      BY <1>1, DocumentParts, Regroup
    <2> QED BY <1>3, <2>1
  <1> HIDE DEF c
  <1>6. Agrees(a ++ (c ++ e), FlattenSeq(a) ++ (FlattenSeq(c) ++ FlattenSeq(e)), e # <<>>)
    BY <1>3, AgreesWhole
  <1> QED BY <1>2, <1>4, <1>5, <1>6 DEF q, z

\* A document with a last line that does not end in a newline.
LEMMA AgreesLast ==
    ASSUME NEW a \in Seq(EndedLines), NEW l \in Lines
    PROVE  Agrees(a ++ <<l>>, FlattenSeq(a) ++ l, TRUE)
PROOF
  <1>1. <<l>> \in Ends /\ <<l>> # <<>>
    BY DEF Ends
  <1>2. FlattenSeq(<<l>>) = l
    BY LinesAreTexts, FlattenSum
  <1> QED BY <1>1, <1>2 DEF Agrees

\* A document whose lines all end in a newline.
LEMMA AgreesEnd ==
    ASSUME NEW a \in Seq(EndedLines)
    PROVE  Agrees(a, FlattenSeq(a), FALSE)
PROOF
  <1>1. <<>> \in Ends /\ FlattenSeq(<<>>) = <<>>
    BY FlattenSum DEF Ends
  <1>2. a ++ <<>> = a
    BY ConcatEmptySeq DEF ++
  <1>3. FlattenSeq(a) ++ <<>> = FlattenSeq(a)
    BY EndedDocument, SumOfTexts
  <1> QED BY <1>1, <1>2, <1>3 DEF Agrees

\* A text that does not end in a newline has a last line in the document.
LEMMA AgreesFull ==
    ASSUME NEW lines, NEW t, Agrees(lines, t, FALSE), ~Whole(t)
    PROVE  Agrees(lines, t, TRUE)
PROOF
  <1>1. PICK h \in Seq(EndedLines), e \in Ends : lines = h ++ e /\ t = FlattenSeq(h) ++ FlattenSeq(e)
    BY DEF Agrees
  <1>2. ASSUME e = <<>> PROVE FALSE
    <2>1. FlattenSeq(h) ++ <<>> = FlattenSeq(h) /\ Whole(FlattenSeq(h))
      BY EndedDocument, SumOfTexts
    <2> QED BY <1>1, <1>2, <2>1, FlattenSum
  <1> QED BY <1>1, <1>2 DEF Agrees

-----------------------------------------------------------------------------
(* Texts cut into lines.                                                   *)

\* The parts of a text with one line more.
LEMMA SplitMore ==
    ASSUME NEW t \in Texts, NEW l \in Lines
    PROVE  Split(t ++ (<<NL>> ++ l)) = Append(Split(t), l)
PROOF
  <1> DEFINE v == <<NL>> ++ l
             s == t ++ v
             R == Rows(t)
             S == Split(s)
             T == Split(t)
  <1>1. l \in Texts /\ <<NL>> \in Texts /\ Len(<<NL>>) = 1
    BY LinesAreTexts
  <1>2. v \in Texts /\ Len(v) = 1 + Len(l) /\ Len(l) \in Nat /\ Rows(v) = 1
    <2>1. v \in Texts /\ Len(v) = Len(<<NL>>) + Len(l) /\ Len(l) \in Nat
      BY <1>1, SumOfTwo
    <2>2. Rows(v) = Rows(<<NL>>) + Rows(l)
      BY <1>1, RowsOfTwo
    <2> QED BY <1>1, <2>1, <2>2, RowsOfSum
  <1>3. RowStart(v, 1) = 1 /\ RowEnd(v, 0) = 0 /\ RowEnd(v, 1) = Len(v)
    <2>1. Row(v, 1) = 1
      BY <1>1, RowAtEnd, RowsOfSum
    <2>2. 1 \in Newlines(v)
      <3>1. 1 \in Newlines(<<NL>>)
        BY DEF Newlines
      <3> QED BY <1>1, <3>1, NewlinesConcat DEF ++
    <2>3. Rows(v) \in 0..Rows(v) /\ RowEnd(v, Rows(v)) = Len(v)
      BY <1>2, RowPart
    <2> HIDE DEF v
    <2>4. \A i \in Newlines(v) : Row(v, i) <= 1 => i <= 1
      <3>1. 1 \in Nat
        OBVIOUS
      <3> QED BY <1>2, <2>1, <3>1, RowOrder
    <2>5. RowStart(v, 1) = 1
      <3>1. 1 \in Nat /\ Row(v, 1) <= 1
        BY <2>1
      <3> QED BY <1>2, <2>2, <2>4, <3>1, RowStartIs
    <2>6. RowEnd(v, 0) = 0
      <3>1. 0 \in Nat /\ 0 \in 0..Len(v) /\ 0 + 1 \in Newlines(v) /\ Row(v, 0 + 1) > 0
        BY <1>2, <2>1, <2>2
      <3>2. \A i \in Newlines(v) : Row(v, i) > 0 => 0 < i
        BY <1>2, NewlinesOfText
      <3> QED BY <1>2, <3>1, <3>2, RowEndIs
    <2> QED BY <1>2, <2>3, <2>5, <2>6
  <1> HIDE DEF v
  <1>4. /\ s \in Texts /\ Len(s) = Len(t) + Len(v) /\ Len(t) \in Nat
        /\ R \in Nat /\ Rows(s) = R + 1
    BY <1>2, SumOfTwo, RowsOfTwo
  <1>5. /\ T \in Seq(Lines) /\ Len(T) = R + 1
        /\ S \in Seq(Lines) /\ Len(S) = R + 2
    <2>1. Len(S) = (R + 1) + 1
      BY <1>4, SplitTypes DEF Rows
    <2> QED BY <1>4, <2>1, SplitTypes DEF Rows
  <1>6. ASSUME NEW row \in 0..R PROVE S[row + 1] = T[row + 1]
    <2>1. RowStart(s, row) = RowStart(t, row)
      BY <1>2, BoundsConcat DEF ++
    <2>2. RowEnd(s, row) = RowEnd(t, row)
      <3>1. CASE row = R
        <4>1. 0 \in 0..Rows(v) /\ R + 0 = R
          BY <1>2, <1>4
        <4>2. RowEnd(s, R + 0) = Len(t) + RowEnd(v, 0)
          BY <1>2, <4>1, BoundsConcat DEF ++
        <4>3. RowEnd(t, R) = Len(t)
          <5>1. R \in 0..Rows(t) /\ R = Rows(t)
            BY <1>4
          <5> QED BY <5>1, RowPart
        <4> QED BY <1>3, <1>4, <3>1, <4>1, <4>2, <4>3
      <3>2. CASE row # R
        BY <1>2, <3>2, BoundsConcat DEF ++
      <3> QED BY <3>1, <3>2
    <2>3. /\ T[row + 1] = SubSeq(t, RowStart(t, row) + 1, RowEnd(t, row))
          /\ RowStart(t, row) + 1 \in 1..Len(t) + 1 /\ RowEnd(t, row) \in 0..Len(t)
      <3>1. row \in 0..Rows(t)
        BY <1>4
      <3>2. /\ T[row + 1] = SubSeq(t, RowStart(t, row) + 1, RowEnd(t, row))
            /\ RowStart(t, row) \in 0..Len(t) /\ RowEnd(t, row) \in 0..Len(t)
        BY <3>1, RowPart
      <3> QED BY <1>4, <3>2
    <2>4. S[row + 1] = SubSeq(s, RowStart(s, row) + 1, RowEnd(s, row))
      <3>1. row \in 0..Rows(s)
        BY <1>4
      <3> QED BY <1>4, <3>1, RowPart
    <2>5. SubSeq(s, RowStart(t, row) + 1, RowEnd(t, row)) = SubSeq(t, RowStart(t, row) + 1, RowEnd(t, row))
      BY <1>2, <2>3, PieceOfConcat DEF ++
    <2> QED BY <2>1, <2>2, <2>3, <2>4, <2>5
  <1>7. S[R + 2] = l
    <2>1. R + 1 \in 0..Rows(s) /\ (R + 1) + 1 = R + 2 /\ 1 \in 1..Rows(v) /\ 1 \in 0..Rows(v)
      BY <1>2, <1>4
    <2>2. RowStart(s, R + 1) = Len(t) + 1 /\ RowEnd(s, R + 1) = Len(t) + Len(v)
      <3>1. RowStart(s, R + 1) = Len(t) + RowStart(v, 1) /\ RowEnd(s, R + 1) = Len(t) + RowEnd(v, 1)
        BY <1>2, <2>1, BoundsConcat DEF ++
      <3> QED BY <1>3, <3>1
    <2>3. S[R + 2] = SubSeq(s, (Len(t) + 1) + 1, Len(t) + Len(v))
      <3>1. S[(R + 1) + 1] = SubSeq(s, RowStart(s, R + 1) + 1, RowEnd(s, R + 1))
        BY <1>4, <2>1, RowPart
      <3> QED BY <2>1, <2>2, <3>1
    <2>4. SubSeq(s, Len(t) + 2, Len(t) + Len(v)) = SubSeq(v, 2, Len(v))
      <3>1. 2 \in 1..Len(v) + 1 /\ Len(v) \in 0..Len(v)
        BY <1>2
      <3> QED BY <1>2, <3>1, PieceOfConcat DEF ++
    <2>5. SubSeq(v, 2, Len(v)) = l
      <3>1. SubSeq(<<NL>> ++ l, Len(<<NL>>) + 1, Len(<<NL>> ++ l)) = l
        BY <1>1, PartsOf
      <3> QED BY <1>1, <3>1 DEF v
    <2>6. (Len(t) + 1) + 1 = Len(t) + 2
      BY <1>4
    <2> QED BY <2>3, <2>4, <2>5, <2>6
  <1> DEFINE A == Append(T, l)
  <1> HIDE DEF S, T, R, s
  <1>8. /\ A \in Seq(Lines) /\ Len(A) = R + 2
        /\ \A i \in 1..R + 1 : A[i] = T[i]
        /\ A[R + 2] = l
    <2>1. /\ A \in Seq(Lines) /\ Len(A) = (R + 1) + 1
          /\ \A i \in 1..R + 1 : A[i] = T[i]
          /\ A[(R + 1) + 1] = l
      BY <1>5, AppendProperties
    <2> QED BY <1>4, <2>1
  <1> HIDE DEF A
  <1>9. ASSUME NEW i \in 1..R + 2 PROVE S[i] = A[i]
    <2>1. CASE i = R + 2
      BY <1>7, <1>8, <2>1
    <2>2. CASE i # R + 2
      <3>1. i - 1 \in 0..R /\ (i - 1) + 1 = i /\ i \in 1..R + 1
        BY <1>4, <2>2
      <3> QED BY <1>6, <1>8, <3>1
    <2> QED BY <2>1, <2>2
  <1>10. S = A
    BY <1>5, <1>8, <1>9, SeqEqual
  <1> QED BY <1>10 DEF S, A, T, s, v

\* A line is its own only part.
LEMMA SplitLine ==
    ASSUME NEW l \in Lines
    PROVE  Split(l) = <<l>>
PROOF
  <1>1. l \in Texts /\ Rows(l) = 0 /\ 0 \in 0..0
    BY LinesAreTexts, RowsOfSum
  <1>2. Split(l) \in Seq(Lines) /\ Len(Split(l)) = 1
    <2>1. Split(l) \in Seq(Lines) /\ Len(Split(l)) = Rows(l) + 1
      BY <1>1, SplitTypes DEF Rows
    <2> QED BY <1>1, <2>1
  <1>3. Split(l)[1] = l
    <2>0. 0 \in 0..Rows(l)
      BY <1>1
    <2>1. Split(l)[0 + 1] = SubSeq(l, RowStart(l, 0) + 1, RowEnd(l, 0))
          /\ RowStart(l, 0) = 0 /\ RowEnd(l, 0) = Len(l)
      BY <1>1, <2>0, RowPart
    <2>2. SubSeq(l, 1, Len(l)) = l
      BY SubSeqFull DEF Lines
    <2>3. 0 + 1 = 1
      OBVIOUS
    <2> QED BY <2>1, <2>2, <2>3
  <1>4. <<l>> \in Seq(Lines) /\ Len(<<l>>) = 1 /\ <<l>>[1] = l
    OBVIOUS
  <1>5. \A i \in 1..1 : Split(l)[i] = <<l>>[i]
    BY <1>3, <1>4
  <1> QED BY <1>2, <1>4, <1>5, SeqEqual

\* What lies between two positions of a text.
Cut(t, i, j) == SubSeq(t, i + 1, j)

\* A part of a text, and its length.
LEMMA CutTypes ==
    ASSUME NEW t \in Texts, NEW i \in 0..Len(t), NEW j \in i..Len(t)
    PROVE  Cut(t, i, j) \in Texts /\ Len(Cut(t, i, j)) = j - i
PROOF
  <1>1. /\ Len(t) \in Nat /\ i + 1 \in Nat \ {0} /\ j \in Int /\ j <= Len(t)
        /\ (IF i + 1 <= j THEN j - (i + 1) + 1 ELSE 0) = j - i
        /\ t \in Seq(Chars \cup {NL})
    BY NewlinesOfText DEF Texts
  <1>2. /\ SubSeq(t, i + 1, j) \in Seq(Chars \cup {NL})
        /\ Len(SubSeq(t, i + 1, j)) = IF i + 1 <= j THEN j - (i + 1) + 1 ELSE 0
    BY <1>1, PartOfSeq
  <1>3. Len(SubSeq(t, i + 1, j)) = j - i
    BY <1>1, <1>2
  <1> QED BY <1>2, <1>3, Zenon DEF Cut, Texts

\* Two parts next to each other.
LEMMA CutSum ==
    ASSUME NEW t \in Texts, NEW i \in 0..Len(t), NEW j \in i..Len(t), NEW k \in j..Len(t)
    PROVE  Cut(t, i, k) = Cut(t, i, j) ++ Cut(t, j, k)
PROOF
  <1>1. /\ Len(t) \in Nat /\ t \in Seq(Chars \cup {NL})
        /\ i + 1 \in 1..Len(t) + 1 /\ j \in (i + 1) - 1..Len(t) /\ k \in j..Len(t)
    BY NewlinesOfText DEF Texts
  <1>2. SubSeq(t, i + 1, j) \o SubSeq(t, j + 1, k) = SubSeq(t, i + 1, k)
    BY <1>1, ConcatAdjacentSubSeq
  <1> QED BY <1>2, Zenon DEF Cut, ++

\* The part that a newline is.
LEMMA CutNewline ==
    ASSUME NEW t \in Texts, NEW i \in Newlines(t)
    PROVE  Cut(t, i - 1, i) = <<NL>>
PROOF
  <1>1. i \in Nat /\ i \in 1..Len(t) /\ Len(t) \in Nat /\ t[i] = NL
    BY NewlinesOfText DEF Newlines
  <1>2. i - 1 \in 0..Len(t) /\ i \in i - 1..Len(t) /\ i - (i - 1) = 1
        /\ i \in Nat \ {0} /\ i \in Int /\ i <= Len(t) /\ 1 \in 1..i - i + 1 /\ i + 1 - 1 = i
        /\ (i - 1) + 1 = i
    BY <1>1
  <1> DEFINE c == Cut(t, i - 1, i)
  <1>3. c \in Texts /\ Len(c) = 1
    BY <1>2, CutTypes
  <1>4. c[1] = NL
    <2>1. SubSeq(t, i, i)[1] = t[i + 1 - 1]
      BY <1>2, PartOfSeq DEF Texts
    <2> QED BY <1>1, <1>2, <2>1 DEF Cut
  <1> HIDE DEF c
  <1>5. c = <<NL>>
    <2>1. <<NL>> \in Texts /\ Len(<<NL>>) = 1 /\ <<NL>>[1] = NL
      BY LinesAreTexts
    <2>2. \A k \in 1..1 : c[k] = <<NL>>[k]
      BY <1>4
    <2> QED BY <1>3, <2>1, <2>2, SeqEqual DEF Texts
  <1> QED BY <1>5 DEF c

\* The position of a text and what is before it.
LEMMA RowBefore ==
    ASSUME NEW t \in Texts, NEW p \in 0..Len(t)
    PROVE  /\ Row(t, p) = Rows(SubSeq(t, 1, p))
           /\ Row(t, p) # 0 => \E i \in Newlines(t) : i <= p /\ Row(t, i) = Row(t, p)
PROOF
  <1> DEFINE u == SubSeq(t, 1, p)
             v == SubSeq(t, p + 1, Len(t))
  <1>1. u \in Texts /\ v \in Texts /\ t = u ++ v /\ Len(u) = p
    BY CutAt
  <1> HIDE DEF u, v
  <1>2. Row(t, p) = Rows(u)
    BY <1>1, RowAtEnd
  <1>3. ASSUME Row(t, p) # 0 PROVE \E i \in Newlines(t) : i <= p /\ Row(t, i) = Row(t, p)
    <2>1. PICK i \in Newlines(u) : Row(u, i) = Rows(u)
      BY <1>1, <1>2, <1>3, SomeNewline
    <2>2. i \in Nat /\ i <= Len(u)
      BY <1>1, RowOfNewline
    <2>3. Row(u ++ v, i) = Row(u, i)
      BY <1>1, <2>2, RowConcat DEF ++
    <2>4. Newlines(u) \subseteq Newlines(u ++ v)
      BY <1>1, NewlinesConcat DEF ++
    <2> QED BY <1>1, <1>2, <2>1, <2>2, <2>3, <2>4
  <1> QED BY <1>2, <1>3 DEF u

\* A row begins behind the newline that ends the row before it.
LEMMA NextRow ==
    ASSUME NEW t \in Texts, NEW row \in 0..Rows(t), row # Rows(t)
    PROVE  /\ RowStart(t, row + 1) = RowEnd(t, row) + 1
           /\ RowEnd(t, row) + 1 \in Newlines(t)
           /\ Cut(t, RowStart(t, row), RowStart(t, row + 1)) = Split(t)[row + 1] ++ <<NL>>
PROOF
  <1> DEFINE p == RowEnd(t, row)
  <1>1. row \in Nat /\ row + 1 \in Nat /\ Rows(t) \in Nat /\ row < Rows(t) /\ Len(t) \in Nat
    BY RowsType, NewlinesOfText
  <1>2. /\ p \in 0..Len(t)
        /\ \A i \in Newlines(t) : Row(t, i) > row => p < i
        /\ p # Len(t) => p + 1 \in Newlines(t) /\ Row(t, p + 1) > row
    <2>1. \A i \in Newlines(t) : IF Row(t, i) <= row THEN i <= RowStart(t, row) ELSE p < i
      BY <1>1, RowBounds
    <2>2. \A i \in Newlines(t) : Row(t, i) \in Int
      BY RowOfNewline
    <2>3. \A i \in Newlines(t) : Row(t, i) > row => ~(Row(t, i) <= row)
      BY <1>1, <2>2
    <2> QED BY <1>1, <2>1, <2>3, RowBounds
  <1> HIDE DEF p
  <1>3. p # Len(t)
    <2>1. PICK i \in Newlines(t) : Row(t, i) = Rows(t)
      BY <1>1, SomeNewline
    <2>2. i \in Nat /\ i <= Len(t) /\ Row(t, i) > row
      BY <1>1, <2>1, RowOfNewline
    <2> QED BY <1>1, <1>2, <2>2
  <1>4. p + 1 \in Newlines(t) /\ Row(t, p + 1) > row /\ p \in Nat /\ p + 1 \in 0..Len(t) /\ p + 1 \in Nat
    BY <1>1, <1>2, <1>3
  <1>5. Row(t, p) <= row
    <2>0. Row(t, p) \in Nat
      <3>1. p \in Nat /\ p <= Len(t)
        BY <1>4, NewlinesOfText
      <3> QED BY <3>1, RowType
    <2>1. CASE Row(t, p) = 0
      BY <1>1, <2>1
    <2>2. CASE Row(t, p) # 0
      <3>1. PICK i \in Newlines(t) : i <= p /\ Row(t, i) = Row(t, p)
        BY <1>2, <2>2, RowBefore
      <3>2. i \in Nat
        BY RowOfNewline
      <3> QED BY <1>1, <1>2, <1>4, <2>0, <3>1, <3>2
    <2> QED BY <2>1, <2>2
  <1>6. Row(t, p + 1) = Row(t, p) + 1
    <2> DEFINE u == SubSeq(t, 1, p)
               w == SubSeq(t, 1, p + 1)
    <2>1. Row(t, p) = Rows(u) /\ Row(t, p + 1) = Rows(w)
      BY <1>2, <1>4, RowBefore
    <2>2. w = u ++ <<NL>>
      <3>1. 0 \in 0..Len(t) /\ p \in 0..Len(t) /\ p + 1 \in p..Len(t) /\ 0 + 1 = 1 /\ (p + 1) - 1 = p
        BY <1>1, <1>4
      <3>2. Cut(t, 0, p + 1) = Cut(t, 0, p) ++ Cut(t, p, p + 1)
        BY <3>1, CutSum
      <3>3. Cut(t, (p + 1) - 1, p + 1) = <<NL>>
        BY <1>4, CutNewline
      <3>4. Cut(t, p, p + 1) = <<NL>>
        BY <3>1, <3>3
      <3>5. Cut(t, 0, p + 1) = w /\ Cut(t, 0, p) = u
        BY <3>1 DEF Cut
      <3> QED BY <3>2, <3>4, <3>5
    <2>3. u \in Texts
      BY <1>2, CutAt
    <2> HIDE DEF u, w
    <2>4. Rows(u ++ <<NL>>) = Rows(u) + Rows(<<NL>>)
      BY <2>3, LinesAreTexts, RowsOfTwo
    <2> QED BY <2>1, <2>2, <2>4, RowsOfSum
  <1>7. RowStart(t, row + 1) = p + 1
    <2>1. Row(t, p + 1) <= row + 1
      BY <1>1, <1>4, <1>5, <1>6, RowType, NewlinesOfText
    <2>2. \A i \in Newlines(t) : Row(t, i) <= row + 1 => i <= p + 1
      <3>1. Row(t, p + 1) = row + 1
        BY <1>1, <1>4, <2>1, RowOfNewline
      <3> QED BY <1>4, <3>1, RowOrder
    <2> QED BY <1>1, <1>4, <2>1, <2>2, RowStartIs
  <1>8. Cut(t, RowStart(t, row), p + 1) = Split(t)[row + 1] ++ <<NL>>
    <2>1. /\ Split(t)[row + 1] = Cut(t, RowStart(t, row), p)
          /\ RowStart(t, row) \in 0..Len(t) /\ RowStart(t, row) <= p
      BY RowPart DEF Cut, p
    <2>2. p \in RowStart(t, row)..Len(t) /\ p + 1 \in p..Len(t)
      BY <1>2, <1>4, <2>1
    <2>3. Cut(t, RowStart(t, row), p + 1) = Cut(t, RowStart(t, row), p) ++ Cut(t, p, p + 1)
      BY <2>1, <2>2, CutSum
    <2>4. Cut(t, (p + 1) - 1, p + 1) = <<NL>> /\ (p + 1) - 1 = p
      BY <1>4, CutNewline
    <2> QED BY <2>1, <2>3, <2>4
  <1> QED BY <1>4, <1>7, <1>8 DEF p

\* Lines with their newlines, as one text.
LinesText(ls) == FlattenSeq(Terminated(ls))

\* Lines that got their newlines.
LEMMA TerminatedEnded ==
    ASSUME NEW ls \in Seq(Lines)
    PROVE  /\ Terminated(ls) \in Seq(EndedLines) /\ Len(Terminated(ls)) = Len(ls)
           /\ \A i \in 1..Len(ls) : Terminated(ls)[i] = ls[i] ++ <<NL>>
PROOF
  <1> DEFINE T == Terminated(ls)
  <1>1. Len(ls) \in Nat
    BY LenProperties
  <1>2. \A i \in 1..Len(ls) : ls[i] \in Lines
    BY ElementOfSeq
  <1>3. \A i \in 1..Len(ls) : T[i] = Append(ls[i], NL)
    BY DEF Terminated
  <1>4. T = [i \in 1..Len(ls) |-> Append(ls[i], NL)]
    BY DEF Terminated
  <1>5. \A i \in 1..Len(ls) : Append(ls[i], NL) = ls[i] ++ <<NL>> /\ ls[i] ++ <<NL>> \in EndedLines
    BY <1>2, EndedLine
  <1>6. T \in [1..Len(ls) -> EndedLines]
    BY <1>4, <1>5
  <1>7. T \in Seq(EndedLines) /\ Len(T) = Len(ls)
    BY <1>1, <1>6, SeqDef
  <1> QED BY <1>3, <1>5, <1>7

\* The same with one line more.
LEMMA TerminatedMore ==
    ASSUME NEW ls \in Seq(Lines), NEW l \in Lines
    PROVE  /\ Append(ls, l) \in Seq(Lines)
           /\ Terminated(Append(ls, l)) = Append(Terminated(ls), l ++ <<NL>>)
           /\ LinesText(ls) \in Texts
           /\ LinesText(Append(ls, l)) = LinesText(ls) ++ (l ++ <<NL>>)
PROOF
  <1> DEFINE more == Append(ls, l)
             T == Terminated(ls)
             M == Terminated(more)
             A == Append(T, l ++ <<NL>>)
             n == Len(ls)
  <1>1. /\ more \in Seq(Lines) /\ Len(more) = n + 1 /\ n \in Nat
        /\ \A i \in 1..n : more[i] = ls[i]
        /\ more[n + 1] = l
    BY AppendProperties, LenProperties
  <1> HIDE DEF more
  <1>2. /\ M \in Seq(EndedLines) /\ Len(M) = n + 1
        /\ \A i \in 1..n + 1 : M[i] = more[i] ++ <<NL>>
    BY <1>1, TerminatedEnded
  <1>3. /\ T \in Seq(EndedLines) /\ Len(T) = n
        /\ \A i \in 1..n : T[i] = ls[i] ++ <<NL>>
    BY TerminatedEnded
  <1>4. l ++ <<NL>> \in EndedLines /\ l ++ <<NL>> \in Texts
    BY EndedLine
  <1> HIDE DEF n, T, M
  <1>5. /\ A \in Seq(EndedLines) /\ Len(A) = n + 1
        /\ \A i \in 1..n : A[i] = T[i]
        /\ A[n + 1] = l ++ <<NL>>
    BY <1>3, <1>4, AppendProperties
  <1> HIDE DEF A
  <1>6. ASSUME NEW i \in 1..n + 1 PROVE M[i] = A[i]
    <2>1. CASE i = n + 1
      <3>1. M[n + 1] = more[n + 1] ++ <<NL>>
        BY <1>2, <2>1
      <3> QED BY <1>1, <1>5, <2>1, <3>1
    <2>2. CASE i # n + 1
      <3>1. i \in 1..n
        BY <1>1, <2>2
      <3> QED BY <1>1, <1>2, <1>3, <1>5, <3>1
    <2> QED BY <2>1, <2>2
  <1>7. M = A
    BY <1>2, <1>5, <1>6, SeqEqual
  <1>8. T \in Seq(Texts) /\ FlattenSeq(T) \in Texts
    BY <1>3, EndedDocument
  <1>9. FlattenSeq(A) = FlattenSeq(T) ++ (l ++ <<NL>>)
    BY <1>4, <1>8, FlattenAppend DEF A, ++
  <1> QED BY <1>1, <1>7, <1>8, <1>9 DEF LinesText, M, A, T, more

\* Their text has whole rows, one for each line.
LEMMA LinesTextTypes ==
    ASSUME NEW ls \in Seq(Lines)
    PROVE  /\ LinesText(ls) \in Texts
           /\ Whole(LinesText(ls)) /\ Rows(LinesText(ls)) = Len(ls)
PROOF
  BY TerminatedEnded, EndedDocument DEF LinesText

\* The rows from a to b, without b.
LEMMA RowsBetween ==
    ASSUME NEW t \in Texts, NEW a \in 0..Rows(t), NEW b \in a..Rows(t)
    PROVE  /\ SubSeq(Split(t), a + 1, b) \in Seq(Lines)
           /\ Len(SubSeq(Split(t), a + 1, b)) = b - a
           /\ RowStart(t, a) <= RowStart(t, b)
           /\ RowStart(t, a) \in 0..Len(t) /\ RowStart(t, b) \in 0..Len(t)
           /\ LinesText(SubSeq(Split(t), a + 1, b)) = Cut(t, RowStart(t, a), RowStart(t, b))
PROOF
  <1> DEFINE R == Rows(t)
             L(k) == SubSeq(Split(t), a + 1, k)
             Good(k) == /\ RowStart(t, a) <= RowStart(t, k)
                        /\ LinesText(L(k)) = Cut(t, RowStart(t, a), RowStart(t, k))
             Bad == {k \in Nat : a <= k /\ k <= R /\ ~Good(k)}
  <1>1. /\ R \in Nat /\ a \in Nat /\ b \in Nat /\ a <= b /\ b <= R /\ Len(t) \in Nat
        /\ Split(t) \in Seq(Lines) /\ Len(Split(t)) = R + 1
    BY RowsType, NewlinesOfText, SplitTypes DEF Rows
  <1>2. ASSUME NEW k \in a..R
        PROVE  /\ L(k) \in Seq(Lines) /\ Len(L(k)) = k - a
               /\ RowStart(t, k) \in 0..Len(t)
    <2>1. a + 1 \in Nat \ {0} /\ k \in Int /\ k <= Len(Split(t)) /\ k \in 0..R /\ k \in Nat
          /\ (IF a + 1 <= k THEN k - (a + 1) + 1 ELSE 0) = k - a
      BY <1>1
    <2>2. L(k) \in Seq(Lines) /\ Len(L(k)) = IF a + 1 <= k THEN k - (a + 1) + 1 ELSE 0
      BY <1>1, <2>1, PartOfSeq
    <2>3. RowStart(t, k) \in 0..Len(t)
      BY <2>1, RowBounds
    <2> QED BY <2>1, <2>2, <2>3
  <1>3. Bad = {}
    <2> SUFFICES ASSUME Bad # {} PROVE FALSE
      OBVIOUS
    <2>1. PICK k \in Bad : \A m \in Bad : k <= m
      BY LeastNumber
    <2>2. CASE k = a
      <3>1. L(a) = <<>>
        BY <1>1, SubSeqEmpty
      <3>2. Cut(t, RowStart(t, a), RowStart(t, a)) = <<>>
        <4>1. RowStart(t, a) \in Int /\ RowStart(t, a) + 1 \in Int /\ RowStart(t, a) < RowStart(t, a) + 1
          BY <1>1, <1>2
        <4> QED BY <4>1, SubSeqEmpty DEF Cut
      <3>3. LinesText(<<>>) = <<>>
        <4>1. <<>> \in Seq(Lines) /\ Len(<<>>) = 0
          BY EmptySeq
        <4>2. Terminated(<<>>) \in Seq(EndedLines) /\ Len(Terminated(<<>>)) = 0
          BY <4>1, TerminatedEnded
        <4> QED BY <4>2, EmptySeq, FlattenSum DEF LinesText
      <3>4. RowStart(t, a) <= RowStart(t, a)
        BY <1>1, <1>2
      <3> QED BY <2>1, <2>2, <3>1, <3>2, <3>3, <3>4
    <2>3. CASE k # a
      <3> DEFINE j == k - 1
      <3>1. j \in Nat /\ a <= j /\ j <= R /\ j \in a..R /\ j \in 0..R /\ j # R /\ j + 1 = k /\ ~(k <= j) /\ k \in a..R
        BY <1>1, <2>1, <2>3
      <3> HIDE DEF j
      <3>2. Good(j)
        BY <2>1, <3>1
      <3>3. /\ RowStart(t, k) = RowEnd(t, j) + 1
            /\ Cut(t, RowStart(t, j), RowStart(t, k)) = Split(t)[k] ++ <<NL>>
            /\ RowStart(t, j) <= RowEnd(t, j) /\ RowEnd(t, j) \in 0..Len(t)
            /\ Split(t)[k] \in Lines
        BY <3>1, NextRow, RowPart
      <3>4. L(k) = Append(L(j), Split(t)[k])
        <4>1. a + 1 \in 1..Len(Split(t)) /\ k \in a + 1..Len(Split(t)) /\ k - 1 = j
          BY <1>1, <2>3, <3>1
        <4>2. SubSeq(Split(t), a + 1, k) = SubSeq(Split(t), a + 1, k - 1) \o <<Split(t)[k]>>
          BY <1>1, <4>1, SubSeqRecursiveSecond
        <4>3. Append(L(j), Split(t)[k]) = L(j) \o <<Split(t)[k]>>
          BY <1>2, <3>1, <3>3, AppendIsConcat
        <4> QED BY <4>1, <4>2, <4>3
      <3>5. RowStart(t, a) \in 0..Len(t) /\ RowStart(t, j) \in RowStart(t, a)..Len(t) /\ RowStart(t, k) \in RowStart(t, j)..Len(t)
        BY <1>1, <1>2, <3>1, <3>2, <3>3
      <3>6. RowStart(t, a) <= RowStart(t, k)
        BY <1>1, <3>5
      <3>7. Cut(t, RowStart(t, a), RowStart(t, k)) = Cut(t, RowStart(t, a), RowStart(t, j)) ++ Cut(t, RowStart(t, j), RowStart(t, k))
        BY <3>5, CutSum
      <3>8. LinesText(Append(L(j), Split(t)[k])) = LinesText(L(j)) ++ (Split(t)[k] ++ <<NL>>)
        <4>1. L(j) \in Seq(Lines)
          BY <1>2, <3>1
        <4> HIDE DEF L
        <4> QED BY <3>3, <4>1, TerminatedMore
      <3> HIDE DEF L
      <3>9. Good(k)
        BY <3>2, <3>3, <3>4, <3>6, <3>7, <3>8
      <3> QED BY <2>1, <3>9
    <2> QED BY <2>2, <2>3
  <1>4. Good(b)
    BY <1>1, <1>3
  <1>5. a \in a..R /\ b \in a..R
    BY <1>1
  <1> QED BY <1>2, <1>4, <1>5

-----------------------------------------------------------------------------
(* Blocks of lines, and a line that is changed.                            *)

\* A sequence with an element appended, and without it.
LEMMA FrontOfAppend ==
    ASSUME NEW S, NEW s \in Seq(S), NEW x \in S
    PROVE  /\ Front(Append(s, x)) = s /\ Last(Append(s, x)) = x
           /\ Append(s, x) # <<>> /\ Append(s, x) \in Seq(S)
PROOF
  <1> DEFINE a == Append(s, x)
  <1>1. a \in Seq(S) /\ Len(a) = Len(s) + 1 /\ Len(s) \in Nat /\ a[Len(s) + 1] = x
    BY AppendProperties, LenProperties
  <1>2. SubSeq(a, 1, Len(s)) = s
    <2>1. a = s ++ <<x>> /\ <<x>> \in Seq(S)
      BY AppendIsConcat, OneElement DEF ++
    <2>2. SubSeq(s ++ <<x>>, 1, Len(s)) = s
      BY <2>1, SumParts
    <2> QED BY <2>1, <2>2
  <1> HIDE DEF a
  <1>3. Len(a) - 1 = Len(s) /\ a # <<>>
    BY <1>1, EmptySeq
  <1>4. Front(a) = s /\ Last(a) = x
    BY <1>1, <1>2, <1>3 DEF Front, Last
  <1> QED BY <1>1, <1>3, <1>4 DEF a

\* A text is its lines and what follows its last newline.
LEMMA TextOfParts ==
    ASSUME NEW t \in Texts
    PROVE  \E ls \in Seq(Lines), l \in Lines :
              /\ Split(t) = Append(ls, l) /\ Len(ls) = Rows(t)
              /\ ls = Front(Split(t)) /\ l = Last(Split(t))
              /\ t = LinesText(ls) ++ l
              /\ LinesText(Split(t)) = t ++ <<NL>>
PROOF
  <1> DEFINE R == Rows(t)
             ls == SubSeq(Split(t), 1, R)
             l == Split(t)[R + 1]
             b == RowStart(t, R)
  <1>1. R \in Nat /\ Split(t) \in Seq(Lines) /\ Len(Split(t)) = R + 1 /\ Len(t) \in Nat
    BY RowsType, SplitTypes, NewlinesOfText DEF Rows
  <1>2. 0 \in 0..R /\ R \in 0..R /\ 0 + 1 = 1
    BY <1>1
  <1>3. /\ ls \in Seq(Lines) /\ Len(ls) = R
        /\ b \in 0..Len(t)
        /\ LinesText(ls) = Cut(t, 0, b)
    <2>1. /\ SubSeq(Split(t), 0 + 1, R) \in Seq(Lines)
          /\ Len(SubSeq(Split(t), 0 + 1, R)) = R - 0
          /\ b \in 0..Len(t)
          /\ LinesText(SubSeq(Split(t), 0 + 1, R)) = Cut(t, RowStart(t, 0), b)
      BY <1>2, RowsBetween
    <2>2. RowStart(t, 0) = 0 /\ R - 0 = R
      BY <1>1, <1>2, RowPart
    <2> QED BY <1>2, <2>1, <2>2
  <1>4. l \in Lines /\ l = Cut(t, b, Len(t))
    BY <1>2, RowPart DEF Cut
  <1>5. t = Cut(t, 0, b) ++ Cut(t, b, Len(t))
    <2>1. 0 \in 0..Len(t) /\ Len(t) \in b..Len(t)
      BY <1>1, <1>3
    <2>2. Cut(t, 0, Len(t)) = Cut(t, 0, b) ++ Cut(t, b, Len(t))
      BY <1>3, <2>1, CutSum
    <2>3. Cut(t, 0, Len(t)) = t
      BY <1>2, SubSeqFull DEF Cut, Texts
    <2> QED BY <2>2, <2>3
  <1> HIDE DEF b
  <1>6. t = LinesText(ls) ++ l
    BY <1>3, <1>4, <1>5
  <1>7. Split(t) = Append(ls, l)
    <2>1. R + 1 \in 1..Len(Split(t))
      BY <1>1
    <2>2. SubSeq(Split(t), 1, R + 1) = Append(SubSeq(Split(t), 1, (R + 1) - 1), Split(t)[R + 1])
      BY <1>1, <2>1, PrefixGrows
    <2>3. SubSeq(Split(t), 1, R + 1) = Split(t) /\ (R + 1) - 1 = R
      BY <1>1, SubSeqFull
    <2> QED BY <2>2, <2>3
  <1>8. ls = Front(Split(t)) /\ l = Last(Split(t))
    <2>1. Len(Split(t)) - 1 = R
      BY <1>1
    <2> QED BY <1>1, <2>1 DEF Front, Last
  <1> HIDE DEF ls, l
  <1>9. LinesText(Split(t)) = t ++ <<NL>>
    <2>1. LinesText(ls) \in Texts /\ LinesText(Append(ls, l)) = LinesText(ls) ++ (l ++ <<NL>>)
      BY <1>3, <1>4, TerminatedMore
    <2>2. (LinesText(ls) ++ l) ++ <<NL>> = LinesText(ls) ++ (l ++ <<NL>>)
      BY <1>4, <2>1, LinesAreTexts, Regroup
    <2> QED BY <1>6, <1>7, <2>1, <2>2
  <1> QED BY <1>3, <1>4, <1>6, <1>7, <1>8, <1>9

\* The text of a change of whole lines is theirs, but for the last newline.
LEMMA BlockText ==
    ASSUME NEW ls \in Seq(Lines), ls # <<>>
    PROVE  Joined(ls) \in Texts /\ Joined(ls) ++ <<NL>> = LinesText(ls)
PROOF
  <1> DEFINE w == LinesText(ls)
             n == Len(w)
  <1>1. w \in Texts /\ Whole(w) /\ Rows(w) = Len(ls) /\ n \in Nat
    BY LinesTextTypes, NewlinesOfText
  <1>2. w # <<>>
    <2>1. Len(ls) # 0
      BY EmptySeq
    <2> QED BY <1>1, <2>1, RowsOfSum
  <1>3. n # 0 /\ w[n] = NL /\ n - 1 \in 0..n /\ n \in n - 1..n /\ 0 \in 0..n /\ 0 + 1 = 1
    BY <1>1, <1>2, EmptySeq DEF Whole, Texts
  <1>4. Front(w) = Cut(w, 0, n - 1)
    BY <1>3 DEF Front, Cut
  <1> HIDE DEF w
  <1>5. Cut(w, 0, n) = Cut(w, 0, n - 1) ++ Cut(w, n - 1, n) /\ Cut(w, 0, n - 1) \in Texts
    BY <1>1, <1>3, CutSum, CutTypes
  <1>6. Cut(w, 0, n) = w
    BY <1>1, <1>3, SubSeqFull DEF Cut, Texts
  <1>7. Cut(w, n - 1, n) = <<NL>>
    <2>1. n \in Newlines(w)
      BY <1>1, <1>3 DEF Newlines
    <2> QED BY <1>1, <2>1, CutNewline
  <1>8. Joined(ls) = Front(w)
    BY DEF Joined, LinesText, w
  <1> QED BY <1>4, <1>5, <1>6, <1>7, <1>8 DEF w

\* A text that is one line of a document takes the place of a line.
LEMMA ChangeLineOne ==
    ASSUME NEW a \in Seq(DocumentLines), NEW z \in DocumentLines, NEW b \in Seq(DocumentLines),
           NEW text \in DocumentLines
    PROVE  ChangeLine(a ++ (<<z>> ++ b), Len(a), text) = a ++ (<<text>> ++ b)
PROOF
  <1>1. ReplaceAt(a ++ (<<z>> ++ b), Len(a) + 1, text) = a ++ (<<text>> ++ b)
    BY AroundReplace
  <1>2. Newlines(text) \subseteq {Len(text)}
    BY DEF DocumentLines
  <1> QED BY <1>1, <1>2 DEF ChangeLine

\* A newline inside a line makes two lines of it.
LEMMA ChangeLineTwo ==
    ASSUME NEW a \in Seq(DocumentLines), NEW z \in DocumentLines, NEW b \in Seq(DocumentLines),
           NEW x \in Lines, NEW y \in Lines
    PROVE  ChangeLine(a ++ (<<z>> ++ b), Len(a), x ++ (<<NL>> ++ (y ++ <<NL>>)))
              = a ++ (<<x ++ <<NL>>>> ++ (<<y ++ <<NL>>>> ++ b))
PROOF
  <1> DEFINE yn == y ++ <<NL>>
             xn == x ++ <<NL>>
             text == x ++ (<<NL>> ++ yn)
             lines == a ++ (<<z>> ++ b)
  <1>1. /\ x \in Texts /\ y \in Texts /\ <<NL>> \in Texts /\ Len(<<NL>>) = 1
        /\ xn \in Texts /\ yn \in Texts /\ xn \in EndedLines /\ yn \in EndedLines
        /\ xn \in DocumentLines /\ yn \in DocumentLines /\ Len(yn) = Len(y) + 1
        /\ <<>> \in Texts /\ <<>> \in Lines
    <2>1. <<>> \in Lines
      BY DEF Lines
    <2> QED BY <2>1, LinesAreTexts, EndedLine, SumOfTexts
  <1>2. Split(text) = Append(Append(<<x>>, y), <<>>)
    <2>1. Split(x ++ (<<NL>> ++ y)) = Append(<<x>>, y)
      BY <1>1, SplitMore, SplitLine
    <2>2. x ++ (<<NL>> ++ y) \in Texts /\ <<NL>> ++ y \in Texts
      BY <1>1, SumOfTwo
    <2>3. Split((x ++ (<<NL>> ++ y)) ++ (<<NL>> ++ <<>>)) = Append(Append(<<x>>, y), <<>>)
      BY <1>1, <2>1, <2>2, SplitMore
    <2>4. (x ++ (<<NL>> ++ y)) ++ <<NL>> = text
      <3>1. (x ++ (<<NL>> ++ y)) ++ <<NL>> = x ++ ((<<NL>> ++ y) ++ <<NL>>)
        BY <1>1, <2>2, Regroup
      <3>2. (<<NL>> ++ y) ++ <<NL>> = <<NL>> ++ (y ++ <<NL>>)
        BY <1>1, Regroup
      <3> QED BY <3>1, <3>2
    <2>5. <<NL>> ++ <<>> = <<NL>>
      BY <1>1, SumOfTexts
    <2> QED BY <2>3, <2>4, <2>5
  <1>3. Terminated(Front(Split(text))) = <<xn>> ++ <<yn>>
    <2>1. <<x>> \in Seq(Lines) /\ Append(<<x>>, y) \in Seq(Lines)
      BY OneElement, AppendProperties
    <2>2. Front(Split(text)) = Append(<<x>>, y)
      <3> DEFINE o == Append(<<x>>, y)
      <3>1. o \in Seq(Lines) /\ Split(text) = Append(o, <<>>)
        BY <1>2, <2>1
      <3> HIDE DEF o
      <3>2. Front(Append(o, <<>>)) = o
        BY <1>1, <3>1, FrontOfAppend
      <3> QED BY <3>1, <3>2 DEF o
    <2>3. Terminated(Append(<<x>>, y)) = Append(Terminated(<<x>>), yn)
      BY <2>1, TerminatedMore
    <2>4. Terminated(<<x>>) = <<xn>>
      <3> DEFINE o == <<x>>
      <3>0. o \in Seq(Lines) /\ Len(o) = 1 /\ o[1] = x /\ 1 \in 1..Len(o)
        BY <2>1
      <3>1. Terminated(<<x>>) \in Seq(EndedLines) /\ Len(Terminated(<<x>>)) = 1 /\ Terminated(<<x>>)[1] = xn
        <4> HIDE DEF o
        <4>1. Terminated(o) \in Seq(EndedLines) /\ Len(Terminated(o)) = 1 /\ Terminated(o)[1] = o[1] ++ <<NL>>
          BY <3>0, TerminatedEnded
        <4> QED BY <3>0, <4>1 DEF o
      <3>2. <<xn>> \in Seq(EndedLines) /\ Len(<<xn>>) = 1 /\ <<xn>>[1] = xn
        BY <1>1, OneElement
      <3>3. \A i \in 1..1 : Terminated(<<x>>)[i] = <<xn>>[i]
        BY <3>1, <3>2
      <3> QED BY <3>1, <3>2, <3>3, SeqEqual
    <2>5. Append(<<xn>>, yn) = <<xn>> ++ <<yn>>
      <3>1. <<xn>> \in Seq(EndedLines)
        BY <1>1, OneElement
      <3> QED BY <1>1, <3>1, AppendIsConcat DEF ++
    <2> QED BY <2>2, <2>3, <2>4, <2>5
  <1>4. ~(Newlines(text) \subseteq {Len(text)})
    <2>1. 1 \in Newlines(<<NL>> ++ yn)
      <3>1. 1 \in Newlines(<<NL>>)
        BY DEF Newlines
      <3> QED BY <1>1, <3>1, NewlinesConcat DEF ++
    <2>2. <<NL>> ++ yn \in Texts /\ Len(<<NL>> ++ yn) = 1 + Len(yn) /\ Len(yn) \in Nat
      BY <1>1, SumOfTwo
    <2>3. 1 + Len(x) \in Newlines(text)
      BY <1>1, <2>1, <2>2, NewlinesConcat DEF ++
    <2>4. Len(text) = Len(x) + (1 + Len(yn)) /\ Len(x) \in Nat /\ Len(y) \in Nat
      <3>1. Len(text) = Len(x) + Len(<<NL>> ++ yn) /\ Len(x) \in Nat /\ Len(y) \in Nat
        BY <1>1, <2>2, SumOfTwo
      <3> QED BY <2>2, <3>1
    <2>5. 1 + Len(x) # Len(text)
      BY <1>1, <2>4
    <2> QED BY <2>3, <2>5
  <1>5. SubSeq(lines, 1, Len(a)) = a /\ SubSeq(lines, Len(a) + 2, Len(lines)) = b
    BY AroundCut
  <1> HIDE DEF lines, text
  <1>6. ChangeLine(lines, Len(a), text) = (a ++ (<<xn>> ++ <<yn>>)) ++ b
    BY <1>3, <1>4, <1>5 DEF ChangeLine, ++
  <1>7. (a ++ (<<xn>> ++ <<yn>>)) ++ b = a ++ (<<xn>> ++ (<<yn>> ++ b))
    <2> DEFINE o == <<xn>>
               q == <<yn>>
    <2>1. o \in Seq(DocumentLines) /\ q \in Seq(DocumentLines)
      BY <1>1, OneElement
    <2> HIDE DEF o, q, xn, yn
    <2>2. o ++ q \in Seq(DocumentLines)
      BY <2>1, SumLength
    <2>3. (a ++ (o ++ q)) ++ b = a ++ ((o ++ q) ++ b)
      BY <2>2, RegroupSeqs
    <2>4. (o ++ q) ++ b = o ++ (q ++ b)
      BY <2>1, RegroupSeqs
    <2> QED BY <2>3, <2>4 DEF o, q
  <1> QED BY <1>6, <1>7 DEF lines, text

-----------------------------------------------------------------------------
(* The invariant.                                                          *)

\* The edits that may be undone or done again are changes of the editor, and
\* there are no more of them than edits of the visit.
UndoInv ==
    /\ undoStack \in Seq(Seq(Changes))
    /\ redoStack \in Seq(Seq(Changes))
    /\ Len(undoStack) + Len(redoStack) <= MaxUndo

Inv == TypeOK /\ replay \in LinesDocument /\ UndoInv

LEMMA SkeletonsAreTexts ==
    ASSUME NEW t, t \in Skeletons \cup Pastes
    PROVE  t \in Texts
PROOF
  BY TextAssumption

LEMMA SetTextTypes ==
    ASSUME NEW t \in Texts
    PROVE  [lines |-> SetText(t), broken |-> FALSE] \in LinesDocument
PROOF
  <1>1. SetText(t) \in Seq(DocumentLines)
    BY JavaSplitTypes, TerminatedTypes DEF SetText
  <1> QED BY <1>1 DEF LinesDocument

LEMMA LinesDocumentIsDocument ==
    ASSUME NEW doc \in LinesDocument
    PROVE  doc \in Document
PROOF
  <1>1. doc.lines \in Seq(Texts)
    BY SeqMonotonic DEF LinesDocument, DocumentLines
  <1> QED BY <1>1 DEF LinesDocument, Document

LEMMA InvInit == Init => Inv
PROOF
  <1> SUFFICES ASSUME Init PROVE Inv
    OBVIOUS
  <1>1. skeleton \in Texts
    BY SkeletonsAreTexts DEF Init
  <1>2. replay \in LinesDocument
    <2>1. [lines |-> <<>>, broken |-> FALSE] \in LinesDocument
      BY EmptySeq DEF LinesDocument
    <2> QED BY <1>1, <2>1, SetTextTypes DEF Init
  <1>3. replay \in Document
    BY <1>2, LinesDocumentIsDocument
  <1>4. MaxUndo \in Nat /\ MaxStray \in Nat \ {0}
    BY TextAssumption
  <1>5. UndoInv
    BY <1>4, EmptySeq DEF Init, UndoInv
  <1>6. Len(undoStack) = 0 /\ Len(redoStack) = 0
    BY EmptySeq DEF Init
  <1>7. stray \in 0..MaxStray
    <2>1. stray = 0 \/ stray = 1
      BY DEF Init
    <2> QED BY <1>4, <2>1
  <1>8. ~replay.broken
    BY DEF Init
  <1>9. skeleton \in Skeletons /\ shown = skeleton /\ base = skeleton /\ newer = FALSE
    BY DEF Init
  <1>10. {Len(undoStack), Len(redoStack)} \subseteq 0..MaxUndo
    BY <1>4, <1>6
  <1>11. TypeOK
    BY <1>1, <1>3, <1>7, <1>8, <1>9, <1>10 DEF TypeOK
  <1> QED BY <1>2, <1>5, <1>11 DEF Inv

\* What is stored of changes are changes.
LEMMA StoredTypes ==
    ASSUME NEW cs \in Seq(Changes)
    PROVE  /\ StoredChanges(cs) \in Seq(Changes) /\ Len(StoredChanges(cs)) = Len(cs)
           /\ \A k \in 1..Len(cs) : StoredChanges(cs)[k] = Stored(cs[k])
PROOF
  <1> DEFINE n == Len(cs)
             r == StoredChanges(cs)
  <1>1. DOMAIN cs = 1..n /\ n \in Nat
    BY LenProperties
  <1>2. \A i \in 1..n : Stored(cs[i]) \in Changes
    <2>1. ASSUME NEW ch \in Changes
          PROVE  Stored(ch) \in Changes
      <3>1. /\ Stored(ch) \in [type : {"insertText", "removeText", "insertLines", "removeLines"},
                               row : Nat, from : Nat, to : Nat, text : Texts]
            /\ Stored(ch).from = Stored(ch).to
        BY DEF Stored, Changes
      <3>2. Stored(ch).from \in Nat
        BY <3>1
      <3> QED BY <3>1, <3>2 DEF Changes
    <2> QED BY <2>1, ElementOfSeq
  <1> HIDE DEF n
  <1>3. r = [i \in 1..n |-> Stored(cs[i])]
    BY <1>1 DEF StoredChanges
  <1> HIDE DEF r
  <1>4. r \in [1..n -> Changes]
    BY <1>2, <1>3
  <1>5. r \in Seq(Changes) /\ Len(r) = n
    BY <1>1, <1>4, SeqDef
  <1>6. \A k \in 1..n : r[k] = Stored(cs[k])
    BY <1>3
  <1> QED BY <1>5, <1>6 DEF r, n

\* What an edit does to the text, the replay and the history.
LEMMA ShowTypes ==
    ASSUME Inv, NEW e \in Edits, Show(e)
    PROVE  /\ skeleton' \in Skeletons
           /\ shown' \in Texts
           /\ base' \in Texts
           /\ newer' = TRUE
           /\ replay' \in LinesDocument
           /\ stray' \in 0..MaxStray
PROOF
  <1>1. e.text \in Texts /\ e.changes \in Seq(Changes)
    BY DEF Edits
  <1>2. /\ shown' = e.text
        /\ newer' = TRUE /\ replay' = FoldLeft(Apply, replay, StoredChanges(e.changes))
        /\ skeleton' = skeleton /\ base' = base
        /\ stray' = 0 \/ stray' = stray + 1
        /\ stray' <= MaxStray
    BY DEF Show, LogChanges
  <1>3. skeleton \in Skeletons /\ base \in Texts /\ stray \in 0..MaxStray /\ replay \in LinesDocument
    BY DEF Inv, TypeOK
  <1>4. replay' \in LinesDocument
    BY <1>1, <1>2, <1>3, StoredTypes, ReplayTypes
  <1>5. stray' \in 0..MaxStray
    BY <1>2, <1>3, TextAssumption
  <1> QED BY <1>1, <1>2, <1>3, <1>4, <1>5

LEMMA ShowKeeps ==
    ASSUME Inv, NEW e \in Edits, Show(e), UndoInv'
    PROVE  Inv'
PROOF
  <1>1. /\ skeleton' \in Skeletons /\ shown' \in Texts /\ base' \in Texts /\ newer' = TRUE
        /\ replay' \in LinesDocument /\ stray' \in 0..MaxStray
    BY ShowTypes
  <1>2. replay' \in Document
    BY <1>1, LinesDocumentIsDocument
  <1>3. Len(undoStack') \in 0..MaxUndo /\ Len(redoStack') \in 0..MaxUndo
    BY LenProperties, TextAssumption DEF UndoInv
  <1>4. TypeOK'
    BY <1>1, <1>2, <1>3 DEF TypeOK
  <1> QED BY <1>1, <1>4 DEF Inv

LEMMA ExecuteKeeps ==
    ASSUME Inv, NEW e \in Edits, Execute(e)
    PROVE  Inv'
PROOF
  <1>1. /\ Show(e) /\ Len(undoStack) < MaxUndo
        /\ undoStack' = Append(undoStack, e.changes) /\ redoStack' = <<>>
    BY DEF Execute
  <1>2. undoStack \in Seq(Seq(Changes)) /\ e.changes \in Seq(Changes) /\ MaxUndo \in Nat
    BY TextAssumption DEF Inv, UndoInv, Edits
  <1>3. /\ undoStack' \in Seq(Seq(Changes)) /\ Len(undoStack') = Len(undoStack) + 1
        /\ Len(undoStack) \in Nat
    BY <1>1, <1>2, AppendProperties, LenProperties
  <1>4. redoStack' \in Seq(Seq(Changes)) /\ Len(redoStack') = 0
    BY <1>1, EmptySeq
  <1>5. UndoInv'
    BY <1>1, <1>2, <1>3, <1>4 DEF UndoInv
  <1> QED BY <1>1, <1>5, ShowKeeps

LEMMA TopTypes ==
    ASSUME NEW stack \in Seq(Seq(Changes)), stack # <<>>
    PROVE  /\ Last(stack) \in Seq(Changes)
           /\ Front(stack) \in Seq(Seq(Changes))
           /\ Len(Front(stack)) = Len(stack) - 1
           /\ Len(stack) \in Nat \ {0}
PROOF
  <1>1. Len(stack) \in Nat \ {0}
    BY EmptySeq
  <1>2. Last(stack) \in Seq(Changes)
    BY <1>1, ElementOfSeq DEF Last
  <1> DEFINE h == Len(stack) - 1
  <1>3. h \in Nat /\ h <= Len(stack)
    BY <1>1
  <1> HIDE DEF h
  <1>4. /\ SubSeq(stack, 1, h) \in Seq(Seq(Changes))
        /\ Len(SubSeq(stack, 1, h)) = IF 1 <= h THEN h - 1 + 1 ELSE 0
    BY <1>3, PartOfSeq
  <1>5. Len(SubSeq(stack, 1, h)) = h
    <2>1. \A k \in Nat : (IF 1 <= k THEN k - 1 + 1 ELSE 0) = k
      OBVIOUS
    <2> QED BY <1>3, <1>4, <2>1
  <1>6. Front(stack) = SubSeq(stack, 1, h)
    BY DEF Front, h
  <1> QED BY <1>1, <1>2, <1>4, <1>5, <1>6 DEF h

LEMMA UndoKeeps ==
    ASSUME Inv, Undo
    PROVE  Inv'
PROOF
  <1> DEFINE done == Last(undoStack)
             reversed == [i \in DOMAIN done |-> Reversed(done[i])]
             e == Deltas(shown, Reverse(reversed))
  <1>1. /\ Show(e) /\ undoStack # <<>>
        /\ redoStack' = Append(redoStack, done) /\ undoStack' = Front(undoStack)
    BY DEF Undo
  <1>2. /\ undoStack \in Seq(Seq(Changes)) /\ redoStack \in Seq(Seq(Changes))
        /\ Len(undoStack) + Len(redoStack) <= MaxUndo /\ MaxUndo \in Nat /\ shown \in Texts
    BY TextAssumption DEF Inv, UndoInv, TypeOK
  <1>3. /\ done \in Seq(Changes)
        /\ Front(undoStack) \in Seq(Seq(Changes))
        /\ Len(Front(undoStack)) = Len(undoStack) - 1
        /\ Len(undoStack) \in Nat \ {0}
    BY <1>1, <1>2, TopTypes
  <1>4. e \in Edits
    <2>1. DOMAIN done = 1..Len(done) /\ Len(done) \in Nat
      BY <1>3, LenProperties
    <2>2. \A i \in 1..Len(done) : Reversed(done[i]) \in Changes
      BY <1>3, ElementOfSeq, ReversedTypes
    <2> HIDE DEF done
    <2>3. reversed \in [1..Len(done) -> Changes]
      BY <2>1, <2>2
    <2>4. reversed \in Seq(Changes) /\ Len(reversed) = Len(done)
      BY <2>1, <2>3, SeqDef
    <2> HIDE DEF reversed
    <2>5. \A i \in 1..Len(reversed) : reversed[Len(reversed) - i + 1] \in Changes
      BY <2>1, <2>4, ElementOfSeq
    <2>6. Reverse(reversed) \in [1..Len(reversed) -> Changes]
      BY <2>5 DEF Reverse
    <2>7. Reverse(reversed) \in Seq(Changes)
      BY <2>1, <2>4, <2>6, SeqDef
    <2> QED BY <1>2, <2>7, DeltasTypes
  <1> HIDE DEF e, done
  <1>5. /\ redoStack' \in Seq(Seq(Changes)) /\ Len(redoStack') = Len(redoStack) + 1
        /\ Len(redoStack) \in Nat
    BY <1>1, <1>2, <1>3, AppendProperties, LenProperties
  <1>6. UndoInv'
    BY <1>1, <1>2, <1>3, <1>5 DEF UndoInv
  <1> QED BY <1>1, <1>4, <1>6, ShowKeeps

LEMMA RedoKeeps ==
    ASSUME Inv, Redo
    PROVE  Inv'
PROOF
  <1> DEFINE undone == Last(redoStack)
             e == Deltas(shown, undone)
  <1>1. /\ Show(e) /\ redoStack # <<>>
        /\ undoStack' = Append(undoStack, undone) /\ redoStack' = Front(redoStack)
    BY DEF Redo
  <1>2. /\ undoStack \in Seq(Seq(Changes)) /\ redoStack \in Seq(Seq(Changes))
        /\ Len(undoStack) + Len(redoStack) <= MaxUndo /\ MaxUndo \in Nat /\ shown \in Texts
    BY TextAssumption DEF Inv, UndoInv, TypeOK
  <1>3. /\ undone \in Seq(Changes)
        /\ Front(redoStack) \in Seq(Seq(Changes))
        /\ Len(Front(redoStack)) = Len(redoStack) - 1
        /\ Len(redoStack) \in Nat \ {0}
    BY <1>1, <1>2, TopTypes
  <1>4. e \in Edits
    BY <1>2, <1>3, DeltasTypes
  <1> HIDE DEF e, undone
  <1>5. /\ undoStack' \in Seq(Seq(Changes)) /\ Len(undoStack') = Len(undoStack) + 1
        /\ Len(undoStack) \in Nat
    BY <1>1, <1>2, <1>3, AppendProperties, LenProperties
  <1>6. UndoInv'
    BY <1>1, <1>2, <1>3, <1>5 DEF UndoInv
  <1> QED BY <1>1, <1>4, <1>6, ShowKeeps

LEMMA StoreKeeps ==
    ASSUME Inv, NEW t \in Texts, StoreFullText(t), shown' \in Texts, UndoInv'
    PROVE  Inv'
PROOF
  <1>1. /\ base' = t /\ newer' = FALSE /\ skeleton' = skeleton
        /\ replay' = [lines |-> SetText(t), broken |-> FALSE]
        /\ stray' = 0 \/ stray' = 1
    BY DEF StoreFullText
  <1>2. replay' \in LinesDocument /\ replay' \in Document /\ ~replay'.broken
    BY <1>1, SetTextTypes, LinesDocumentIsDocument
  <1>3. stray' \in 0..MaxStray
    BY <1>1, TextAssumption
  <1>4. Len(undoStack') \in 0..MaxUndo /\ Len(redoStack') \in 0..MaxUndo
    BY LenProperties, TextAssumption DEF UndoInv
  <1>5. skeleton' \in Skeletons
    BY <1>1 DEF Inv, TypeOK
  <1>6. TypeOK'
    BY <1>1, <1>2, <1>3, <1>4, <1>5 DEF TypeOK
  <1> QED BY <1>2, <1>6 DEF Inv

LEMMA NothingToUndo ==
    ASSUME NEW t, SetValue(t)
    PROVE  UndoInv' /\ shown' = t /\ Len(undoStack') = 0 /\ Len(redoStack') = 0
PROOF
  <1>1. undoStack' = <<>> /\ redoStack' = <<>> /\ shown' = t /\ Len(<<>>) = 0
    BY EmptySeq DEF SetValue
  <1> QED BY <1>1, EmptySeq, TextAssumption DEF UndoInv

LEMMA LoadedTypes ==
    ASSUME Inv
    PROVE  Loaded \in Texts
PROOF
  <1>1. base \in Texts /\ replay.lines \in Seq(Texts)
    BY DEF Inv, TypeOK, Document
  <1>2. FlattenSeq(replay.lines) \in Texts
    BY <1>1, FlattenTypes DEF Texts
  <1> QED BY <1>1, <1>2 DEF Loaded

LEMMA InvStep == Inv /\ [Next]_vars => Inv'
PROOF
  <1> SUFFICES ASSUME Inv, [Next]_vars PROVE Inv'
    OBVIOUS
  <1>1. shown \in Texts /\ skeleton \in Texts /\ Len(shown) \in Nat
    BY SkeletonsAreTexts, NewlinesOfText DEF Inv, TypeOK
  <1>2. ASSUME NEW p \in 0..MaxLength, NEW t \in Pastes, TypeAt(p, t)
        PROVE  Inv'
    <2>1. p \in 0..Len(shown) /\ t \in Texts
      BY <1>1, <1>2, SkeletonsAreTexts, TextAssumption DEF TypeAt
    <2>2. Insertion(shown, p, t) \in Edits
      BY <1>1, <2>1, InsertionTypes
    <2> QED BY <1>2, <2>2, ExecuteKeeps DEF TypeAt
  <1>3. ASSUME NEW p \in 0..MaxDocument, NEW q \in 0..MaxDocument, Delete(p, q)
        PROVE  Inv'
    <2>1. p \in 0..Len(shown) /\ q \in 0..Len(shown) /\ p <= q
      BY <1>1, <1>3, TextAssumption DEF Delete
    <2>2. Removal(shown, p, q) \in Edits
      BY <1>1, <2>1, RemovalTypes
    <2> QED BY <1>3, <2>2, ExecuteKeeps DEF Delete
  <1>4. CASE Submit
    <2>1. StoreFullText(shown) /\ shown' = shown /\ undoStack' = undoStack /\ redoStack' = redoStack
      BY <1>4 DEF Submit, undoVars
    <2>2. UndoInv'
      BY <2>1 DEF Inv, UndoInv
    <2> QED BY <1>1, <2>1, <2>2, StoreKeeps
  <1>5. CASE Reset
    <2>1. StoreFullText(skeleton) /\ SetValue(skeleton)
      BY <1>5 DEF Reset
    <2> QED BY <1>1, <2>1, NothingToUndo, StoreKeeps
  <1>6. CASE Load
    <2>1. /\ SetValue(Loaded)
          /\ skeleton' = skeleton /\ base' = base /\ newer' = newer
          /\ replay' = replay /\ stray' = stray
      BY <1>6 DEF Load
    <2>2. UndoInv' /\ shown' \in Texts /\ Len(undoStack') = 0 /\ Len(redoStack') = 0
      BY <2>1, NothingToUndo, LoadedTypes
    <2> QED BY <2>1, <2>2, TextAssumption DEF Inv, TypeOK
  <1>7. CASE UNCHANGED vars
    BY <1>7 DEF Inv, TypeOK, UndoInv, vars, undoVars
  <1>8. CASE Undo
    BY <1>8, UndoKeeps
  <1>9. CASE Redo
    BY <1>9, RedoKeeps
  <1> QED BY <1>2, <1>3, <1>4, <1>5, <1>6, <1>7, <1>8, <1>9 DEF Next

LEMMA TextInv == Spec => []Inv
PROOF
  <1> QED BY InvInit, InvStep, PTL DEF Spec

-----------------------------------------------------------------------------
(* The theorems.                                                           *)

\* A text in the editor, a stored text and a line of the document are texts, and
\* what can be undone or done again is bounded by the edits of the visit,
\* whatever was typed, removed, undone and loaded again (insert, remove,
\* applyDeltas and revertDeltas of Ace; loadCurrentText).
THEOREM TextTypes == Spec => []TypeOK
PROOF
  <1>1. Inv => TypeOK
    BY DEF Inv
  <1> QED BY <1>1, TextInv, PTL

\* The integrity check at the end of ApplyChangeToTextDocument.apply never
\* fails: no line of the document ever has a newline before its end.
THEOREM LinesStayWhole == Spec => []LineIntegrity
PROOF
  <1>1. Inv => LineIntegrity
    <2> SUFFICES ASSUME Inv, NEW i \in 1..Len(replay.lines)
                 PROVE  Newlines(replay.lines[i]) \subseteq {Len(replay.lines[i])}
      BY DEF LineIntegrity
    <2>1. replay.lines \in Seq(DocumentLines)
      BY DEF Inv, LinesDocument
    <2>2. replay.lines[i] \in DocumentLines
      BY <2>1, ElementOfSeq
    <2> QED BY <2>2 DEF DocumentLines
  <1> QED BY <1>1, TextInv, PTL
=============================================================================
