--------------------------- MODULE LoadedTextProofs ----------------------------
(***************************************************************************)
(* The next visit shows the text that the last one left, for all bounds    *)
(* and all texts, as long as the edits are of the kinds for which the      *)
(* replay can be relied on: those that remove a part of a line are not.    *)
(***************************************************************************)
EXTENDS ProgramTextProofs

-----------------------------------------------------------------------------
(* What a change does to a document that shows a text: insertions.         *)

\* The document shows the text.
Shows(doc, t, full) == doc \in LinesDocument /\ ~doc.broken /\ Agrees(doc.lines, t, full)

\* A change that is applicable leaves a document that shows what Applied makes.
LEMMA ApplyShows ==
    ASSUME NEW doc \in LinesDocument, ~doc.broken, NEW ch \in Changes,
           Applicable(ch, doc.lines),
           NEW t, NEW full, Agrees(Applied(ch, doc.lines), t, full)
    PROVE  Shows(Apply(doc, ch), t, full)
PROOF
  <1>1. Apply(doc, ch) = [doc EXCEPT !.lines = Applied(ch, @)]
    BY DEF Apply
  <1>2. Apply(doc, ch).lines = Applied(ch, doc.lines) /\ ~Apply(doc, ch).broken
    BY <1>1 DEF LinesDocument
  <1>3. Apply(doc, ch) \in LinesDocument
    BY ApplyTypes
  <1> QED BY <1>2, <1>3 DEF Shows

\* What a document that shows a text consists of.
LEMMA ShowsParts ==
    ASSUME NEW doc, NEW t, NEW full, Shows(doc, t, full)
    PROVE  /\ doc \in LinesDocument /\ ~doc.broken /\ doc.lines \in Seq(DocumentLines)
           /\ \E h \in Seq(EndedLines), e \in Ends :
                 /\ doc.lines = h ++ e
                 /\ t = FlattenSeq(h) ++ FlattenSeq(e)
                 /\ full => e # <<>>
PROOF
  BY DEF Shows, Agrees, LinesDocument

\* A line of the document that ends in a newline and the place within it.
InLine(h, e, u, v, row, col) ==
    \E h1, h2 \in Seq(EndedLines), x, y \in Lines :
        /\ h ++ e = h1 ++ (<<x ++ (y ++ <<NL>>)>> ++ (h2 ++ e))
        /\ Len(h1) = row /\ Len(x) = col
        /\ u = FlattenSeq(h1) ++ x
        /\ v = y ++ (<<NL>> ++ (FlattenSeq(h2) ++ FlattenSeq(e)))

LEMMA WithinLines ==
    ASSUME NEW h \in Seq(EndedLines), NEW e \in Ends, NEW u \in Texts, NEW v \in Texts,
           NEW row, NEW col, Within(h, e, u, v, row, col)
    PROVE  InLine(h, e, u, v, row, col)
PROOF
  <1> USE DEF InLine
  <1>1. PICK h1 \in Seq(EndedLines), h2 \in Seq(EndedLines), x \in Lines, y \in Lines :
              /\ h = h1 ++ (<<(x ++ y) ++ <<NL>>>> ++ h2)
              /\ Len(h1) = row /\ Len(x) = col
              /\ u = FlattenSeq(h1) ++ x
              /\ v = y ++ (<<NL>> ++ (FlattenSeq(h2) ++ FlattenSeq(e)))
    BY DEF Within
  <1>2. (x ++ y) ++ <<NL>> = x ++ (y ++ <<NL>>)
    BY LinesAreTexts, Regroup
  <1> DEFINE z == (x ++ y) ++ <<NL>>
             o == <<z>>
  <1>3. z \in EndedLines
    <2>1. x ++ y \in Lines
      BY LinesAreTexts, SumIsLine
    <2> QED BY <2>1, EndedLine
  <1>4. o \in Seq(EndedLines)
    BY <1>3, OneElement
  <1>5. h1 \in Seq(Texts) /\ h2 \in Seq(Texts) /\ e \in Seq(Texts) /\ o \in Seq(Texts)
    <2> HIDE DEF o
    <2> QED BY <1>4, EndedDocument, EndOfDocument
  <1>6. h = h1 ++ (o ++ h2)
    BY <1>1
  <1>7. h ++ e = h1 ++ (o ++ (h2 ++ e))
    <2> HIDE DEF o
    <2>1. o ++ h2 \in Seq(Texts)
      BY <1>5, SumLength
    <2>2. (h1 ++ (o ++ h2)) ++ e = h1 ++ ((o ++ h2) ++ e)
      BY <1>5, <2>1, RegroupSeqs
    <2>3. (o ++ h2) ++ e = o ++ (h2 ++ e)
      BY <1>5, RegroupSeqs
    <2> QED BY <1>6, <2>2, <2>3
  <1>8. h ++ e = h1 ++ (<<x ++ (y ++ <<NL>>)>> ++ (h2 ++ e))
    BY <1>2, <1>7
  <1> QED BY <1>1, <1>8

\* Text inserted at a place in a line.
LEMMA InsertedWithin ==
    ASSUME NEW a \in Seq(DocumentLines), NEW x \in Texts, NEW y \in Texts,
           NEW b \in Seq(DocumentLines), x ++ y \in DocumentLines, NEW t \in Texts
    PROVE  /\ Applicable(InsertText(Len(a), Len(x), t), a ++ (<<x ++ y>> ++ b))
           /\ Applied(InsertText(Len(a), Len(x), t), a ++ (<<x ++ y>> ++ b))
                 = ChangeLine(a ++ (<<x ++ y>> ++ b), Len(a), x ++ (t ++ y))
PROOF
  <1> DEFINE lines == a ++ (<<x ++ y>> ++ b)
             ch == InsertText(Len(a), Len(x), t)
             z == x ++ y
  <1>1. Len(lines) = Len(a) + 1 + Len(b) /\ Len(a) \in Nat /\ Len(b) \in Nat
    BY AroundLength
  <1>2. lines[Len(a) + 1] = z
    BY AroundAt
  <1> HIDE DEF lines
  <1>3. Padded(lines, Len(a)) = lines
    BY <1>1 DEF Padded
  <1>4. ch.type = "insertText" /\ ch.row = Len(a) /\ ch.from = Len(x) /\ ch.text = t
    BY DEF InsertText, Change
  <1> HIDE DEF ch
  <1>5. Len(z) = Len(x) + Len(y) /\ Len(x) \in Nat /\ Len(y) \in Nat
    BY SumOfTwo
  <1>6. Applicable(ch, lines)
    BY <1>1, <1>2, <1>3, <1>4, <1>5 DEF Applicable, ApplicableWith
  <1>7. Applied(ch, lines) = Inserted(lines, Len(a), Len(x), t)
    BY <1>4 DEF Applied
  <1>8. SubSeq(z, 1, Len(x)) = x /\ SubSeq(z, Len(x) + 1, Len(z)) = y
    BY PartsOf
  <1>9. x \o t \o y = x ++ (t ++ y)
    BY Regroup DEF ++
  <1>10. Inserted(lines, Len(a), Len(x), t) = ChangeLine(lines, Len(a), x ++ (t ++ y))
    <2> HIDE DEF z
    <2> QED BY <1>2, <1>3, <1>8, <1>9 DEF Inserted
  <1> QED BY <1>6, <1>7, <1>10 DEF ch, lines

\* Text inserted behind all lines gets a line of its own.
LEMMA InsertedBehind ==
    ASSUME NEW a \in Seq(DocumentLines), NEW t \in Texts
    PROVE  /\ Applicable(InsertText(Len(a), 0, t), a)
           /\ Applied(InsertText(Len(a), 0, t), a)
                 = ChangeLine(a ++ (<<<<>>>> ++ <<>>), Len(a), t)
PROOF
  <1> DEFINE lines == a ++ (<<<<>>>> ++ <<>>)
             ch == InsertText(Len(a), 0, t)
  <1>1. <<>> \in Seq(DocumentLines) /\ <<>> \in DocumentLines /\ <<>> \in Texts /\ Len(<<>>) = 0
    BY EmptySeq, EmptyLine, SumOfTexts
  <1>2. Padded(a, Len(a)) = lines
    <2>1. Append(a, <<>>) = a ++ <<<<>>>>
      BY <1>1, AppendIsConcat DEF ++
    <2>2. <<<<>>>> ++ <<>> = <<<<>>>>
      BY <1>1, OneElement, ConcatEmptySeq DEF ++
    <2> QED BY <2>1, <2>2 DEF Padded
  <1>3. lines[Len(a) + 1] = <<>>
    BY <1>1, AroundAt
  <1> HIDE DEF lines
  <1>4. ch.type = "insertText" /\ ch.row = Len(a) /\ ch.from = 0 /\ ch.text = t
    BY DEF InsertText, Change
  <1> HIDE DEF ch
  <1>5. Len(a) \in Nat
    BY LenProperties
  <1>6. Applicable(ch, a)
    BY <1>1, <1>2, <1>3, <1>4, <1>5 DEF Applicable, ApplicableWith
  <1>7. Applied(ch, a) = Inserted(a, Len(a), 0, t)
    BY <1>4 DEF Applied
  <1>8. SubSeq(<<>>, 1, 0) = <<>> /\ SubSeq(<<>>, 0 + 1, Len(<<>>)) = <<>>
    BY <1>1, SubSeqEmpty
  <1>9. <<>> \o t \o <<>> = t
    BY ConcatEmptySeq DEF Texts
  <1>10. Inserted(a, Len(a), 0, t) = ChangeLine(lines, Len(a), t)
    BY <1>2, <1>3, <1>8, <1>9 DEF Inserted
  <1> QED BY <1>6, <1>7, <1>10 DEF ch, lines

\* A single element with nothing behind it.
LEMMA NothingBehind ==
    ASSUME NEW S, NEW z \in S
    PROVE  <<z>> ++ <<>> = <<z>>
PROOF
  <1> DEFINE o == <<z>>
  <1>1. o \in Seq(S)
    OBVIOUS
  <1> HIDE DEF o
  <1>2. o ++ <<>> = o
    BY <1>1, ConcatEmptySeq DEF ++
  <1> QED BY <1>2 DEF o

\* INSERT_TEXT of a part of a line.
LEMMA LineInserted ==
    ASSUME NEW u \in Texts, NEW v \in Texts, NEW row, NEW col, Place(u, row, col),
           NEW l \in Lines, NEW full \in BOOLEAN, NEW doc, Shows(doc, u ++ v, full)
    PROVE  Shows(Apply(doc, InsertText(row, col, l)), u ++ (l ++ v), full)
PROOF
  <1> DEFINE ch == InsertText(row, col, l)
             new == u ++ (l ++ v)
  <1>1. /\ doc \in LinesDocument /\ ~doc.broken /\ doc.lines \in Seq(DocumentLines)
        /\ l \in Texts /\ <<NL>> \in Texts /\ row \in Nat /\ col \in Nat
    BY ShowsParts, LinesAreTexts, PlaceIs
  <1>2. ch \in Changes
    BY <1>1, OneChange
  <1>3. PICK h \in Seq(EndedLines), e \in Ends :
              doc.lines = h ++ e /\ u ++ v = FlattenSeq(h) ++ FlattenSeq(e) /\ (full => e # <<>>)
    BY ShowsParts
  <1> SUFFICES Applicable(ch, doc.lines) /\ Agrees(Applied(ch, doc.lines), new, full)
    BY <1>1, <1>2, ApplyShows
  <1> HIDE DEF ch
  <1>4. CASE Within(h, e, u, v, row, col)
    <2>1. PICK h1 \in Seq(EndedLines), h2 \in Seq(EndedLines), x \in Lines, y \in Lines :
              /\ h ++ e = h1 ++ (<<x ++ (y ++ <<NL>>)>> ++ (h2 ++ e))
              /\ Len(h1) = row /\ Len(x) = col
              /\ u = FlattenSeq(h1) ++ x
              /\ v = y ++ (<<NL>> ++ (FlattenSeq(h2) ++ FlattenSeq(e)))
      BY <1>4, WithinLines DEF InLine
    <2> DEFINE b == h2 ++ e
               q == FlattenSeq(h2) ++ FlattenSeq(e)
               yn == y ++ <<NL>>
               k == x ++ (l ++ y)
    <2>2. /\ x \in Texts /\ y \in Texts /\ yn \in Texts /\ k \in Lines /\ l ++ y \in Texts
          /\ h1 \in Seq(DocumentLines) /\ b \in Seq(DocumentLines)
          /\ FlattenSeq(h1) \in Texts /\ q \in Texts /\ <<NL>> ++ q \in Texts
      BY <1>1, LinesAreTexts, SumIsLine, SumOfTwo, DocumentParts, EndedLine
    <2>3. x ++ yn \in DocumentLines
      <3>1. (x ++ y) ++ <<NL>> = x ++ yn /\ x ++ y \in Lines
        BY <1>1, <2>2, SumIsLine, Regroup
      <3>2. (x ++ y) ++ <<NL>> \in DocumentLines
        BY <3>1, EndedLine
      <3> QED BY <3>1, <3>2
    <2>4. k ++ <<NL>> \in DocumentLines
      BY <2>2, EndedLine
    <2>5. x ++ (l ++ yn) = k ++ <<NL>>
      <3>1. (x ++ (l ++ y)) ++ <<NL>> = x ++ ((l ++ y) ++ <<NL>>)
        BY <1>1, <2>2, Regroup
      <3>2. (l ++ y) ++ <<NL>> = l ++ (y ++ <<NL>>)
        BY <1>1, <2>2, Regroup
      <3> QED BY <3>1, <3>2
    <2>6. Agrees(h1 ++ (<<k ++ <<NL>>>> ++ b), FlattenSeq(h1) ++ (k ++ (<<NL>> ++ q)), e # <<>>)
      BY <2>2, AgreesAround
    <2>7. new = FlattenSeq(h1) ++ (k ++ (<<NL>> ++ q))
      <3>1. (FlattenSeq(h1) ++ x) ++ (l ++ v) = FlattenSeq(h1) ++ (x ++ (l ++ v))
        BY <1>1, <2>2, SumOfTwo, Regroup
      <3>2. (x ++ (l ++ y)) ++ (<<NL>> ++ q) = x ++ ((l ++ y) ++ (<<NL>> ++ q))
        BY <2>2, Regroup
      <3>3. (l ++ y) ++ (<<NL>> ++ q) = l ++ (y ++ (<<NL>> ++ q))
        BY <1>1, <2>2, Regroup
      <3> QED BY <2>1, <3>1, <3>2, <3>3
    <2> HIDE DEF b, q, yn, k
    <2>8. doc.lines = h1 ++ (<<x ++ yn>> ++ b)
      BY <1>3, <2>1 DEF b, yn
    <2>9. ch = InsertText(Len(h1), Len(x), l)
      BY <2>1 DEF ch
    <2>10. /\ Applicable(ch, doc.lines)
           /\ Applied(ch, doc.lines) = ChangeLine(h1 ++ (<<x ++ yn>> ++ b), Len(h1), x ++ (l ++ yn))
      BY <1>1, <2>2, <2>3, <2>8, <2>9, InsertedWithin
    <2>11. Applied(ch, doc.lines) = h1 ++ (<<k ++ <<NL>>>> ++ b)
      BY <2>2, <2>3, <2>4, <2>5, <2>10, ChangeLineOne
    <2>12. Agrees(Applied(ch, doc.lines), new, full)
      BY <1>3, <2>6, <2>7, <2>11 DEF Agrees
    <2> QED BY <2>10, <2>12
  <1>5. CASE OnLast(h, e, u, v, row, col)
    <2>1. PICK x \in Lines, y \in Lines :
              /\ e = <<x ++ y>> /\ Len(h) = row /\ Len(x) = col
              /\ u = FlattenSeq(h) ++ x /\ v = y
      BY <1>5 DEF OnLast
    <2> DEFINE k == x ++ (l ++ y)
    <2>2. /\ x \in Texts /\ y \in Texts /\ k \in Lines /\ x ++ y \in Lines
          /\ h \in Seq(DocumentLines) /\ <<>> \in Seq(DocumentLines)
          /\ FlattenSeq(h) \in Texts
      BY <1>1, LinesAreTexts, SumIsLine, SumOfTwo, EndedDocument, EmptySeq
    <2>3. x ++ y \in DocumentLines /\ k \in DocumentLines
      BY <2>2, LineOfDocument
    <2>4. Agrees(h ++ <<k>>, FlattenSeq(h) ++ k, TRUE)
      BY <2>2, AgreesLast
    <2>5. new = FlattenSeq(h) ++ k
      BY <1>1, <2>1, <2>2, SumOfTwo, Regroup
    <2> HIDE DEF k
    <2>6. doc.lines = h ++ (<<x ++ y>> ++ <<>>)
      BY <1>3, <2>1, <2>3, NothingBehind
    <2>7. ch = InsertText(Len(h), Len(x), l)
      BY <2>1 DEF ch
    <2>8. /\ Applicable(ch, doc.lines)
          /\ Applied(ch, doc.lines) = ChangeLine(h ++ (<<x ++ y>> ++ <<>>), Len(h), x ++ (l ++ y))
      <3> DEFINE b == <<>>
      <3>1. b \in Seq(DocumentLines)
        BY <2>2
      <3> HIDE DEF b
      <3>2. /\ Applicable(InsertText(Len(h), Len(x), l), h ++ (<<x ++ y>> ++ b))
            /\ Applied(InsertText(Len(h), Len(x), l), h ++ (<<x ++ y>> ++ b))
                  = ChangeLine(h ++ (<<x ++ y>> ++ b), Len(h), x ++ (l ++ y))
        BY <1>1, <2>2, <2>3, <3>1, InsertedWithin
      <3> QED BY <2>6, <2>7, <3>2 DEF b
    <2>9. Applied(ch, doc.lines) = h ++ (<<k>> ++ <<>>)
      BY <2>2, <2>3, <2>8, ChangeLineOne DEF k
    <2>10. Applied(ch, doc.lines) = h ++ <<k>>
      BY <2>3, <2>9, NothingBehind
    <2>11. Agrees(Applied(ch, doc.lines), new, full)
      BY <2>4, <2>5, <2>10 DEF Agrees
    <2> QED BY <2>8, <2>11
  <1>6. CASE Behind(h, e, u, v, row, col)
    <2>1. e = <<>> /\ Len(h) = row /\ col = 0 /\ u = FlattenSeq(h) /\ v = <<>> /\ ~full
      BY <1>3, <1>6 DEF Behind
    <2>2. h \in Seq(DocumentLines) /\ doc.lines = h /\ <<>> \in Seq(DocumentLines) /\ <<>> \in DocumentLines
          /\ l \in DocumentLines
      <3>1. h ++ <<>> = h
        BY ConcatEmptySeq DEF ++
      <3> QED BY <1>3, <2>1, <3>1, EndedDocument, EmptySeq, EmptyLine, LineOfDocument
    <2>3. ch = InsertText(Len(h), 0, l)
      BY <2>1 DEF ch
    <2>4. /\ Applicable(ch, doc.lines)
          /\ Applied(ch, doc.lines) = ChangeLine(h ++ (<<<<>>>> ++ <<>>), Len(h), l)
      BY <1>1, <2>2, <2>3, InsertedBehind
    <2>5. Applied(ch, doc.lines) = h ++ (<<l>> ++ <<>>)
      <3> DEFINE s == <<>>
      <3>1. s \in DocumentLines /\ s \in Seq(DocumentLines)
        BY <2>2
      <3> HIDE DEF s
      <3>2. ChangeLine(h ++ (<<s>> ++ s), Len(h), l) = h ++ (<<l>> ++ s)
        BY <2>2, <3>1, ChangeLineOne
      <3> QED BY <2>4, <3>2 DEF s
    <2>6. Applied(ch, doc.lines) = h ++ <<l>>
      BY <2>2, <2>5, NothingBehind
    <2>7. Agrees(h ++ <<l>>, FlattenSeq(h) ++ l, TRUE)
      BY AgreesLast
    <2>8. new = FlattenSeq(h) ++ l
      BY <1>1, <2>1, SumOfTexts
    <2>9. Agrees(Applied(ch, doc.lines), new, full)
      BY <2>6, <2>7, <2>8 DEF Agrees
    <2> QED BY <2>4, <2>9
  <1> QED BY <1>3, <1>4, <1>5, <1>6, Locate

\* INSERT_TEXT of a newline: at the end of the text, or in a line that ends in one.
LEMMA NewlineInserted ==
    ASSUME NEW u \in Texts, NEW v \in Texts, NEW row, NEW col, Place(u, row, col),
           v = <<>> \/ Rows(v) # 0, NEW doc, Shows(doc, u ++ v, FALSE)
    PROVE  Shows(Apply(doc, InsertText(row, col, <<NL>>)), u ++ (<<NL>> ++ v), FALSE)
PROOF
  <1> DEFINE ch == InsertText(row, col, <<NL>>)
             new == u ++ (<<NL>> ++ v)
  <1>1. /\ doc \in LinesDocument /\ ~doc.broken /\ doc.lines \in Seq(DocumentLines)
        /\ <<NL>> \in Texts /\ row \in Nat /\ col \in Nat
    BY ShowsParts, LinesAreTexts, PlaceIs
  <1>2. ch \in Changes
    BY <1>1, OneChange
  <1>3. PICK h \in Seq(EndedLines), e \in Ends :
              doc.lines = h ++ e /\ u ++ v = FlattenSeq(h) ++ FlattenSeq(e)
    BY DEF Shows, Agrees
  <1> SUFFICES Applicable(ch, doc.lines) /\ Agrees(Applied(ch, doc.lines), new, FALSE)
    BY <1>1, <1>2, ApplyShows
  <1> HIDE DEF ch
  <1>4. CASE Within(h, e, u, v, row, col)
    <2>1. PICK h1 \in Seq(EndedLines), h2 \in Seq(EndedLines), x \in Lines, y \in Lines :
              /\ h ++ e = h1 ++ (<<x ++ (y ++ <<NL>>)>> ++ (h2 ++ e))
              /\ Len(h1) = row /\ Len(x) = col
              /\ u = FlattenSeq(h1) ++ x
              /\ v = y ++ (<<NL>> ++ (FlattenSeq(h2) ++ FlattenSeq(e)))
      BY <1>4, WithinLines DEF InLine
    <2> DEFINE b == h2 ++ e
               q == FlattenSeq(h2) ++ FlattenSeq(e)
               yn == y ++ <<NL>>
               xn == x ++ <<NL>>
               h3 == <<yn>> ++ h2
    <2>2. /\ x \in Texts /\ y \in Texts /\ yn \in Texts /\ yn \in EndedLines /\ xn \in DocumentLines
          /\ h1 \in Seq(DocumentLines) /\ b \in Seq(DocumentLines)
          /\ FlattenSeq(h1) \in Texts /\ FlattenSeq(h2) \in Texts /\ FlattenSeq(e) \in Texts
          /\ q \in Texts /\ <<NL>> ++ q \in Texts
      BY <1>1, LinesAreTexts, SumOfTwo, DocumentParts, EndedLine
    <2>3. x ++ yn \in DocumentLines
      <3>1. (x ++ y) ++ <<NL>> = x ++ yn /\ x ++ y \in Lines
        BY <1>1, <2>2, SumIsLine, Regroup
      <3>2. (x ++ y) ++ <<NL>> \in DocumentLines
        BY <3>1, EndedLine
      <3> QED BY <3>1, <3>2
    <2>4. h3 \in Seq(EndedLines) /\ FlattenSeq(h3) = yn ++ FlattenSeq(h2) /\ h3 ++ e = <<yn>> ++ b
      <3> DEFINE o == <<yn>>
      <3>1. o \in Seq(EndedLines) /\ FlattenSeq(o) = yn
        BY <2>2, OneElement, FlattenSum
      <3> HIDE DEF o, yn
      <3>2. /\ o ++ h2 \in Seq(EndedLines) /\ (o ++ h2) ++ e = o ++ (h2 ++ e)
            /\ FlattenSeq(o ++ h2) = FlattenSeq(o) ++ FlattenSeq(h2)
        BY <3>1, DocumentParts
      <3> QED BY <3>1, <3>2 DEF o
    <2> HIDE DEF h3
    <2>5. Agrees(h1 ++ (<<xn>> ++ (h3 ++ e)),
                 FlattenSeq(h1) ++ (x ++ (<<NL>> ++ (FlattenSeq(h3) ++ FlattenSeq(e)))), e # <<>>)
      BY <2>4, AgreesAround
    <2>6. new = FlattenSeq(h1) ++ (x ++ (<<NL>> ++ (FlattenSeq(h3) ++ FlattenSeq(e))))
      <3>1. (yn ++ FlattenSeq(h2)) ++ FlattenSeq(e) = yn ++ (FlattenSeq(h2) ++ FlattenSeq(e))
        BY <2>2, Regroup
      <3>2. (y ++ <<NL>>) ++ q = y ++ (<<NL>> ++ q)
        BY <1>1, <2>2, Regroup
      <3>3. FlattenSeq(h3) ++ FlattenSeq(e) = v
        BY <2>1, <2>4, <3>1, <3>2
      <3>4. (FlattenSeq(h1) ++ x) ++ (<<NL>> ++ v) = FlattenSeq(h1) ++ (x ++ (<<NL>> ++ v))
        <4>1. <<NL>> ++ v \in Texts
          BY <1>1, SumOfTwo
        <4> QED BY <2>2, <4>1, Regroup
      <3> QED BY <2>1, <3>3, <3>4
    <2>7. doc.lines = h1 ++ (<<x ++ yn>> ++ b)
      BY <1>3, <2>1
    <2> HIDE DEF b, q, yn, xn
    <2>8. ch = InsertText(Len(h1), Len(x), <<NL>>)
      BY <2>1 DEF ch
    <2>9. /\ Applicable(ch, doc.lines)
          /\ Applied(ch, doc.lines) = ChangeLine(h1 ++ (<<x ++ yn>> ++ b), Len(h1), x ++ (<<NL>> ++ yn))
      BY <1>1, <2>2, <2>3, <2>7, <2>8, InsertedWithin
    <2>10. Applied(ch, doc.lines) = h1 ++ (<<xn>> ++ (<<yn>> ++ b))
      BY <2>2, <2>3, <2>9, ChangeLineTwo DEF xn, yn
    <2>11. Agrees(Applied(ch, doc.lines), new, FALSE)
      <3>1. Agrees(Applied(ch, doc.lines), new, e # <<>>)
        BY <2>4, <2>5, <2>6, <2>10
      <3> QED BY <3>1, AgreesText
    <2> QED BY <2>9, <2>11
  <1>5. CASE OnLast(h, e, u, v, row, col)
    <2>1. PICK x \in Lines, y \in Lines :
              /\ e = <<x ++ y>> /\ Len(h) = row /\ Len(x) = col
              /\ u = FlattenSeq(h) ++ x /\ v = y
      BY <1>5 DEF OnLast
    <2>2. y = <<>>
      BY <2>1, RowsOfSum
    <2> DEFINE xn == x ++ <<NL>>
               b == <<>>
    <2>3. /\ x \in Texts /\ y \in Texts /\ x ++ y = x
          /\ x ++ y \in DocumentLines
          /\ h \in Seq(DocumentLines) /\ b \in Seq(DocumentLines)
          /\ FlattenSeq(h) \in Texts /\ h \in Seq(Texts)
          /\ xn \in EndedLines /\ xn \in DocumentLines /\ xn \in Texts
          /\ <<NL>> ++ y = <<NL>>
      BY <1>1, <2>2, LinesAreTexts, LineOfDocument, EndedDocument, EmptySeq, EndedLine, SumOfTexts
    <2>4. doc.lines = h ++ (<<x ++ y>> ++ b)
      BY <1>3, <2>1, <2>3, NothingBehind
    <2> HIDE DEF b
    <2>5. ch = InsertText(Len(h), Len(x), <<NL>>)
      BY <2>1 DEF ch
    <2>6. /\ Applicable(ch, doc.lines)
          /\ Applied(ch, doc.lines) = ChangeLine(h ++ (<<x ++ y>> ++ b), Len(h), x ++ (<<NL>> ++ y))
      BY <1>1, <2>3, <2>4, <2>5, InsertedWithin
    <2>7. Applied(ch, doc.lines) = h ++ (<<xn>> ++ b)
      BY <2>3, <2>6, ChangeLineOne
    <2>8. Applied(ch, doc.lines) = h ++ <<xn>>
      <3> HIDE DEF xn
      <3> QED BY <2>3, <2>7, NothingBehind DEF b
    <2>9. Agrees(h ++ <<xn>>, FlattenSeq(h) ++ xn, FALSE)
      <3> DEFINE o == <<xn>>
      <3>1. o \in Seq(EndedLines) /\ o \in Seq(Texts) /\ FlattenSeq(o) = xn
        BY <2>3, OneElement, FlattenSum
      <3> HIDE DEF o, xn
      <3>2. h ++ o \in Seq(EndedLines) /\ FlattenSeq(h ++ o) = FlattenSeq(h) ++ xn
        BY <2>3, <3>1, SumLength, FlattenOfTwo
      <3>3. Agrees(h ++ o, FlattenSeq(h ++ o), FALSE)
        BY <3>2, AgreesEnd
      <3> QED BY <3>2, <3>3 DEF o
    <2>10. new = FlattenSeq(h) ++ xn
      BY <1>1, <2>1, <2>3, Regroup
    <2>11. Agrees(Applied(ch, doc.lines), new, FALSE)
      BY <2>8, <2>9, <2>10
    <2> QED BY <2>6, <2>11
  <1>6. CASE Behind(h, e, u, v, row, col)
    <2>1. e = <<>> /\ Len(h) = row /\ col = 0 /\ u = FlattenSeq(h) /\ v = <<>>
      BY <1>6 DEF Behind
    <2>2. h \in Seq(DocumentLines) /\ doc.lines = h /\ <<>> \in Seq(DocumentLines) /\ <<>> \in DocumentLines
          /\ h \in Seq(Texts)
      <3>1. h ++ <<>> = h
        BY ConcatEmptySeq DEF ++
      <3> QED BY <1>3, <2>1, <3>1, EndedDocument, EmptySeq, EmptyLine
    <2>3. <<NL>> \in EndedLines /\ <<NL>> \in DocumentLines
      <3>1. <<>> \in Lines /\ <<>> ++ <<NL>> = <<NL>>
        BY <1>1, SumOfTexts DEF Lines
      <3>2. <<>> ++ <<NL>> \in EndedLines /\ <<>> ++ <<NL>> \in DocumentLines
        BY <3>1, EndedLine
      <3> QED BY <3>1, <3>2
    <2>4. ch = InsertText(Len(h), 0, <<NL>>)
      BY <2>1 DEF ch
    <2>5. /\ Applicable(ch, doc.lines)
          /\ Applied(ch, doc.lines) = ChangeLine(h ++ (<<<<>>>> ++ <<>>), Len(h), <<NL>>)
      BY <1>1, <2>2, <2>4, InsertedBehind
    <2> DEFINE n == <<NL>>
               o == <<n>>
    <2>6. n \in EndedLines /\ n \in DocumentLines /\ n \in Texts
      BY <1>1, <2>3
    <2>7. Applied(ch, doc.lines) = h ++ (<<n>> ++ <<>>)
      <3> DEFINE s == <<>>
      <3>1. s \in DocumentLines /\ s \in Seq(DocumentLines)
        BY <2>2
      <3> HIDE DEF n, s
      <3>2. ChangeLine(h ++ (<<s>> ++ s), Len(h), n) = h ++ (<<n>> ++ s)
        BY <2>2, <2>6, <3>1, ChangeLineOne
      <3> QED BY <2>5, <3>2 DEF n, s
    <2> HIDE DEF n
    <2>8. Applied(ch, doc.lines) = h ++ o
      BY <2>6, <2>7, NothingBehind
    <2>9. o \in Seq(EndedLines) /\ o \in Seq(Texts) /\ FlattenSeq(o) = n
      BY <2>6, OneElement, FlattenSum
    <2> HIDE DEF o
    <2>10. h ++ o \in Seq(EndedLines) /\ FlattenSeq(h ++ o) = FlattenSeq(h) ++ n
      BY <2>2, <2>9, SumLength, FlattenOfTwo
    <2>11. Agrees(h ++ o, FlattenSeq(h ++ o), FALSE)
      BY <2>10, AgreesEnd
    <2>12. new = FlattenSeq(h) ++ n
      BY <1>1, <2>1, SumOfTexts DEF n
    <2>13. Agrees(Applied(ch, doc.lines), new, FALSE)
      BY <2>8, <2>10, <2>11, <2>12
    <2> QED BY <2>5, <2>13
  <1> QED BY <1>3, <1>4, <1>5, <1>6, Locate

\* Where a row of the document begins.
LEMMA LocateRow ==
    ASSUME NEW h \in Seq(EndedLines), NEW e \in Ends, NEW u \in Texts, NEW v \in Texts,
           u ++ v = FlattenSeq(h) ++ FlattenSeq(e),
           NEW row, Place(u, row, 0)
    PROVE  \E h1, h2 \in Seq(EndedLines) :
              /\ h = h1 ++ h2 /\ Len(h1) = row
              /\ u = FlattenSeq(h1) /\ v = FlattenSeq(h2) ++ FlattenSeq(e)
PROOF
  <1>1. ASSUME NEW x \in Lines, Len(x) = 0
        PROVE  x = <<>>
    BY <1>1, EmptySeq DEF Lines
  <1>2. \E h1, h2 \in Seq(EndedLines) : h = h1 ++ h2 /\ Len(h1) = row /\ u = FlattenSeq(h1)
    <2>1. CASE Within(h, e, u, v, row, 0)
      <3>1. PICK h1 \in Seq(EndedLines), h2 \in Seq(EndedLines), x \in Lines, y \in Lines :
                /\ h = h1 ++ (<<(x ++ y) ++ <<NL>>>> ++ h2)
                /\ Len(h1) = row /\ Len(x) = 0 /\ u = FlattenSeq(h1) ++ x
        BY <2>1 DEF Within
      <3>2. u = FlattenSeq(h1)
        BY <3>1, <1>1, EndedDocument, SumOfTexts
      <3> DEFINE o == <<(x ++ y) ++ <<NL>>>>
      <3>3. x ++ y \in Lines
        BY LinesAreTexts, SumIsLine
      <3>4. o \in Seq(EndedLines)
        BY <3>3, EndedLine, OneElement
      <3>5. h = h1 ++ (o ++ h2)
        BY <3>1
      <3> HIDE DEF o
      <3>6. o ++ h2 \in Seq(EndedLines)
        BY <3>4, SumLength
      <3> QED BY <3>1, <3>2, <3>5, <3>6
    <2>2. CASE Len(h) = row /\ u = FlattenSeq(h)
      <3> DEFINE n == <<>>
      <3>1. h ++ n = h /\ n \in Seq(EndedLines)
        BY ConcatEmptySeq, EmptySeq DEF ++
      <3> HIDE DEF n
      <3> QED BY <2>2, <3>1
    <2>3. CASE OnLast(h, e, u, v, row, 0)
      <3>1. PICK x \in Lines : Len(h) = row /\ Len(x) = 0 /\ u = FlattenSeq(h) ++ x
        BY <2>3 DEF OnLast
      <3>2. u = FlattenSeq(h)
        BY <3>1, <1>1, EndedDocument, SumOfTexts
      <3> QED BY <2>2, <3>1, <3>2
    <2>4. CASE Behind(h, e, u, v, row, 0)
      BY <2>2, <2>4 DEF Behind
    <2> QED BY <2>1, <2>3, <2>4, Locate
  <1>3. PICK h1 \in Seq(EndedLines), h2 \in Seq(EndedLines) :
            h = h1 ++ h2 /\ Len(h1) = row /\ u = FlattenSeq(h1)
    BY <1>2
  <1> DEFINE w == FlattenSeq(e)
             q == FlattenSeq(h2)
  <1>4. w \in Texts /\ q \in Texts /\ q ++ w \in Texts
    BY EndOfDocument, EndedDocument, SumOfTwo
  <1>5. u ++ v = u ++ (q ++ w)
    <2>1. FlattenSeq(h1 ++ h2) = FlattenSeq(h1) ++ q
      BY DocumentParts
    <2>2. (u ++ q) ++ w = u ++ (q ++ w)
      BY <1>4, Regroup
    <2> QED BY <1>3, <2>1, <2>2
  <1> HIDE DEF w, q
  <1>6. v = q ++ w
    <2> DEFINE z == q ++ w
    <2>1. z \in Texts /\ u ++ v = u ++ z
      BY <1>4, <1>5
    <2> HIDE DEF z
    <2>2. v = z
      BY <2>1, SameAfter
    <2> QED BY <2>2 DEF z
  <1> QED BY <1>3, <1>6 DEF w, q

\* A document whose whole lines are in two groups.
LEMMA CutRows ==
    ASSUME NEW a \in Seq(EndedLines), NEW b \in Seq(EndedLines), NEW e \in Ends
    PROVE  /\ SubSeq((a ++ b) ++ e, 1, Len(a)) = a
           /\ SubSeq((a ++ b) ++ e, Len(a) + 1, Len((a ++ b) ++ e)) = b ++ e
           /\ Len((a ++ b) ++ e) = Len(a) + Len(b) + Len(e)
           /\ Len(a) \in Nat /\ Len(b) \in Nat /\ Len(e) \in Nat
           /\ Len(a) <= Len((a ++ b) ++ e)
PROOF
  <1> DEFINE q == b ++ e
  <1>1. (a ++ b) ++ e = a ++ q /\ q \in Seq(DocumentLines) /\ a \in Seq(DocumentLines)
        /\ b \in Seq(DocumentLines) /\ e \in Seq(DocumentLines)
    BY DocumentParts, EndedDocument, EndOfDocument
  <1>2. Len(q) = Len(b) + Len(e) /\ Len(b) \in Nat /\ Len(e) \in Nat
    BY <1>1, SumLength
  <1> HIDE DEF q
  <1>3. /\ SubSeq(a ++ q, 1, Len(a)) = a
        /\ SubSeq(a ++ q, Len(a) + 1, Len(a ++ q)) = q
    <2>1. a \in Seq(DocumentLines) /\ q \in Seq(DocumentLines)
      BY <1>1
    <2> QED BY <2>1, SumParts
  <1>4. Len(a ++ q) = Len(a) + Len(q) /\ Len(a) \in Nat
    BY <1>1, SumLength
  <1>5. Len((a ++ b) ++ e) = Len(a) + Len(b) + Len(e)
    BY <1>1, <1>2, <1>4
  <1>6. /\ SubSeq((a ++ b) ++ e, 1, Len(a)) = a
        /\ SubSeq((a ++ b) ++ e, Len(a) + 1, Len((a ++ b) ++ e)) = b ++ e
    BY <1>1, <1>3 DEF q
  <1>7. Len(a) <= Len((a ++ b) ++ e)
    BY <1>2, <1>4, <1>5
  <1> QED BY <1>2, <1>4, <1>5, <1>6, <1>7

\* INSERT_LINES of a block that does not end in a blank line.
LEMMA BlockInserted ==
    ASSUME NEW u \in Texts, NEW v \in Texts, NEW row, Place(u, row, 0),
           NEW ch \in Changes, ch.type = "insertLines", ch.row = row,
           JavaSplit(ch.text) = Split(ch.text), ch.text \in Texts,
           NEW full \in BOOLEAN, NEW doc, Shows(doc, u ++ v, full)
    PROVE  Shows(Apply(doc, ch), u ++ ((ch.text ++ <<NL>>) ++ v), full)
PROOF
  <1> DEFINE t == ch.text ++ <<NL>>
             ls == Split(ch.text)
             g == Terminated(ls)
  <1>1. doc \in LinesDocument /\ ~doc.broken /\ row \in Nat
    BY ShowsParts, PlaceIs
  <1>2. PICK h \in Seq(EndedLines), e \in Ends :
              doc.lines = h ++ e /\ u ++ v = FlattenSeq(h) ++ FlattenSeq(e) /\ (full => e # <<>>)
    BY ShowsParts
  <1>3. PICK h1 \in Seq(EndedLines), h2 \in Seq(EndedLines) :
              /\ h = h1 ++ h2 /\ Len(h1) = row
              /\ u = FlattenSeq(h1) /\ v = FlattenSeq(h2) ++ FlattenSeq(e)
    BY <1>2, LocateRow
  <1>4. /\ ls \in Seq(Lines) /\ ls # <<>> /\ LinesText(ls) = t
    <2>1. PICK k \in Seq(Lines), l \in Lines : ls = Append(k, l) /\ LinesText(ls) = t
      BY TextOfParts
    <2> QED BY <2>1, FrontOfAppend
  <1>5. g \in Seq(EndedLines) /\ FlattenSeq(g) = t
    BY <1>4, TerminatedEnded DEF LinesText
  <1>6. /\ SubSeq(doc.lines, 1, row) = h1
        /\ SubSeq(doc.lines, row + 1, Len(doc.lines)) = h2 ++ e
        /\ row <= Len(doc.lines)
    <2>1. doc.lines = (h1 ++ h2) ++ e
      BY <1>2, <1>3
    <2>2. /\ SubSeq((h1 ++ h2) ++ e, 1, Len(h1)) = h1
          /\ SubSeq((h1 ++ h2) ++ e, Len(h1) + 1, Len((h1 ++ h2) ++ e)) = h2 ++ e
          /\ Len(h1) <= Len((h1 ++ h2) ++ e)
      BY CutRows
    <2> QED BY <1>3, <2>1, <2>2
  <1>7. Applicable(ch, doc.lines)
    BY <1>6 DEF Applicable, ApplicableWith
  <1>8. Applied(ch, doc.lines) = h1 ++ (g ++ (h2 ++ e))
    <2>1. Applied(ch, doc.lines) = InsertedLines(doc.lines, row, ls)
      BY DEF Applied
    <2>2. InsertedLines(doc.lines, row, ls) = h1 \o g \o (h2 ++ e)
      <3> HIDE DEF ls
      <3> QED BY <1>4, <1>6 DEF InsertedLines
    <2> HIDE DEF g
    <2>3. (h1 ++ g) ++ (h2 ++ e) = h1 ++ (g ++ (h2 ++ e))
      <3>1. h2 ++ e \in Seq(Texts) /\ h1 \in Seq(Texts) /\ g \in Seq(Texts)
        BY <1>5, DocumentParts, EndedDocument
      <3> QED BY <3>1, RegroupSeqs
    <2>4. h1 \o g \o (h2 ++ e) = (h1 ++ g) ++ (h2 ++ e)
      BY DEF ++
    <2> QED BY <2>1, <2>2, <2>3, <2>4
  <1> HIDE DEF g, t, ls
  <1>9. g ++ (h2 ++ e) = (g ++ h2) ++ e /\ g ++ h2 \in Seq(EndedLines)
        /\ FlattenSeq(g ++ h2) = FlattenSeq(g) ++ FlattenSeq(h2)
    BY <1>5, DocumentParts
  <1>10. Agrees(h1 ++ ((g ++ h2) ++ e),
                FlattenSeq(h1) ++ (FlattenSeq(g ++ h2) ++ FlattenSeq(e)), e # <<>>)
    BY <1>9, AgreesWhole
  <1>11. FlattenSeq(g ++ h2) ++ FlattenSeq(e) = t ++ v
    <2>1. FlattenSeq(h2) \in Texts /\ FlattenSeq(e) \in Texts /\ t \in Texts
      BY <1>5, EndedDocument, EndOfDocument
    <2>2. (t ++ FlattenSeq(h2)) ++ FlattenSeq(e) = t ++ (FlattenSeq(h2) ++ FlattenSeq(e))
      BY <2>1, Regroup
    <2> QED BY <1>3, <1>5, <1>9, <2>2
  <1>12. Agrees(Applied(ch, doc.lines), u ++ (t ++ v), full)
    BY <1>2, <1>3, <1>8, <1>9, <1>10, <1>11 DEF Agrees
  <1> QED BY <1>1, <1>7, <1>12, ApplyShows DEF t

\* REMOVE_LINES of such a block.
LEMMA BlockRemoved ==
    ASSUME NEW u \in Texts, NEW v \in Texts, NEW row, Place(u, row, 0),
           NEW ch \in Changes, ch.type = "removeLines", ch.row = row,
           JavaSplit(ch.text) = Split(ch.text), ch.text \in Texts,
           NEW full \in BOOLEAN, NEW doc, Shows(doc, u ++ ((ch.text ++ <<NL>>) ++ v), full)
    PROVE  Shows(Apply(doc, ch), u ++ v, full)
PROOF
  <1> DEFINE t == ch.text ++ <<NL>>
             ls == Split(ch.text)
             n == Len(ls)
             tv == t ++ v
  <1>1. doc \in LinesDocument /\ ~doc.broken /\ row \in Nat
    BY ShowsParts, PlaceIs
  <1>2. PICK h \in Seq(EndedLines), e \in Ends :
              doc.lines = h ++ e /\ u ++ tv = FlattenSeq(h) ++ FlattenSeq(e) /\ (full => e # <<>>)
    BY ShowsParts
  <1>3. /\ ls \in Seq(Lines) /\ ls # <<>> /\ LinesText(ls) = t
    <2>1. PICK k \in Seq(Lines), l \in Lines : ls = Append(k, l) /\ LinesText(ls) = t
      BY TextOfParts
    <2> QED BY <2>1, FrontOfAppend
  <1>4. t \in Texts /\ Place(t, n, 0) /\ n \in Nat /\ n # 0 /\ tv \in Texts
    <2> HIDE DEF ls, t
    <2>1. t \in Texts /\ Whole(t) /\ Rows(t) = n
      BY <1>3, LinesTextTypes
    <2>2. Place(t, n, 0)
      BY <2>1, PlaceMoves
    <2>3. n \in Nat /\ n # 0
      BY <1>3, EmptySeq
    <2> QED BY <2>1, <2>2, <2>3, SumOfTwo
  <1>5. Len(JavaSplit(ch.text)) = n
    OBVIOUS
  <1> HIDE DEF t, ls, n, tv
  <1>6. PICK h1 \in Seq(EndedLines), h3 \in Seq(EndedLines) :
              /\ h = h1 ++ h3 /\ Len(h1) = row
              /\ u = FlattenSeq(h1) /\ tv = FlattenSeq(h3) ++ FlattenSeq(e)
    BY <1>2, <1>4, LocateRow
  <1>7. t ++ v = FlattenSeq(h3) ++ FlattenSeq(e)
    BY <1>6 DEF tv
  <1>8. PICK g \in Seq(EndedLines), h2 \in Seq(EndedLines) :
              /\ h3 = g ++ h2 /\ Len(g) = n
              /\ t = FlattenSeq(g) /\ v = FlattenSeq(h2) ++ FlattenSeq(e)
    BY <1>4, <1>7, LocateRow
  <1> DEFINE k == h1 ++ g
  <1>9. k \in Seq(EndedLines) /\ Len(k) = row + n
    BY <1>6, <1>8, SumLength
  <1>10. doc.lines = (k ++ h2) ++ e
    <2>1. (h1 ++ g) ++ h2 = h1 ++ (g ++ h2)
      BY RegroupSeqs
    <2> QED BY <1>2, <1>6, <1>8, <2>1
  <1> HIDE DEF k
  <1>11. /\ SubSeq(doc.lines, row + n + 1, Len(doc.lines)) = h2 ++ e
         /\ row + n <= Len(doc.lines)
    <2>1. /\ SubSeq((k ++ h2) ++ e, Len(k) + 1, Len((k ++ h2) ++ e)) = h2 ++ e
          /\ Len(k) <= Len((k ++ h2) ++ e)
      BY <1>9, CutRows
    <2> QED BY <1>9, <1>10, <2>1
  <1>12. SubSeq(doc.lines, 1, row) = h1
    <2>1. SubSeq((h1 ++ h3) ++ e, 1, Len(h1)) = h1
      BY CutRows
    <2> QED BY <1>2, <1>6, <2>1
  <1>13. Applicable(ch, doc.lines)
    BY <1>5, <1>11 DEF Applicable, ApplicableWith
  <1>14. Applied(ch, doc.lines) = h1 ++ (h2 ++ e)
    <2>1. Applied(ch, doc.lines) = RemovedLines(doc.lines, row, n)
      BY <1>5 DEF Applied
    <2>2. RemovedLines(doc.lines, row, n) = h1 \o (h2 ++ e)
      BY <1>4, <1>11, <1>12 DEF RemovedLines
    <2> QED BY <2>1, <2>2 DEF ++
  <1>15. Agrees(h1 ++ (h2 ++ e), FlattenSeq(h1) ++ (FlattenSeq(h2) ++ FlattenSeq(e)), e # <<>>)
    BY AgreesWhole
  <1>16. Agrees(Applied(ch, doc.lines), u ++ v, full)
    BY <1>2, <1>6, <1>8, <1>14, <1>15 DEF Agrees
  <1> QED BY <1>1, <1>13, <1>16, ApplyShows

-----------------------------------------------------------------------------
(* What a change does to a document that shows a text: removals.           *)

\* A line that loses its newline is joined with the next.
LEMMA RemovedNewline ==
    ASSUME NEW a \in Seq(DocumentLines), NEW x \in Lines, NEW z \in DocumentLines,
           NEW b \in Seq(DocumentLines), x ++ z \in DocumentLines,
           NEW ch \in Changes, ch.type = "removeText", ch.text = <<NL>>, ch.row = Len(a)
    PROVE  LET lines == a ++ (<<x ++ <<NL>>>> ++ (<<z>> ++ b))
           IN  Applicable(ch, lines) /\ Applied(ch, lines) = a ++ (<<x ++ z>> ++ b)
PROOF
  <1> DEFINE xn == x ++ <<NL>>
             o == <<xn>>
             k == <<z>>
             c == k ++ b
             a2 == a ++ o
             lines == a ++ (o ++ c)
  <1>1. xn \in DocumentLines /\ xn # <<>> /\ Front(xn) = x
    <2>1. xn \in DocumentLines /\ xn # <<>> /\ Append(x, NL) = xn
      BY EndedLine
    <2>2. x \in Seq(Chars \cup {NL})
      BY LinesAreTexts DEF Texts
    <2>3. NL \in Chars \cup {NL}
      OBVIOUS
    <2>4. Front(Append(x, NL)) = x
      BY <2>2, <2>3, FrontOfAppend
    <2> QED BY <2>1, <2>4
  <1>2. k \in Seq(DocumentLines) /\ Len(k) = 1 /\ k[1] = z
    BY OneElement
  <1> HIDE DEF xn
  <1>3. o \in Seq(DocumentLines) /\ Len(o) = 1
    BY <1>1, OneElement
  <1> HIDE DEF o, k
  <1>4. c \in Seq(DocumentLines) /\ Len(c) = 1 + Len(b) /\ Len(b) \in Nat
    BY <1>2, SumLength
  <1>5. c[1] = z
    <2>1. (k ++ b)[1] = k[1]
      BY <1>2, SumLeft
    <2> QED BY <1>2, <2>1
  <1> HIDE DEF c
  <1>6. /\ Len(a ++ (<<xn>> ++ c)) = Len(a) + 1 + Len(c) /\ Len(a) \in Nat
    BY <1>1, <1>4, AroundLength
  <1>7. (a ++ (<<xn>> ++ c))[Len(a) + 1] = xn
    BY <1>1, <1>4, AroundAt
  <1>8. (a ++ (<<xn>> ++ c))[Len(a) + 1 + 1] = c[1]
    <2>1. 1 \in 1..Len(c)
      BY <1>4
    <2> QED BY <1>1, <1>4, <2>1, AroundAfter
  <1>9. Len(lines) = Len(a) + 2 + Len(b) /\ lines[Len(a) + 1] = xn /\ lines[Len(a) + 2] = z
    <2>1. Len(a) + 1 + 1 = Len(a) + 2
      BY <1>6
    <2> QED BY <1>4, <1>5, <1>6, <1>7, <1>8, <2>1 DEF o
  <1>10. a2 \in Seq(DocumentLines) /\ Len(a2) = Len(a) + 1 /\ lines = a2 ++ c
    <2>1. a2 \in Seq(DocumentLines) /\ Len(a2) = Len(a) + 1
      BY <1>3, SumLength
    <2>2. (a ++ o) ++ c = a ++ (o ++ c)
      BY <1>3, <1>4, RegroupSeqs
    <2> QED BY <2>1, <2>2
  <1>11. RemoveAt(lines, Len(a) + 2) = a ++ (o ++ b)
    <2> HIDE DEF a2
    <2>1. RemoveAt(a2 ++ (<<z>> ++ b), Len(a2) + 1) = a2 ++ b
      BY <1>10, AroundCut
    <2>2. Len(a2) + 1 = Len(a) + 2
      BY <1>6, <1>10
    <2>3. a2 ++ b = a ++ (o ++ b)
      BY <1>3, RegroupSeqs DEF a2
    <2>4. lines = a2 ++ (<<z>> ++ b)
      BY <1>10 DEF c, k
    <2> QED BY <2>1, <2>2, <2>3, <2>4
  <1>12. ReplaceAt(a ++ (<<xn>> ++ b), Len(a) + 1, x ++ z) = a ++ (<<x ++ z>> ++ b)
    <2> DEFINE w == x ++ z
    <2>1. w \in DocumentLines
      OBVIOUS
    <2> HIDE DEF w
    <2>2. ReplaceAt(a ++ (<<xn>> ++ b), Len(a) + 1, w) = a ++ (<<w>> ++ b)
      BY <1>1, <2>1, AroundReplace
    <2> QED BY <2>2 DEF w
  <1> HIDE DEF lines
  <1>13. Applicable(ch, lines)
    BY <1>1, <1>4, <1>6, <1>9 DEF Applicable, ApplicableWith
  <1>14. Applied(ch, lines) = Removed(lines, Len(a), ch.from, ch.to, <<NL>>)
    BY DEF Applied
  <1>15. Removed(lines, Len(a), ch.from, ch.to, <<NL>>)
            = ReplaceAt(RemoveAt(lines, Len(a) + 2), Len(a) + 1, x ++ z)
    BY <1>1, <1>9 DEF Removed, ++
  <1> QED BY <1>11, <1>12, <1>13, <1>14, <1>15 DEF o, xn, lines, c, k

\* The next newline of a text in front of a newline.
LEMMA NewlineNext ==
    ASSUME NEW v \in Texts, NEW y \in Lines, NEW q \in Texts,
           <<NL>> ++ v = y ++ (<<NL>> ++ q)
    PROVE  y = <<>> /\ v = q
PROOF
  <1> DEFINE n == <<NL>>
             nq == n ++ q
             nv == n ++ v
  <1>1. n \in Texts /\ Len(n) = 1 /\ n[1] = NL /\ y \in Texts /\ Len(y) \in Nat
    BY LinesAreTexts DEF Texts
  <1>2. nq \in Texts /\ nv \in Texts
    BY <1>1, SumOfTwo
  <1>3. nv[1] = NL
    <2>1. n \in Seq(Chars \cup {NL}) /\ v \in Seq(Chars \cup {NL}) /\ 1 \in 1..Len(n)
      BY <1>1 DEF Texts
    <2> HIDE DEF n
    <2>2. (n ++ v)[1] = n[1]
      BY <2>1, SumLeft
    <2> QED BY <1>1, <2>2
  <1> HIDE DEF nq
  <1>4. y = <<>>
    <2>1. SUFFICES ASSUME y # <<>> PROVE FALSE
      OBVIOUS
    <2>2. y \in Seq(Chars \cup {NL}) /\ nq \in Seq(Chars \cup {NL}) /\ 1 \in 1..Len(y)
          /\ y \in Seq(Chars)
      BY <1>1, <1>2, <2>1, EmptySeq DEF Texts, Lines
    <2>3. (y ++ nq)[1] = y[1]
      BY <2>2, SumLeft
    <2>4. y[1] \in Chars
      BY <2>2
    <2>5. nv = y ++ nq
      BY DEF nq
    <2> QED BY <1>3, <2>3, <2>4, <2>5, TextAssumption
  <1>5. nv = nq
    BY <1>2, <1>4, SumOfTexts DEF nq
  <1>6. v = q
    <2> HIDE DEF n
    <2> QED BY <1>1, <1>5, SameAfter DEF nq
  <1> QED BY <1>4, <1>6

\* A sequence is its first element and the rest.
LEMMA FirstOfSeq ==
    ASSUME NEW S, NEW s \in Seq(S), s # <<>>
    PROVE  SubSeq(s, 2, Len(s)) \in Seq(S) /\ s = <<s[1]>> ++ SubSeq(s, 2, Len(s))
PROOF
  <1> DEFINE x == s[1]
             o == <<x>>
             r == SubSeq(s, 2, Len(s))
  <1>1. Len(s) \in Nat /\ Len(s) # 0 /\ x \in S
    BY EmptySeq
  <1>2. r \in Seq(S) /\ Len(r) = Len(s) - 1 /\ \A i \in 1..Len(s) - 1 : r[i] = s[i + 1]
    <2>1. \A i \in 1..Len(s) - 2 + 1 : r[i] = s[2 + i - 1]
      BY <1>1, PartOfSeq
    <2>2. r \in Seq(S) /\ Len(r) = IF 2 <= Len(s) THEN Len(s) - 2 + 1 ELSE 0
      BY <1>1, PartOfSeq
    <2>3. ASSUME NEW i \in 1..Len(s) - 1
          PROVE  r[i] = s[i + 1]
      <3>1. i \in 1..Len(s) - 2 + 1 /\ 2 + i - 1 = i + 1
        BY <1>1
      <3> HIDE DEF r
      <3> QED BY <2>1, <3>1
    <2> HIDE DEF r
    <2>4. Len(r) = Len(s) - 1
      <3> DEFINE n == Len(s)
                 m == Len(r)
      <3>1. n \in Nat /\ n # 0 /\ m = IF 2 <= n THEN n - 2 + 1 ELSE 0
        BY <1>1, <2>2
      <3> HIDE DEF n, m
      <3>2. m = n - 1
        BY <3>1
      <3> QED BY <3>2 DEF n, m
    <2> QED BY <2>2, <2>3, <2>4
  <1>3. o \in Seq(S) /\ Len(o) = 1 /\ o[1] = x
    BY <1>1
  <1> HIDE DEF o, r
  <1>4. o ++ r \in Seq(S) /\ Len(o ++ r) = Len(s)
    <2>1. o ++ r \in Seq(S) /\ Len(o ++ r) = Len(o) + Len(r)
      BY <1>2, <1>3, SumLength
    <2> QED BY <1>1, <1>2, <1>3, <2>1
  <1>5. ASSUME NEW i \in 1..Len(s)
        PROVE  (o ++ r)[i] = s[i]
    <2>1. CASE i = 1
      <3>1. (o ++ r)[1] = o[1]
        BY <1>2, <1>3, SumLeft
      <3> QED BY <1>3, <2>1, <3>1
    <2>2. CASE i # 1
      <3> DEFINE j == i - 1
      <3>1. j \in 1..Len(r) /\ j \in 1..Len(s) - 1 /\ Len(o) + j = i /\ j + 1 = i
        BY <1>1, <1>2, <1>3, <2>2
      <3> HIDE DEF j
      <3>2. (o ++ r)[Len(o) + j] = r[j]
        <4>1. o \in Seq(S) /\ r \in Seq(S) /\ j \in 1..Len(r)
          BY <1>2, <1>3, <3>1
        <4> QED BY <4>1, SumRight
      <3>3. r[j] = s[j + 1]
        BY <1>2, <3>1
      <3> QED BY <3>1, <3>2, <3>3
    <2> QED BY <2>1, <2>2
  <1>6. o ++ r = s
    BY <1>4, <1>5, SeqEqual
  <1> QED BY <1>2, <1>6 DEF o, r

\* REMOVE_TEXT of a newline that is not the end of the text.
LEMMA NewlineRemoved ==
    ASSUME NEW u \in Texts, NEW v \in Texts, NEW row, NEW col, Place(u, row, col),
           NEW ch \in Changes, ch.type = "removeText", ch.text = <<NL>>, ch.row = row,
           NEW full \in BOOLEAN, v # <<>> \/ full,
           NEW doc, Shows(doc, u ++ (<<NL>> ++ v), full)
    PROVE  Shows(Apply(doc, ch), u ++ v, full)
PROOF
  <1> DEFINE n == <<NL>>
             nv == n ++ v
  <1>1. /\ doc \in LinesDocument /\ ~doc.broken
        /\ n \in Texts /\ row \in Nat /\ col \in Nat /\ nv \in Texts
        /\ Rows(n) = 1
    BY ShowsParts, LinesAreTexts, PlaceIs, SumOfTwo, RowsOfSum
  <1> SUFFICES Applicable(ch, doc.lines) /\ Agrees(Applied(ch, doc.lines), u ++ v, full)
    BY <1>1, ApplyShows
  <1>2. PICK h \in Seq(EndedLines), e \in Ends :
              /\ doc.lines = h ++ e /\ u ++ nv = FlattenSeq(h) ++ FlattenSeq(e)
              /\ full => e # <<>>
    BY ShowsParts
  <1>3. nv \notin Lines /\ nv # <<>>
    <2> HIDE DEF n
    <2>1. Rows(nv) = 1 + Rows(v) /\ Rows(v) \in Nat
      BY <1>1, RowsOfTwo
    <2> QED BY <2>1, RowsOfSum
  <1>4. Within(h, e, u, nv, row, col)
    <2> HIDE DEF nv
    <2>1. ~OnLast(h, e, u, nv, row, col) /\ ~Behind(h, e, u, nv, row, col)
      BY <1>3 DEF OnLast, Behind
    <2> QED BY <1>1, <1>2, <2>1, Locate
  <1>5. PICK h1 \in Seq(EndedLines), h2 \in Seq(EndedLines), x \in Lines, y \in Lines :
              /\ h ++ e = h1 ++ (<<x ++ (y ++ <<NL>>)>> ++ (h2 ++ e))
              /\ Len(h1) = row /\ Len(x) = col
              /\ u = FlattenSeq(h1) ++ x
              /\ nv = y ++ (<<NL>> ++ (FlattenSeq(h2) ++ FlattenSeq(e)))
    BY <1>1, <1>4, WithinLines DEF InLine
  <1> DEFINE w == FlattenSeq(h1)
             q == FlattenSeq(h2) ++ FlattenSeq(e)
  <1>6. w \in Texts /\ q \in Texts /\ x \in Texts /\ h1 \in Seq(DocumentLines)
    <2>1. w \in Texts /\ FlattenSeq(h2) \in Texts /\ FlattenSeq(e) \in Texts
      BY EndedDocument, EndOfDocument
    <2>2. q \in Texts
      BY <2>1, SumOfTwo
    <2> QED BY <2>1, <2>2, EndedDocument, LinesAreTexts
  <1>7. y = <<>> /\ v = q
    BY <1>5, <1>6, NewlineNext
  <1>8. doc.lines = h1 ++ (<<x ++ <<NL>>>> ++ (h2 ++ e))
    <2>1. <<>> ++ <<NL>> = <<NL>>
      BY <1>1, SumOfTexts
    <2> QED BY <1>2, <1>5, <1>7, <2>1
  <1>9. u ++ v = w ++ (x ++ v)
    BY <1>5, <1>6, Regroup
  <1>10. CASE h2 # <<>>
    <2>1. 1 \in 1..Len(h2) /\ h2[1] \in EndedLines
      BY <1>10, EmptySeq
    <2>2. PICK l \in Lines : h2[1] = l ++ <<NL>>
      BY <2>1 DEF EndedLines
    <2> DEFINE z == l ++ <<NL>>
               k == <<z>>
               h3 == SubSeq(h2, 2, Len(h2))
    <2>3. h3 \in Seq(EndedLines) /\ h2 = k ++ h3
      BY <1>10, <2>2, FirstOfSeq
    <2>4. /\ z \in EndedLines /\ z \in Texts /\ z \in DocumentLines /\ l \in Texts
          /\ k \in Seq(EndedLines) /\ FlattenSeq(k) = z
      BY <2>2, EndedLine, LinesAreTexts, OneElement, FlattenSum
    <2> DEFINE b == h3 ++ e
               p == FlattenSeq(h3) ++ FlattenSeq(e)
    <2> HIDE DEF h3
    <2>5. b \in Seq(DocumentLines) /\ p \in Texts
      <3>1. FlattenSeq(h3) \in Texts /\ FlattenSeq(e) \in Texts
        BY <2>3, EndedDocument, EndOfDocument
      <3>2. b \in Seq(DocumentLines)
        BY <2>3, DocumentParts
      <3> QED BY <3>1, <3>2, SumOfTwo
    <2>6. h2 ++ e = k ++ b /\ v = z ++ p
      <3> HIDE DEF k, z
      <3>1. h2 ++ e = k ++ (h3 ++ e) /\ FlattenSeq(h2) = z ++ FlattenSeq(h3)
        BY <2>3, <2>4, DocumentParts
      <3>2. FlattenSeq(h3) \in Texts /\ FlattenSeq(e) \in Texts
        BY <2>3, EndedDocument, EndOfDocument
      <3>3. (z ++ FlattenSeq(h3)) ++ FlattenSeq(e) = z ++ p
        BY <2>4, <3>2, Regroup
      <3> QED BY <1>7, <3>1, <3>3
    <2>7. x ++ l \in Lines /\ x ++ z = (x ++ l) ++ <<NL>> /\ x ++ z \in DocumentLines
      <3>1. x ++ l \in Lines /\ x ++ z = (x ++ l) ++ <<NL>>
        BY <1>1, <1>6, <2>4, SumIsLine, Regroup
      <3> QED BY <3>1, EndedLine
    <2>8. doc.lines = h1 ++ (<<x ++ <<NL>>>> ++ (<<z>> ++ b))
      BY <1>8, <2>6
    <2>9. Agrees(h1 ++ (<<x ++ z>> ++ b), w ++ ((x ++ l) ++ (<<NL>> ++ p)), e # <<>>)
      <3>1. Agrees(h1 ++ (<<(x ++ l) ++ <<NL>>>> ++ b), w ++ ((x ++ l) ++ (<<NL>> ++ p)), e # <<>>)
        BY <2>3, <2>7, AgreesAround
      <3> QED BY <2>7, <3>1
    <2>10. u ++ v = w ++ ((x ++ l) ++ (<<NL>> ++ p))
      <3>1. z ++ p = l ++ (<<NL>> ++ p)
        BY <1>1, <2>4, <2>5, Regroup
      <3>2. <<NL>> ++ p \in Texts
        BY <1>1, <2>5, SumOfTwo
      <3>3. (x ++ l) ++ (<<NL>> ++ p) = x ++ (l ++ (<<NL>> ++ p))
        BY <1>6, <2>4, <3>2, Regroup
      <3> QED BY <1>9, <2>6, <3>1, <3>3
    <2> HIDE DEF z, b, p, w, k
    <2>11. Applicable(ch, doc.lines) /\ Applied(ch, doc.lines) = h1 ++ (<<x ++ z>> ++ b)
      <3>1. /\ Applicable(ch, h1 ++ (<<x ++ <<NL>>>> ++ (<<z>> ++ b)))
            /\ Applied(ch, h1 ++ (<<x ++ <<NL>>>> ++ (<<z>> ++ b))) = h1 ++ (<<x ++ z>> ++ b)
        <4>1. ch.row = Len(h1) /\ h1 \in Seq(DocumentLines)
          BY <1>5, <1>6
        <4>2. z \in DocumentLines /\ b \in Seq(DocumentLines) /\ x ++ z \in DocumentLines
          BY <2>4, <2>5, <2>7
        <4> QED BY <4>1, <4>2, RemovedNewline
      <3> QED BY <2>8, <3>1
    <2>12. Agrees(Applied(ch, doc.lines), u ++ v, full)
      BY <1>2, <2>9, <2>10, <2>11 DEF Agrees
    <2> QED BY <2>11, <2>12
  <1>11. CASE h2 = <<>>
    <2>1. h2 ++ e = e /\ q = FlattenSeq(e)
      <3>1. e \in Seq(Texts) /\ FlattenSeq(e) \in Texts
        BY EndOfDocument
      <3>2. FlattenSeq(h2) = <<>>
        BY <1>11, FlattenSum
      <3>3. <<>> ++ FlattenSeq(e) = FlattenSeq(e)
        BY <3>1, SumOfTexts
      <3>4. <<>> ++ e = e
        BY <3>1, ConcatEmptySeq DEF ++
      <3> QED BY <1>11, <3>2, <3>3, <3>4
    <2>2. e # <<>>
      BY <1>2, <1>7, <2>1, FlattenSum
    <2>3. PICK l \in Lines : e = <<l>>
      BY <2>2, EndOfDocument
    <2>4. /\ l \in Texts /\ l \in DocumentLines /\ v = l
          /\ x ++ l \in Lines /\ x ++ l \in DocumentLines
      <3>1. l \in Texts /\ l \in DocumentLines
        BY LinesAreTexts, LineOfDocument
      <3>2. v = l
        BY <1>7, <2>1, <2>3, <3>1, FlattenSum
      <3>3. x ++ l \in Lines
        BY <1>6, <3>1, SumIsLine
      <3> QED BY <3>1, <3>2, <3>3, LineOfDocument
    <2>5. doc.lines = h1 ++ (<<x ++ <<NL>>>> ++ (<<l>> ++ <<>>))
      <3>1. <<l>> ++ <<>> = <<l>>
        BY <2>4, NothingBehind
      <3> QED BY <1>8, <2>1, <2>3, <3>1
    <2>6. <<>> \in Seq(DocumentLines)
      BY EmptySeq
    <2>7. Applicable(ch, doc.lines) /\ Applied(ch, doc.lines) = h1 ++ (<<x ++ l>> ++ <<>>)
      <3> DEFINE b == <<>>
      <3>1. b \in Seq(DocumentLines) /\ doc.lines = h1 ++ (<<x ++ <<NL>>>> ++ (<<l>> ++ b))
        BY <2>5, <2>6
      <3> HIDE DEF b
      <3>2. Applicable(ch, doc.lines) /\ Applied(ch, doc.lines) = h1 ++ (<<x ++ l>> ++ b)
        BY <1>5, <1>6, <2>4, <3>1, RemovedNewline
      <3> QED BY <3>2 DEF b
    <2>8. Applied(ch, doc.lines) = h1 ++ <<x ++ l>>
      BY <2>4, <2>7, NothingBehind
    <2>9. Agrees(h1 ++ <<x ++ l>>, w ++ (x ++ l), TRUE)
      BY <2>4, AgreesLast
    <2>10. Agrees(Applied(ch, doc.lines), u ++ v, full)
      BY <1>9, <2>4, <2>8, <2>9 DEF Agrees
    <2> QED BY <2>7, <2>10
  <1> QED BY <1>10, <1>11

-----------------------------------------------------------------------------
(* What a list of changes does to a text, and to a document that shows it. *)

\* Changes of whole lines, and changes that add something.
IsBlock(ch) == ch.type \in {"insertLines", "removeLines"}
Adds(ch) == ch.type \in {"insertText", "insertLines"}

\* What a change puts into the text or takes out of it, and where.
Content(ch) == IF IsBlock(ch) THEN ch.text ++ <<NL>> ELSE ch.text
Between(ch, a, b) ==
    \E u, v \in Texts :
        /\ a = u ++ v /\ b = u ++ (Content(ch) ++ v)
        /\ Place(u, ch.row, ch.from)
        /\ IsBlock(ch) => ch.from = 0
Does(a, ch, b) == IF Adds(ch) THEN Between(ch, a, b) ELSE Between(ch, b, a)

\* Every change of the list leads to the text that the next one was made in.
Leads(a, cs, b) ==
    \E Z \in [0..Len(cs) -> Texts] :
        /\ Z[0] = a /\ Z[Len(cs)] = b
        /\ \A k \in 1..Len(cs) : Does(Z[k - 1], cs[k], Z[k])

\* The documents of a replay of what was stored of the changes; the last one
\* shows b if the first one shows a.
Replays(g, cs) == \A k \in 1..Len(cs) : g[k] = Apply(g[k - 1], Stored(cs[k]))
Moves(full, a, cs, b) ==
    \A g : Replays(g, cs) /\ Shows(g[0], a, full) => Shows(g[Len(cs)], b, full)

\* The changes lead from one text to the other, and so they do on a document if
\* this is safe and the changes are good.
Carries(full, safe, a, cs, b) ==
    /\ cs \in Seq(Changes)
    /\ Leads(a, cs, b)
    /\ safe /\ GoodChanges(cs) => Moves(full, a, cs, b)

\* Nothing leads nowhere.
LEMMA NoChange ==
    ASSUME NEW a \in Texts, NEW full, NEW safe
    PROVE  Carries(full, safe, a, <<>>, a)
PROOF
  <1> DEFINE cs == <<>>
  <1>1. cs \in Seq(Changes) /\ Len(cs) = 0
    OBVIOUS
  <1> HIDE DEF cs
  <1>2. Leads(a, cs, a)
    <2> DEFINE Z == [k \in 0..Len(cs) |-> a]
    <2>1. Z \in [0..Len(cs) -> Texts] /\ Z[0] = a /\ Z[Len(cs)] = a
      BY <1>1
    <2>2. \A k \in 1..Len(cs) : Does(Z[k - 1], cs[k], Z[k])
      BY <1>1
    <2> HIDE DEF Z
    <2> QED BY <2>1, <2>2 DEF Leads
  <1>3. Moves(full, a, cs, a)
    BY <1>1 DEF Moves
  <1>4. Carries(full, safe, a, cs, a)
    BY <1>1, <1>2, <1>3 DEF Carries
  <1> QED BY <1>4 DEF cs

\* Changes one after the other, for the text.
LEMMA LeadsJoined ==
    ASSUME NEW a, NEW b, NEW c, NEW cs \in Seq(Changes), NEW ds \in Seq(Changes),
           Leads(a, cs, b), Leads(b, ds, c)
    PROVE  Leads(a, cs ++ ds, c)
PROOF
  <1> DEFINE n == Len(cs)
             m == Len(ds)
             all == cs ++ ds
  <1>1. all \in Seq(Changes) /\ Len(all) = n + m /\ n \in Nat /\ m \in Nat
    BY SumLength
  <1>2. PICK Y \in [0..n -> Texts] :
            Y[0] = a /\ Y[n] = b /\ \A k \in 1..n : Does(Y[k - 1], cs[k], Y[k])
    BY DEF Leads
  <1>3. PICK Z \in [0..m -> Texts] :
            Z[0] = b /\ Z[m] = c /\ \A k \in 1..m : Does(Z[k - 1], ds[k], Z[k])
    BY DEF Leads
  <1>4. ASSUME NEW k \in 1..n
        PROVE  all[k] = cs[k]
    BY SumLeft
  <1>5. ASSUME NEW k \in 1..m
        PROVE  all[n + k] = ds[k]
    BY SumRight
  <1> HIDE DEF n, m, all
  <1> DEFINE X == [k \in 0..n + m |-> IF k <= n THEN Y[k] ELSE Z[k - n]]
  <1>6. X \in [0..n + m -> Texts]
    <2>1. ASSUME NEW k \in 0..n + m
          PROVE  (IF k <= n THEN Y[k] ELSE Z[k - n]) \in Texts
      <3>1. CASE k <= n
        <4>1. k \in 0..n
          BY <1>1, <3>1
        <4> QED BY <3>1, <4>1
      <3>2. CASE ~(k <= n)
        <4>1. k - n \in 0..m
          BY <1>1, <3>2
        <4> QED BY <3>2, <4>1
      <3> QED BY <3>1, <3>2
    <2> QED BY <2>1
  <1>7. \A k \in 0..n : X[k] = Y[k]
    BY <1>1
  <1>8. \A k \in 0..m : X[n + k] = Z[k]
    <2>1. ASSUME NEW k \in 0..m
          PROVE  X[n + k] = Z[k]
      <3>1. n + k \in 0..n + m /\ (n + k) - n = k /\ (n + k <= n => k = 0 /\ n + k = n) /\ n \in 0..n
        BY <1>1
      <3> QED BY <1>2, <1>3, <3>1
    <2> QED BY <2>1
  <1> HIDE DEF X
  <1>9. X[0] = a /\ X[n + m] = c
    <2>1. 0 \in 0..n /\ m \in 0..m
      BY <1>1
    <2> QED BY <1>2, <1>3, <1>7, <1>8, <2>1
  <1>10. ASSUME NEW k \in 1..n + m
         PROVE  Does(X[k - 1], all[k], X[k])
    <2>1. CASE k <= n
      <3>1. k \in 1..n /\ k \in 0..n /\ k - 1 \in 0..n
        BY <1>1, <2>1
      <3> QED BY <1>2, <1>4, <1>7, <3>1
    <2>2. CASE ~(k <= n)
      <3> DEFINE j == k - n
      <3>1. j \in 1..m /\ j \in 0..m /\ j - 1 \in 0..m /\ k = n + j /\ k - 1 = n + (j - 1)
        BY <1>1, <2>2
      <3> HIDE DEF j
      <3>2. X[n + j] = Z[j] /\ X[n + (j - 1)] = Z[j - 1]
        BY <1>8, <3>1
      <3>3. all[n + j] = ds[j] /\ Does(Z[j - 1], ds[j], Z[j])
        BY <1>3, <1>5, <3>1
      <3> QED BY <3>1, <3>2, <3>3
    <2> QED BY <2>1, <2>2
  <1>11. Leads(a, all, c)
    BY <1>1, <1>6, <1>9, <1>10 DEF Leads
  <1> QED BY <1>11 DEF all

\* The same for a document.
LEMMA MovesJoined ==
    ASSUME NEW a, NEW b, NEW c, NEW full, NEW cs \in Seq(Changes), NEW ds \in Seq(Changes),
           Moves(full, a, cs, b), Moves(full, b, ds, c)
    PROVE  Moves(full, a, cs ++ ds, c)
PROOF
  <1> DEFINE n == Len(cs)
             m == Len(ds)
             all == cs ++ ds
  <1>1. all \in Seq(Changes) /\ Len(all) = n + m /\ n \in Nat /\ m \in Nat
    BY SumLength
  <1>2. ASSUME NEW k \in 1..n
        PROVE  all[k] = cs[k]
    BY SumLeft
  <1>3. ASSUME NEW k \in 1..m
        PROVE  all[n + k] = ds[k]
    BY SumRight
  <1> SUFFICES ASSUME NEW g, Replays(g, all), Shows(g[0], a, full)
               PROVE  Shows(g[Len(all)], c, full)
    BY DEF Moves
  <1>4. Replays(g, cs)
    <2> HIDE DEF n, all
    <2>1. \A k \in 1..n : k \in 1..Len(all)
      BY <1>1
    <2> QED BY <1>2, <2>1 DEF Replays, n
  <1>5. Shows(g[n], b, full)
    BY <1>4 DEF Moves
  <1> DEFINE f == [k \in 0..m |-> g[n + k]]
  <1>6. f[0] = g[n] /\ f[m] = g[n + m]
    <2> HIDE DEF n, m
    <2>1. 0 \in 0..m /\ m \in 0..m /\ n + 0 = n
      BY <1>1
    <2> QED BY <2>1
  <1>7. Replays(f, ds)
    <2> HIDE DEF n, all
    <2> SUFFICES ASSUME NEW k \in 1..m
                 PROVE  f[k] = Apply(f[k - 1], Stored(ds[k]))
      BY DEF Replays
    <2>1. k \in 0..m /\ k - 1 \in 0..m /\ n + k \in 1..Len(all) /\ (n + k) - 1 = n + (k - 1)
      BY <1>1
    <2>2. g[n + k] = Apply(g[(n + k) - 1], Stored(all[n + k]))
      BY <2>1 DEF Replays
    <2>3. f[k] = g[n + k] /\ f[k - 1] = g[n + (k - 1)]
      BY <2>1
    <2> QED BY <1>3, <2>1, <2>2, <2>3
  <1> HIDE DEF f
  <1>8. Shows(f[m], c, full)
    BY <1>5, <1>6, <1>7 DEF Moves
  <1> QED BY <1>1, <1>6, <1>8

\* Good changes are good in each part.
LEMMA GoodBoth ==
    ASSUME NEW cs \in Seq(Changes), NEW ds \in Seq(Changes), GoodChanges(cs ++ ds)
    PROVE  GoodChanges(cs) /\ GoodChanges(ds)
PROOF
  <1> DEFINE n == Len(cs)
             m == Len(ds)
             all == cs ++ ds
  <1>1. Len(all) = n + m /\ n \in Nat /\ m \in Nat
    BY SumLength
  <1>2. ASSUME NEW k \in 1..n
        PROVE  all[k] = cs[k]
    BY SumLeft
  <1>3. ASSUME NEW k \in 1..m
        PROVE  all[n + k] = ds[k]
    BY SumRight
  <1>4. \A k \in 1..Len(all) : GoodChange(all[k])
    BY DEF GoodChanges
  <1>5. (\A k \in 1..n : k \in 1..Len(all)) /\ (\A k \in 1..m : n + k \in 1..Len(all))
    <2> HIDE DEF n, m, all
    <2> QED BY <1>1
  <1>6. (\A k \in 1..n : GoodChange(cs[k])) /\ (\A k \in 1..m : GoodChange(ds[k]))
    <2> HIDE DEF n, m, all
    <2> QED BY <1>2, <1>3, <1>4, <1>5
  <1> QED BY <1>6 DEF GoodChanges

\* Both at once.
LEMMA CarriesJoined ==
    ASSUME NEW full, NEW safe, NEW a, NEW b, NEW c, NEW cs, NEW ds,
           Carries(full, safe, a, cs, b), Carries(full, safe, b, ds, c)
    PROVE  Carries(full, safe, a, cs ++ ds, c)
PROOF
  <1>1. cs \in Seq(Changes) /\ ds \in Seq(Changes)
    BY DEF Carries
  <1>2. cs ++ ds \in Seq(Changes)
    BY <1>1, SumLength
  <1>3. Leads(a, cs ++ ds, c)
    BY <1>1, LeadsJoined DEF Carries
  <1>4. ASSUME safe, GoodChanges(cs ++ ds)
        PROVE  Moves(full, a, cs ++ ds, c)
    <2>1. GoodChanges(cs) /\ GoodChanges(ds)
      BY <1>1, <1>4, GoodBoth
    <2>2. Moves(full, a, cs, b) /\ Moves(full, b, ds, c)
      BY <1>4, <2>1 DEF Carries
    <2> QED BY <1>1, <2>2, MovesJoined
  <1> QED BY <1>2, <1>3, <1>4 DEF Carries

\* What carries a document along when less is safe, does so when more is.
LEMMA LessSafe ==
    ASSUME NEW full, NEW safe, NEW less, less => safe, NEW a, NEW b, NEW cs,
           Carries(full, safe, a, cs, b)
    PROVE  Carries(full, less, a, cs, b)
PROOF
  BY DEF Carries

\* A good change is replayed as it was reported.
LEMMA StoredApplies ==
    ASSUME NEW doc, NEW ch \in Changes, GoodChange(ch)
    PROVE  Apply(doc, Stored(ch)) = Apply(doc, ch)
PROOF
  <1> DEFINE st == Stored(ch)
  <1>1. st.type = ch.type /\ st.row = ch.row /\ st.from = ch.from /\ st.text = ch.text
    BY DEF Stored, Changes
  <1>2. ch.type = "removeText" => ch.text = <<NL>>
    BY DEF GoodChange
  <1> HIDE DEF st
  <1>3. Applicable(st, doc.lines) <=> Applicable(ch, doc.lines)
    BY <1>1, <1>2 DEF Applicable, ApplicableWith
  <1>4. ASSUME ch.type = "removeText", NEW to, NEW td
        PROVE  Removed(doc.lines, ch.row, ch.from, to, ch.text)
                 = Removed(doc.lines, ch.row, ch.from, td, ch.text)
    BY <1>2, <1>4 DEF Removed
  <1>5. Applied(st, doc.lines) = Applied(ch, doc.lines)
    <2>1. CASE ch.type = "removeText"
      <3>1. Applied(st, doc.lines) = Removed(doc.lines, ch.row, ch.from, st.to, ch.text)
        BY <1>1, <2>1 DEF Applied
      <3>2. Applied(ch, doc.lines) = Removed(doc.lines, ch.row, ch.from, ch.to, ch.text)
        BY <2>1 DEF Applied
      <3> QED BY <1>4, <2>1, <3>1, <3>2
    <2>2. CASE ch.type = "insertText"
      BY <1>1, <2>2 DEF Applied
    <2>3. CASE ch.type = "insertLines"
      BY <1>1, <2>3 DEF Applied
    <2>4. CASE ch.type = "removeLines"
      BY <1>1, <2>4 DEF Applied
    <2> QED BY <2>1, <2>2, <2>3, <2>4 DEF Changes
  <1>6. Apply(doc, st) = Apply(doc, ch)
    BY <1>3, <1>5 DEF Apply
  <1> QED BY <1>6 DEF st

\* One change: it is enough that it does so for a document that shows the text.
LEMMA CarriesOne ==
    ASSUME NEW full, NEW safe, NEW a \in Texts, NEW b \in Texts, NEW ch \in Changes,
           Does(a, ch, b),
           ASSUME NEW doc, safe, Shows(doc, a, full), GoodChange(ch)
           PROVE  Shows(Apply(doc, ch), b, full)
    PROVE  Carries(full, safe, a, <<ch>>, b)
PROOF
  <1> DEFINE cs == <<ch>>
  <1>1. cs \in Seq(Changes) /\ Len(cs) = 1 /\ cs[1] = ch
    OBVIOUS
  <1> HIDE DEF cs
  <1>2. Leads(a, cs, b)
    <2> DEFINE Z == [k \in 0..Len(cs) |-> IF k = 0 THEN a ELSE b]
    <2>1. Z \in [0..Len(cs) -> Texts] /\ Z[0] = a /\ Z[1] = b
      BY <1>1
    <2> HIDE DEF Z
    <2>2. ASSUME NEW k \in 1..Len(cs)
          PROVE  Does(Z[k - 1], cs[k], Z[k])
      <3>1. k = 1 /\ k - 1 = 0
        BY <1>1
      <3> QED BY <1>1, <2>1, <3>1
    <2> QED BY <1>1, <2>1, <2>2 DEF Leads
  <1>3. ASSUME safe, GoodChanges(cs)
        PROVE  Moves(full, a, cs, b)
    <2>1. GoodChange(ch)
      BY <1>1, <1>3 DEF GoodChanges
    <2> SUFFICES ASSUME NEW g, Replays(g, cs), Shows(g[0], a, full)
                 PROVE  Shows(g[Len(cs)], b, full)
      BY DEF Moves
    <2>2. g[1] = Apply(g[0], Stored(ch))
      <3>1. 1 \in 1..Len(cs) /\ 1 - 1 = 0
        BY <1>1
      <3>2. g[1] = Apply(g[1 - 1], Stored(cs[1]))
        BY <3>1 DEF Replays
      <3> QED BY <1>1, <3>1, <3>2
    <2>3. Shows(Apply(g[0], ch), b, full)
      BY <1>3, <2>1
    <2>4. Apply(g[0], Stored(ch)) = Apply(g[0], ch)
      BY <2>1, StoredApplies
    <2> QED BY <1>1, <2>2, <2>3, <2>4
  <1>4. Carries(full, safe, a, cs, b)
    BY <1>1, <1>2, <1>3 DEF Carries
  <1> QED BY <1>4 DEF cs

-----------------------------------------------------------------------------
(* One kind of change after the other.                                     *)

\* A part of a line is inserted.
LEMMA LineIn ==
    ASSUME NEW u \in Texts, NEW v \in Texts, NEW row, NEW col, Place(u, row, col),
           NEW l \in Lines, NEW full \in BOOLEAN, NEW safe
    PROVE  Carries(full, safe, u ++ v, IF l # <<>> THEN <<InsertText(row, col, l)>> ELSE <<>>,
                   u ++ (l ++ v))
PROOF
  <1> DEFINE ch == InsertText(row, col, l)
             a == u ++ v
             b == u ++ (l ++ v)
  <1>1. l \in Texts /\ row \in Nat /\ col \in Nat
    BY LinesAreTexts, PlaceIs
  <1>2. a \in Texts /\ l ++ v \in Texts /\ b \in Texts
    BY <1>1, SumOfTwo
  <1>3. CASE l = <<>>
    <2>1. a = b
      BY <1>3, SumOfTexts
    <2> HIDE DEF a, b
    <2>2. Carries(full, safe, a, <<>>, a)
      BY <1>2, NoChange
    <2> QED BY <1>3, <2>1, <2>2 DEF a, b
  <1>4. CASE l # <<>>
    <2>1. ch \in Changes
      BY <1>1, OneChange
    <2>2. ch.type = "insertText" /\ ch.row = row /\ ch.from = col /\ ch.text = l
      BY DEF InsertText, Change
    <2>3. ASSUME NEW doc, Shows(doc, a, full)
          PROVE  Shows(Apply(doc, ch), b, full)
      BY <2>3, LineInserted
    <2> HIDE DEF ch
    <2>4. Does(a, ch, b)
      BY <2>2 DEF Does, Adds, Between, Content, IsBlock
    <2> HIDE DEF a, b
    <2>5. Carries(full, safe, a, <<ch>>, b)
      BY <1>2, <2>1, <2>3, <2>4, CarriesOne
    <2> QED BY <1>4, <2>5 DEF a, b, ch
  <1> QED BY <1>3, <1>4

\* A newline is inserted, safely at the end of the text or in a line that ends
\* in one.
LEMMA NewlineIn ==
    ASSUME NEW u \in Texts, NEW v \in Texts, NEW row, NEW col, Place(u, row, col)
    PROVE  Carries(FALSE, v = <<>> \/ Rows(v) # 0, u ++ v, <<InsertText(row, col, <<NL>>)>>,
                   u ++ (<<NL>> ++ v))
PROOF
  <1> DEFINE n == <<NL>>
             ch == InsertText(row, col, n)
             a == u ++ v
             b == u ++ (n ++ v)
             safe == v = <<>> \/ Rows(v) # 0
  <1>1. n \in Texts /\ row \in Nat /\ col \in Nat
    BY LinesAreTexts, PlaceIs
  <1>2. a \in Texts /\ b \in Texts
    BY <1>1, SumOfTwo
  <1>3. ch \in Changes
    BY <1>1, OneChange
  <1>4. ch.type = "insertText" /\ ch.row = row /\ ch.from = col /\ ch.text = n
    BY DEF InsertText, Change
  <1>5. ASSUME NEW doc, safe, Shows(doc, a, FALSE)
        PROVE  Shows(Apply(doc, ch), b, FALSE)
    BY <1>5, NewlineInserted
  <1> HIDE DEF ch, n
  <1>6. Does(a, ch, b)
    BY <1>1, <1>4 DEF Does, Adds, Between, Content, IsBlock
  <1> HIDE DEF a, b, safe
  <1>7. Carries(FALSE, safe, a, <<ch>>, b)
    BY <1>2, <1>3, <1>5, <1>6, CarriesOne
  <1> QED BY <1>7 DEF a, b, ch, n, safe

\* The texts around a block.
LEMMA BlockTexts ==
    ASSUME NEW u \in Texts, NEW v \in Texts, NEW ch \in Changes
    PROVE  /\ ch.text \in Texts /\ ch.text ++ <<NL>> \in Texts
           /\ u ++ v \in Texts /\ u ++ ((ch.text ++ <<NL>>) ++ v) \in Texts
PROOF
  <1>1. ch.text \in Texts /\ <<NL>> \in Texts
    BY LinesAreTexts DEF Changes
  <1> QED BY <1>1, SumOfTwo

\* A block is inserted in front of a row.
LEMMA BlockIn ==
    ASSUME NEW u \in Texts, NEW v \in Texts, NEW ch \in Changes, ch.type = "insertLines",
           ch.from = 0, Place(u, ch.row, 0), NEW full \in BOOLEAN, NEW safe
    PROVE  Carries(full, safe, u ++ v, <<ch>>, u ++ ((ch.text ++ <<NL>>) ++ v))
PROOF
  <1> DEFINE a == u ++ v
             b == u ++ ((ch.text ++ <<NL>>) ++ v)
  <1>1. ch.text \in Texts /\ a \in Texts /\ b \in Texts
    BY BlockTexts
  <1>2. Does(a, ch, b)
    BY DEF Does, Adds, Between, Content, IsBlock
  <1>3. ASSUME NEW doc, Shows(doc, a, full), GoodChange(ch)
        PROVE  Shows(Apply(doc, ch), b, full)
    <2>1. JavaSplit(ch.text) = Split(ch.text)
      BY <1>3 DEF GoodChange
    <2> QED BY <1>1, <1>3, <2>1, BlockInserted
  <1> HIDE DEF a, b
  <1>4. Carries(full, safe, a, <<ch>>, b)
    BY <1>1, <1>2, <1>3, CarriesOne
  <1> QED BY <1>4 DEF a, b

\* A block is removed.
LEMMA BlockOut ==
    ASSUME NEW u \in Texts, NEW v \in Texts, NEW ch \in Changes, ch.type = "removeLines",
           ch.from = 0, Place(u, ch.row, 0), NEW full \in BOOLEAN, NEW safe
    PROVE  Carries(full, safe, u ++ ((ch.text ++ <<NL>>) ++ v), <<ch>>, u ++ v)
PROOF
  <1> DEFINE a == u ++ v
             b == u ++ ((ch.text ++ <<NL>>) ++ v)
  <1>1. ch.text \in Texts /\ a \in Texts /\ b \in Texts
    BY BlockTexts
  <1>2. Does(b, ch, a)
    BY DEF Does, Adds, Between, Content, IsBlock
  <1>3. ASSUME NEW doc, Shows(doc, b, full), GoodChange(ch)
        PROVE  Shows(Apply(doc, ch), a, full)
    <2>1. JavaSplit(ch.text) = Split(ch.text)
      BY <1>3 DEF GoodChange
    <2> QED BY <1>1, <1>3, <2>1, BlockRemoved
  <1> HIDE DEF a, b
  <1>4. Carries(full, safe, b, <<ch>>, a)
    BY <1>1, <1>2, <1>3, CarriesOne
  <1> QED BY <1>4 DEF a, b

\* A block made of lines.
LEMMA LinesIn ==
    ASSUME NEW u \in Texts, NEW v \in Texts, NEW row, Place(u, row, 0),
           NEW ls \in Seq(Lines), NEW full \in BOOLEAN, NEW safe
    PROVE  Carries(full, safe, u ++ v, IF ls # <<>> THEN <<InsertLines(row, ls)>> ELSE <<>>,
                   u ++ (LinesText(ls) ++ v))
PROOF
  <1>1. CASE ls = <<>>
    <2>1. LinesText(ls) = <<>>
      <3>1. Terminated(ls) = <<>>
        <4>1. Len(Terminated(ls)) = 0 /\ Terminated(ls) \in Seq(Texts)
          BY <1>1, TerminatedTypes
        <4> QED BY <4>1, EmptySeq
      <3> QED BY <3>1, FlattenSum DEF LinesText
    <2>2. LinesText(ls) ++ v = v
      BY <2>1, SumOfTexts
    <2>3. u ++ v \in Texts
      BY SumOfTwo
    <2>4. Carries(full, safe, u ++ v, <<>>, u ++ v)
      BY <2>3, NoChange
    <2> QED BY <1>1, <2>2, <2>4
  <1>2. CASE ls # <<>>
    <2> DEFINE ch == InsertLines(row, ls)
    <2>1. ch.type = "insertLines" /\ ch.row = row /\ ch.from = 0 /\ ch.text = Joined(ls)
      BY DEF InsertLines, Change
    <2>2. ch \in Changes
      BY PlaceIs, OneChange
    <2>3. Joined(ls) ++ <<NL>> = LinesText(ls)
      BY <1>2, BlockText
    <2> HIDE DEF ch
    <2>4. Carries(full, safe, u ++ v, <<ch>>, u ++ ((ch.text ++ <<NL>>) ++ v))
      BY <2>1, <2>2, BlockIn
    <2> QED BY <1>2, <2>1, <2>3, <2>4 DEF ch
  <1> QED BY <1>1, <1>2

\* Whole lines are removed, in one block.
LEMMA LinesOut ==
    ASSUME NEW u \in Texts, NEW v \in Texts, NEW row, Place(u, row, 0),
           NEW ls \in Seq(Lines), ls # <<>>, NEW full \in BOOLEAN, NEW safe
    PROVE  Carries(full, safe, u ++ (LinesText(ls) ++ v), <<RemoveLines(row, ls)>>, u ++ v)
PROOF
  <1> DEFINE ch == RemoveLines(row, ls)
  <1>1. ch.type = "removeLines" /\ ch.row = row /\ ch.from = 0 /\ ch.text = Joined(ls)
    BY DEF RemoveLines, Change
  <1>2. ch \in Changes
    BY PlaceIs, OneChange
  <1>3. Joined(ls) ++ <<NL>> = LinesText(ls)
    BY BlockText
  <1> HIDE DEF ch
  <1>4. Carries(full, safe, u ++ ((ch.text ++ <<NL>>) ++ v), <<ch>>, u ++ v)
    BY <1>1, <1>2, BlockOut
  <1> QED BY <1>1, <1>3, <1>4 DEF ch

\* A part of a line is not a newline.
LEMMA LineIsNoNewline ==
    ASSUME NEW l \in Lines
    PROVE  l # <<NL>>
PROOF
  <1> SUFFICES ASSUME l = <<NL>> PROVE FALSE
    OBVIOUS
  <1>1. l \in Seq(Chars)
    BY DEF Lines
  <1>2. Len(l) = 1 /\ l[1] = NL
    OBVIOUS
  <1>3. l[1] \in Chars
    BY <1>1, <1>2
  <1> QED BY <1>2, <1>3, TextAssumption

\* A part of a line is removed, if there is any; that is not a good change.
LEMMA LineOut ==
    ASSUME NEW u \in Texts, NEW v \in Texts, NEW row, NEW c, Place(u, row, c),
           NEW lines, NEW l \in Lines, NEW d, d = c + Len(l), l = SubSeq(lines[row + 1], c + 1, d),
           NEW full \in BOOLEAN, NEW safe
    PROVE  Carries(full, safe, u ++ (l ++ v), RemovedInLine(lines, row, c, d), u ++ v)
PROOF
  <1> DEFINE ch == RemoveText(row, c, c + Len(l), l)
             a == u ++ (l ++ v)
             b == u ++ v
  <1>1. l \in Texts /\ row \in Nat /\ c \in Nat /\ Len(l) \in Nat /\ (l = <<>> <=> Len(l) = 0)
    <2>1. l \in Texts /\ row \in Nat /\ c \in Nat
      BY LinesAreTexts, PlaceIs
    <2>2. Len(l) \in Nat /\ (l # <<>> => Len(l) # 0)
      BY EmptySeq DEF Lines
    <2>3. l = <<>> => Len(l) = 0
      BY EmptySeq
    <2> QED BY <2>1, <2>2, <2>3
  <1>2. b \in Texts /\ l ++ v \in Texts /\ a \in Texts
    BY <1>1, SumOfTwo
  <1>3. CASE l = <<>>
    <2>1. a = b
      BY <1>3, SumOfTexts
    <2>2. c = d
      BY <1>1, <1>3
    <2>3. RemovedInLine(lines, row, c, d) = <<>>
      BY <2>2 DEF RemovedInLine
    <2> HIDE DEF a, b
    <2>4. Carries(full, safe, a, <<>>, a)
      BY <1>2, NoChange
    <2> QED BY <2>1, <2>3, <2>4 DEF a, b
  <1>4. CASE l # <<>>
    <2>1. c # d
      BY <1>1, <1>4
    <2>2. RemovedInLine(lines, row, c, d) = <<ch>>
      BY <2>1 DEF RemovedInLine
    <2>3. ch \in Changes
      BY <1>1, OneChange
    <2>4. ch.type = "removeText" /\ ch.row = row /\ ch.from = c /\ ch.text = l
      BY DEF RemoveText, Change
    <2>5. ~GoodChange(ch)
      <3>1. l # <<NL>>
        BY LineIsNoNewline
      <3> QED BY <2>4, <3>1 DEF GoodChange
    <2> HIDE DEF ch
    <2>6. Does(a, ch, b)
      BY <2>4 DEF Does, Adds, Between, Content, IsBlock
    <2> HIDE DEF a, b
    <2>7. Carries(full, safe, a, <<ch>>, b)
      BY <1>2, <2>3, <2>5, <2>6, CarriesOne
    <2> QED BY <2>2, <2>7 DEF a, b
  <1> QED BY <1>3, <1>4

\* A newline is removed, safely when something follows it.
LEMMA NewlineOut ==
    ASSUME NEW u \in Texts, NEW v \in Texts, NEW row, NEW col, Place(u, row, col),
           NEW full \in BOOLEAN
    PROVE  Carries(full, v # <<>> \/ full, u ++ (<<NL>> ++ v),
                   <<RemoveText(row, col, 0, <<NL>>)>>, u ++ v)
PROOF
  <1> DEFINE n == <<NL>>
             ch == RemoveText(row, col, 0, n)
             a == u ++ (n ++ v)
             b == u ++ v
             safe == v # <<>> \/ full
  <1>1. n \in Texts /\ row \in Nat /\ col \in Nat
    BY LinesAreTexts, PlaceIs
  <1>2. a \in Texts /\ b \in Texts
    BY <1>1, SumOfTwo
  <1>3. ch \in Changes
    BY <1>1, OneChange
  <1>4. ch.type = "removeText" /\ ch.row = row /\ ch.from = col /\ ch.text = n
    BY DEF RemoveText, Change
  <1> HIDE DEF ch
  <1>5. ASSUME NEW doc, safe, Shows(doc, a, full)
        PROVE  Shows(Apply(doc, ch), b, full)
    BY <1>3, <1>4, <1>5, NewlineRemoved
  <1> HIDE DEF n
  <1>6. Does(a, ch, b)
    BY <1>1, <1>4 DEF Does, Adds, Between, Content, IsBlock
  <1> HIDE DEF a, b, safe
  <1>7. Carries(full, safe, a, <<ch>>, b)
    BY <1>2, <1>3, <1>5, <1>6, CarriesOne
  <1> QED BY <1>7 DEF a, b, ch, n, safe

-----------------------------------------------------------------------------
(* The edits of the user.                                                  *)

\* An insertion: what is good for the newlines of the text is good for all of it.
LEMMA InsertedCarries ==
    ASSUME NEW u \in Texts, NEW v \in Texts, NEW t \in Texts, NEW row, NEW col,
           Place(u, row, col), NEW safe, safe => Rows(t) = 0 \/ v = <<>> \/ Rows(v) # 0
    PROVE  Carries(FALSE, safe, u ++ v, LinesInserted(Split(t), row, col), u ++ (t ++ v))
PROOF
  <1> DEFINE parts == Split(t)
             n == Len(parts)
             A == IF parts[1] # <<>> THEN <<InsertText(row, col, parts[1])>> ELSE <<>>
             B == IF n > 1 THEN <<InsertText(row, col + Len(parts[1]), <<NL>>)>> ELSE <<>>
             C == IF n > 2 THEN <<InsertLines(row + 1, SubSeq(parts, 2, n - 1))>> ELSE <<>>
             D == IF n > 1 /\ parts[n] # <<>>
                  THEN <<InsertText(row + n - 1, 0, parts[n])>> ELSE <<>>
  <1>1. LinesInserted(parts, row, col) = ((A ++ B) ++ C) ++ D
    BY DEF LinesInserted, ++
  <1>2. PICK ls \in Seq(Lines), l \in Lines :
            /\ parts = Append(ls, l) /\ Len(ls) = Rows(t)
            /\ t = LinesText(ls) ++ l
    BY TextOfParts
  <1>3. /\ n = Len(ls) + 1 /\ parts[n] = l /\ Len(ls) \in Nat
        /\ \A i \in 1..Len(ls) : parts[i] = ls[i]
    BY <1>2
  <1>4. /\ l \in Texts /\ <<NL>> \in Texts /\ <<>> \in Texts
        /\ row \in Nat /\ col \in Nat
    BY LinesAreTexts, PlaceIs, SumOfTexts
  <1>5. CASE Len(ls) = 0
    <2>1. n = 1 /\ parts[1] = l
      BY <1>3, <1>5
    <2>2. t = l
      <3>1. ls = <<>>
        BY <1>5, EmptySeq
      <3>2. LinesText(ls) = <<>>
        <4>1. Len(Terminated(ls)) = 0 /\ Terminated(ls) \in Seq(Texts)
          BY <1>5, TerminatedTypes
        <4>2. Terminated(ls) = <<>>
          BY <4>1, EmptySeq
        <4> QED BY <4>2, FlattenSum DEF LinesText
      <3> QED BY <1>2, <1>4, <3>2, SumOfTexts
    <2>3. B = <<>> /\ C = <<>> /\ D = <<>> /\ A = IF l # <<>> THEN <<InsertText(row, col, l)>> ELSE <<>>
      BY <2>1
    <2> HIDE DEF parts, n, A, B, C, D
    <2>4. Carries(FALSE, safe, u ++ v, A, u ++ (t ++ v))
      BY <2>2, <2>3, LineIn
    <2>5. A ++ <<>> = A
      <3>1. A \in Seq(Changes)
        BY <2>4 DEF Carries
      <3> QED BY <3>1, ConcatEmptySeq DEF ++
    <2>6. LinesInserted(parts, row, col) = A
      BY <1>1, <2>3, <2>5
    <2> QED BY <2>4, <2>6 DEF parts
  <1>6. CASE Len(ls) # 0
    <2> DEFINE p == ls[1]
               M == SubSeq(ls, 2, Len(ls))
               m == LinesText(M)
               u1 == u ++ p
               u2 == u1 ++ <<NL>>
               u3 == u2 ++ m
    <2>1. p \in Lines /\ p \in Texts /\ M \in Seq(Lines) /\ Len(M) = Len(ls) - 1
          /\ m \in Texts /\ Rows(m) = Len(M) /\ Whole(m)
      <3>1. ls # <<>>
        BY <1>6, EmptySeq
      <3>2. M \in Seq(Lines)
        BY <3>1, FirstOfSeq
      <3>3. Len(M) = Len(ls) - 1
        <4>1. Len(M) = IF 2 <= Len(ls) THEN Len(ls) - 2 + 1 ELSE 0
          BY <1>3, PartOfSeq
        <4> DEFINE k == Len(ls)
                   j == Len(M)
        <4>2. j = (IF 2 <= k THEN k - 2 + 1 ELSE 0) /\ k \in Nat /\ k # 0
          BY <1>3, <1>6, <4>1
        <4> HIDE DEF k, j
        <4>3. j = k - 1
          BY <4>2
        <4> QED BY <4>3 DEF k, j
      <3>4. p \in Lines
        BY <1>3, <1>6
      <3> HIDE DEF M, p
      <3> QED BY <3>2, <3>3, <3>4, LinesTextTypes, LinesAreTexts
    <2>2. LinesText(ls) = (p ++ <<NL>>) ++ m
      <3> DEFINE o == <<p>>
                 q == <<p ++ <<NL>>>>
                 T == Terminated(M)
      <3>1. ls = o ++ M
        <4>1. ls # <<>>
          BY <1>6, EmptySeq
        <4> QED BY <4>1, FirstOfSeq
      <3>2. T \in Seq(EndedLines) /\ T \in Seq(Texts) /\ Len(T) = Len(M) /\ Len(M) \in Nat
            /\ \A i \in 1..Len(M) : T[i] = M[i] ++ <<NL>>
        <4> HIDE DEF M, m
        <4>1. T \in Seq(EndedLines) /\ Len(T) = Len(M) /\ \A i \in 1..Len(M) : T[i] = M[i] ++ <<NL>>
          BY <2>1, TerminatedEnded
        <4>2. T \in Seq(Texts)
          BY <4>1, EndedDocument
        <4>3. Len(M) \in Nat
          BY <2>1, LenProperties
        <4> QED BY <4>1, <4>2, <4>3
      <3>3. q \in Seq(Texts) /\ FlattenSeq(q) = p ++ <<NL>> /\ Len(q) = 1 /\ q[1] = p ++ <<NL>>
        BY <1>4, <2>1, SumOfTwo, FlattenSum
      <3>4. o \in Seq(Lines) /\ Len(o) = 1 /\ o[1] = p
        BY <2>1
      <3> HIDE DEF o, q, T, M, p
      <3>5. Terminated(o ++ M) = q ++ T
        <4>1. o ++ M \in Seq(Lines) /\ Len(o ++ M) = 1 + Len(M)
          BY <2>1, <3>4, SumLength
        <4>2. /\ Terminated(o ++ M) \in Seq(EndedLines)
              /\ Len(Terminated(o ++ M)) = 1 + Len(M)
              /\ \A i \in 1..1 + Len(M) : Terminated(o ++ M)[i] = (o ++ M)[i] ++ <<NL>>
          BY <4>1, TerminatedEnded
        <4>3. Terminated(o ++ M) \in Seq(Texts)
          BY <4>2, EndedDocument
        <4>4. q ++ T \in Seq(Texts) /\ Len(q ++ T) = 1 + Len(M)
          <5>1. q ++ T \in Seq(Texts) /\ Len(q ++ T) = Len(q) + Len(T)
            BY <3>2, <3>3, SumLength
          <5> QED BY <3>2, <3>3, <5>1
        <4>5. ASSUME NEW i \in 1..1 + Len(M)
              PROVE  Terminated(o ++ M)[i] = (q ++ T)[i]
          <5>1. CASE i = 1
            <6>1. (o ++ M)[1] = o[1]
              BY <2>1, <3>4, SumLeft
            <6>2. (q ++ T)[1] = q[1]
              <7>1. 1 \in 1..Len(q)
                BY <3>3
              <7> QED BY <3>2, <3>3, <7>1, SumLeft
            <6> QED BY <3>3, <3>4, <4>2, <5>1, <6>1, <6>2
          <5>2. CASE i # 1
            <6> DEFINE j == i - 1
            <6>1. j \in 1..Len(M) /\ j \in 1..Len(T) /\ 1 + j = i
              BY <3>2, <5>2
            <6> HIDE DEF j
            <6>2. (o ++ M)[Len(o) + j] = M[j]
              <7>1. o \in Seq(Lines) /\ M \in Seq(Lines) /\ j \in 1..Len(M)
                BY <2>1, <3>4, <6>1
              <7> QED BY <7>1, SumRight
            <6>3. (q ++ T)[Len(q) + j] = T[j]
              <7>1. q \in Seq(Texts) /\ T \in Seq(Texts) /\ j \in 1..Len(T)
                BY <3>2, <3>3, <6>1
              <7> QED BY <7>1, SumRight
            <6> QED BY <3>2, <3>3, <3>4, <4>2, <6>1, <6>2, <6>3
          <5> QED BY <5>1, <5>2
        <4> QED BY <4>2, <4>3, <4>4, <4>5, SeqEqual
      <3>6. FlattenSeq(q ++ T) = FlattenSeq(q) ++ FlattenSeq(T)
        BY <3>2, <3>3, FlattenOfTwo
      <3> QED BY <3>1, <3>3, <3>5, <3>6 DEF LinesText, T
    <2>3. n > 1 /\ parts[1] = p
      <3>1. 1 \in 1..Len(ls)
        BY <1>3, <1>6
      <3> QED BY <1>3, <3>1
    <2>4. SubSeq(parts, 2, n - 1) = M
      <3>1. n - 1 = Len(ls) /\ n = Len(ls) + 1
        BY <1>3
      <3> QED BY <1>2, <3>1, <1>3
    <2>5. n > 2 <=> M # <<>>
      <3> HIDE DEF M, n
      <3>1. M # <<>> <=> Len(M) # 0
        BY <2>1, EmptySeq
      <3> QED BY <1>3, <1>6, <2>1, <3>1
    <2>6. /\ B = <<InsertText(row, col + Len(p), <<NL>>)>>
          /\ C = IF M # <<>> THEN <<InsertLines(row + 1, M)>> ELSE <<>>
          /\ A = IF p # <<>> THEN <<InsertText(row, col, p)>> ELSE <<>>
          /\ D = IF l # <<>> THEN <<InsertText(row + n - 1, 0, l)>> ELSE <<>>
      BY <1>3, <2>3, <2>4, <2>5
    <2> HIDE DEF A, B, C, D, M, p, m, n
    <2>7. /\ u1 \in Texts /\ u2 \in Texts /\ u3 \in Texts
          /\ Place(u1, row, col + Len(p))
      BY <1>4, <2>1, SumOfTwo, PlaceMoves
    <2>8. Place(u2, row + 1, 0)
      <3> HIDE DEF u1
      <3> QED BY <2>7, PlaceMoves
    <2> HIDE DEF u2
    <2>9. Place(u3, row + n - 1, 0)
      <3>1. Whole(u2)
        BY <2>7, <2>8, PlaceMoves
      <3>2. Whole(u3)
        BY <2>1, <2>7, <3>1, WholeSum
      <3>3. Rows(u2) = row + 1
        BY <2>7, <2>8, PlaceIs
      <3>4. Rows(u3) = Rows(u2) + Rows(m)
        BY <2>1, <2>7, RowsOfTwo
      <3>5. Rows(u3) = row + n - 1
        BY <1>3, <1>4, <2>1, <3>3, <3>4
      <3> HIDE DEF u3
      <3>6. Place(u3, Rows(u3), 0)
        BY <2>7, <3>2, PlaceMoves
      <3> QED BY <3>5, <3>6
    <2>10. Carries(FALSE, safe, u ++ v, A, u ++ (p ++ v))
      BY <2>1, <2>6, LineIn
    <2>11. Carries(FALSE, safe, u1 ++ v, B, u1 ++ (<<NL>> ++ v))
      <3>1. Carries(FALSE, v = <<>> \/ Rows(v) # 0, u1 ++ v, B, u1 ++ (<<NL>> ++ v))
        <4> HIDE DEF u1
        <4> QED BY <2>6, <2>7, NewlineIn
      <3>2. safe => v = <<>> \/ Rows(v) # 0
        BY <1>2, <1>6
      <3> DEFINE good == v = <<>> \/ Rows(v) # 0
      <3> HIDE DEF u1, good
      <3>3. Carries(FALSE, good, u1 ++ v, B, u1 ++ (<<NL>> ++ v)) /\ (safe => good)
        BY <3>1, <3>2 DEF good
      <3> QED BY <3>3, LessSafe
    <2>12. Carries(FALSE, safe, u2 ++ v, C, u2 ++ (m ++ v))
      BY <2>1, <2>6, <2>7, <2>8, LinesIn DEF m
    <2>13. Carries(FALSE, safe, u3 ++ v, D, u3 ++ (l ++ v))
      <3> HIDE DEF u3
      <3> QED BY <2>6, <2>7, <2>9, LineIn
    <2>14. u ++ (p ++ v) = u1 ++ v
      BY <2>1, Regroup
    <2>15. u1 ++ (<<NL>> ++ v) = u2 ++ v
      <3> HIDE DEF u1
      <3> QED BY <1>4, <2>7, Regroup DEF u2
    <2>16. u2 ++ (m ++ v) = u3 ++ v
      BY <2>1, <2>7, Regroup
    <2>17. u3 ++ (l ++ v) = u ++ (t ++ v)
      <3> DEFINE k == p ++ <<NL>>
                 mv == m ++ (l ++ v)
      <3>1. l ++ v \in Texts /\ k \in Texts /\ mv \in Texts
        BY <1>4, <2>1, SumOfTwo
      <3>2. u3 ++ (l ++ v) = u2 ++ mv
        BY <2>1, <2>7, <3>1, Regroup
      <3>3. u2 = u ++ k
        BY <1>4, <2>1, Regroup DEF u2
      <3> HIDE DEF mv, k
      <3>4. (u ++ k) ++ mv = u ++ (k ++ mv)
        BY <3>1, Regroup
      <3>5. (k ++ m) ++ (l ++ v) = k ++ mv
        BY <2>1, <3>1, Regroup DEF mv
      <3>6. ((k ++ m) ++ l) ++ v = (k ++ m) ++ (l ++ v)
        <4>1. k ++ m \in Texts
          BY <2>1, <3>1, SumOfTwo
        <4> QED BY <1>4, <4>1, Regroup
      <3>7. t = (k ++ m) ++ l
        BY <1>2, <2>2 DEF k
      <3> QED BY <3>2, <3>3, <3>4, <3>5, <3>6, <3>7
    <2> HIDE DEF u1, u3
    <2> DEFINE s0 == u ++ v
               s1 == u1 ++ v
               s2 == u2 ++ v
               s3 == u3 ++ v
               s4 == u ++ (t ++ v)
    <2>18. /\ Carries(FALSE, safe, s0, A, s1) /\ Carries(FALSE, safe, s1, B, s2)
           /\ Carries(FALSE, safe, s2, C, s3) /\ Carries(FALSE, safe, s3, D, s4)
      BY <2>10, <2>11, <2>12, <2>13, <2>14, <2>15, <2>16, <2>17
    <2> HIDE DEF s0, s1, s2, s3, s4
    <2>19. Carries(FALSE, safe, s0, A ++ B, s2)
      BY <2>18, CarriesJoined
    <2>20. Carries(FALSE, safe, s0, (A ++ B) ++ C, s3)
      BY <2>18, <2>19, CarriesJoined
    <2>21. Carries(FALSE, safe, s0, ((A ++ B) ++ C) ++ D, s4)
      BY <2>18, <2>20, CarriesJoined
    <2> QED BY <1>1, <2>21 DEF s0, s4, parts
  <1> QED BY <1>5, <1>6

\* The place where a row starts.
LEMMA RowStartPlace ==
    ASSUME NEW s \in Texts, NEW row \in 0..Rows(s)
    PROVE  /\ RowStart(s, row) \in 0..Len(s)
           /\ Place(Cut(s, 0, RowStart(s, row)), row, 0)
PROOF
  <1>1. 0 \in 0..Rows(s) /\ row \in Nat /\ Rows(s) \in Nat
    BY RowsType
  <1>2. RowStart(s, 0) = 0
    BY <1>1, RowPart
  <1> DEFINE ls == SubSeq(Split(s), 0 + 1, row)
             w == Cut(s, 0, RowStart(s, row))
  <1>3. /\ ls \in Seq(Lines) /\ Len(ls) = row - 0 /\ RowStart(s, row) \in 0..Len(s)
        /\ LinesText(ls) = w
    <2>1. row \in 0..Rows(s) /\ 0 \in 0..Rows(s)
      BY <1>1
    <2> QED BY <1>2, <2>1, RowsBetween
  <1> HIDE DEF ls, w
  <1>4. w \in Texts /\ Whole(w) /\ Rows(w) = row
    BY <1>1, <1>3, LinesTextTypes
  <1>5. Place(w, row, 0)
    BY <1>4, PlaceMoves
  <1> QED BY <1>3, <1>5 DEF w

\* The middle one of three parts.
LEMMA MiddlePart ==
    ASSUME NEW x \in Texts, NEW y \in Texts, NEW z \in Texts
    PROVE  SubSeq(x ++ (y ++ z), Len(x) + 1, Len(x) + Len(y)) = y
PROOF
  <1> DEFINE r == y ++ z
  <1>1. r \in Texts /\ Len(r) = Len(y) + Len(z) /\ Len(y) \in Nat /\ Len(z) \in Nat
    BY SumOfTwo
  <1>2. SubSeq(r, 1, Len(y)) = y
    BY PartsOf
  <1> HIDE DEF r
  <1>3. 1 \in 1..Len(r) + 1 /\ Len(y) \in 0..Len(r)
    BY <1>1
  <1>4. SubSeq(x ++ r, Len(x) + 1, Len(x) + Len(y)) = SubSeq(r, 1, Len(y))
    BY <1>1, <1>3, PieceOfConcat DEF ++
  <1> QED BY <1>2, <1>4 DEF r

\* A part of a row, cut from the text or from its line.
LEMMA InRow ==
    ASSUME NEW s \in Texts, NEW r \in 0..Rows(s),
           NEW p \in 0..Len(s), NEW q \in p..Len(s),
           RowStart(s, r) <= p, q <= RowEnd(s, r)
    PROVE  /\ SubSeq(Split(s)[r + 1], p - RowStart(s, r) + 1, q - RowStart(s, r)) = Cut(s, p, q)
           /\ Cut(s, p, q) \in Lines
           /\ Len(Cut(s, p, q)) = q - p
           /\ Len(Split(s)[r + 1]) = RowEnd(s, r) - RowStart(s, r)
PROOF
  <1> DEFINE b == RowStart(s, r)
             e == RowEnd(s, r)
             x == Cut(s, b, p)
             y == Cut(s, p, q)
             z == Cut(s, q, e)
             line == Split(s)[r + 1]
  <1>1. /\ line = Cut(s, b, e) /\ line \in Lines
        /\ b \in 0..Len(s) /\ e \in 0..Len(s) /\ b <= e /\ Len(s) \in Nat
    BY RowPart, SumOfTexts DEF Cut
  <1> HIDE DEF b, e
  <1>2. b <= p /\ q <= e
    BY DEF b, e
  <1>3. /\ b \in 0..Len(s) /\ p \in b..Len(s) /\ q \in p..Len(s) /\ e \in q..Len(s)
        /\ e \in p..Len(s) /\ e \in b..Len(s) /\ q \in 0..Len(s)
    BY <1>1, <1>2
  <1>4. x \in Texts /\ Len(x) = p - b
    BY <1>3, CutTypes
  <1>5. y \in Texts /\ Len(y) = q - p
    BY CutTypes
  <1>6. z \in Texts
    BY <1>3, CutTypes
  <1>7. Cut(s, p, e) = y ++ z
    BY <1>3, CutSum
  <1>8. Cut(s, b, e) = x ++ Cut(s, p, e)
    BY <1>3, CutSum
  <1>9. Len(line) = e - b
    BY <1>1, <1>3, CutTypes
  <1>10. line = x ++ (y ++ z)
    BY <1>1, <1>7, <1>8
  <1> HIDE DEF x, y, z, line
  <1>11. y \in Lines
    BY <1>1, <1>4, <1>5, <1>6, <1>10, SumOfTwo, SumIsLine
  <1>12. SubSeq(line, Len(x) + 1, Len(x) + Len(y)) = y
    BY <1>4, <1>5, <1>6, <1>10, MiddlePart
  <1>13. Len(x) + 1 = p - b + 1 /\ Len(x) + Len(y) = q - b
    BY <1>1, <1>3, <1>4, <1>5
  <1>14. SubSeq(line, p - b + 1, q - b) = y
    BY <1>12, <1>13
  <1> QED BY <1>5, <1>9, <1>11, <1>14 DEF y, line, b, e

\* A removal within a row.
LEMMA RowCarries ==
    ASSUME NEW s \in Texts, NEW p \in 0..Len(s), NEW q \in p..Len(s), Row(s, p) = Row(s, q),
           NEW full \in BOOLEAN, NEW safe
    PROVE  Carries(full, safe, s, RemoveChanges(s, p, q), Cut(s, 0, p) ++ Cut(s, q, Len(s)))
PROOF
  <1> DEFINE r == Row(s, p)
             b == RowStart(s, r)
             u == Cut(s, 0, p)
             l == Cut(s, p, q)
             v == Cut(s, q, Len(s))
             c == Column(s, p)
             d == Column(s, q)
             lines == Split(s)
  <1>1. p \in Nat /\ q \in Nat /\ q \in 0..Len(s) /\ Len(s) \in Nat
    BY SumOfTexts
  <1>2. r \in 0..Rows(s) /\ b <= p /\ q <= RowEnd(s, r) /\ b \in 0..Len(s)
    <2>1. r \in 0..Rows(s) /\ b <= p
      BY RowOfPosition DEF Rows
    <2>2. q <= RowEnd(s, r)
      BY <1>1, RowOfPosition
    <2>3. b \in 0..Len(s)
      BY <2>1, RowPart
    <2> QED BY <2>1, <2>2, <2>3
  <1>3. c = p - b /\ d = q - b
    BY DEF Column
  <1>4. SubSeq(lines[r + 1], c + 1, d) = l /\ l \in Lines /\ Len(l) = q - p
    BY <1>2, <1>3, InRow
  <1>5. u \in Texts /\ Place(u, r, c)
    <2>1. Place(SubSeq(s, 1, p), r, c) /\ SubSeq(s, 1, p) \in Texts
      BY PlaceOf, CutAt
    <2> QED BY <2>1 DEF Cut
  <1>6. v \in Texts /\ l \in Texts
    <2>1. v \in Texts
      BY <1>1, CutTypes
    <2> QED BY <2>1, CutTypes
  <1>7. s = u ++ (l ++ v)
    <2>1. s = u ++ Cut(s, p, Len(s))
      BY CutAt DEF Cut
    <2>2. Cut(s, p, Len(s)) = l ++ v
      BY <1>1, CutSum
    <2> QED BY <2>1, <2>2
  <1>8. d = c + Len(l) /\ c \in Nat
    BY <1>1, <1>2, <1>3, <1>4
  <1>9. RemoveChanges(s, p, q) = RemovedInLine(lines, r, c, d)
    BY DEF RemoveChanges, LinesRemoved
  <1> HIDE DEF r, b, u, l, v, c, d, lines
  <1>10. Carries(full, safe, u ++ (l ++ v), RemovedInLine(lines, r, c, d), u ++ v)
    BY <1>4, <1>5, <1>6, <1>8, LineOut
  <1> QED BY <1>7, <1>9, <1>10 DEF u, v

\* The whole lines from one row to another.
LEMMA RowsCarry ==
    ASSUME NEW s \in Texts, NEW k \in 0..Rows(s), NEW m \in k..Rows(s), NEW v \in Texts,
           NEW full \in BOOLEAN, NEW safe
    PROVE  Carries(full, safe, Cut(s, 0, RowStart(s, m)) ++ v,
                   IF k < m THEN <<RemoveLines(k, SubSeq(Split(s), k + 1, m))>> ELSE <<>>,
                   Cut(s, 0, RowStart(s, k)) ++ v)
PROOF
  <1> DEFINE ls == SubSeq(Split(s), k + 1, m)
             bk == RowStart(s, k)
             bm == RowStart(s, m)
             u == Cut(s, 0, bk)
             w == Cut(s, 0, bm)
  <1>1. k \in Nat /\ m \in Nat /\ k <= m /\ m \in 0..Rows(s) /\ Rows(s) \in Nat /\ Len(s) \in Nat
    BY RowsType, SumOfTexts
  <1>2. /\ ls \in Seq(Lines) /\ Len(ls) = m - k /\ bk <= bm
        /\ bk \in 0..Len(s) /\ bm \in 0..Len(s) /\ LinesText(ls) = Cut(s, bk, bm)
    BY RowsBetween
  <1>3. Place(u, k, 0)
    BY RowStartPlace
  <1> HIDE DEF ls, bk, bm, u, w
  <1>4. u \in Texts /\ w \in Texts /\ w = u ++ LinesText(ls) /\ LinesText(ls) \in Texts
    <2>1. 0 \in 0..Len(s) /\ bk \in 0..Len(s) /\ bm \in 0..Len(s) /\ bm \in bk..Len(s)
      BY <1>1, <1>2
    <2>2. u \in Texts /\ w \in Texts
      BY <2>1, CutTypes DEF u, w
    <2>3. LinesText(ls) \in Texts
      BY <1>2, <2>1, CutTypes
    <2>4. Cut(s, 0, bm) = Cut(s, 0, bk) ++ Cut(s, bk, bm)
      BY <2>1, CutSum
    <2> QED BY <1>2, <2>2, <2>3, <2>4 DEF u, w
  <1>5. CASE k = m
    <2>1. u = w
      BY <1>5 DEF u, w, bk, bm
    <2>2. u ++ v \in Texts
      BY <1>4, SumOfTwo
    <2>3. Carries(full, safe, u ++ v, <<>>, u ++ v)
      BY <2>2, NoChange
    <2>4. ~(k < m)
      BY <1>1, <1>5
    <2> QED BY <2>1, <2>3, <2>4 DEF u, w, bk, bm
  <1>6. CASE k # m
    <2>1. k < m /\ ls # <<>>
      BY <1>1, <1>2, <1>6, EmptySeq
    <2>2. Carries(full, safe, u ++ (LinesText(ls) ++ v), <<RemoveLines(k, ls)>>, u ++ v)
      BY <1>2, <1>3, <1>4, <2>1, LinesOut
    <2>3. w ++ v = u ++ (LinesText(ls) ++ v)
      BY <1>4, Regroup
    <2> QED BY <2>1, <2>2, <2>3 DEF u, w, bk, bm, ls
  <1> QED BY <1>5, <1>6

\* The rest of a row and its newline.
LEMMA EndOfRowCarries ==
    ASSUME NEW s \in Texts, NEW p \in 0..Len(s), Row(s, p) # Rows(s), NEW v \in Texts,
           NEW full \in BOOLEAN
    PROVE  LET r == Row(s, p)
               c == Column(s, p)
           IN  Carries(full, v # <<>> \/ full, Cut(s, 0, RowStart(s, r + 1)) ++ v,
                       RemovedInLine(Split(s), r, c, Len(Split(s)[r + 1]))
                          ++ <<RemoveText(r, c, 0, <<NL>>)>>,
                       Cut(s, 0, p) ++ v)
PROOF
  <1> DEFINE r == Row(s, p)
             c == Column(s, p)
             b == RowStart(s, r)
             e == RowEnd(s, r)
             n == RowStart(s, r + 1)
             u == Cut(s, 0, p)
             l == Cut(s, p, e)
             lines == Split(s)
             d == Len(lines[r + 1])
             safe == v # <<>> \/ full
  <1>1. p \in Nat /\ Len(s) \in Nat /\ <<NL>> \in Texts /\ Len(<<NL>>) = 1
    BY SumOfTexts, LinesAreTexts
  <1>2. r \in 0..Rows(s) /\ b <= p /\ p <= e /\ r \in Nat
    <2>1. r \in 0..Rows(s) /\ b <= p /\ p <= e
      BY RowOfPosition DEF Rows
    <2> QED BY <2>1, RowsType
  <1>3. b \in 0..Len(s) /\ e \in 0..Len(s)
    BY <1>2, RowPart
  <1>4. n = e + 1 /\ e + 1 \in Newlines(s)
    BY <1>2, NextRow
  <1>5. Cut(s, e, n) = <<NL>> /\ n \in 0..Len(s)
    <2>1. n \in Newlines(s) /\ n - 1 = e
      BY <1>3, <1>4
    <2>2. Cut(s, n - 1, n) = <<NL>>
      BY <2>1, CutNewline
    <2>3. n \in 0..Len(s)
      BY <2>1 DEF Newlines
    <2> QED BY <2>1, <2>2, <2>3
  <1>6. c = p - b
    BY DEF Column
  <1>7. SubSeq(lines[r + 1], c + 1, d) = l /\ l \in Lines /\ Len(l) = e - p /\ d = e - b
    <2>1. e \in p..Len(s) /\ e <= e
      BY <1>2, <1>3
    <2> HIDE DEF r
    <2>2. /\ SubSeq(lines[r + 1], p - b + 1, e - b) = l /\ l \in Lines /\ Len(l) = e - p
          /\ d = e - b
      BY <1>2, <2>1, InRow
    <2> QED BY <1>6, <2>2
  <1>8. u \in Texts /\ Place(u, r, c)
    <2>1. Place(SubSeq(s, 1, p), r, c) /\ SubSeq(s, 1, p) \in Texts
      BY PlaceOf, CutAt
    <2> QED BY <2>1 DEF Cut
  <1>9. l \in Texts /\ <<NL>> ++ v \in Texts
    BY <1>1, <1>7, LinesAreTexts, SumOfTwo
  <1>10. Cut(s, 0, n) = u ++ (l ++ <<NL>>)
    <2> HIDE DEF e, n
    <2>1. /\ 0 \in 0..Len(s) /\ p \in 0..Len(s) /\ n \in p..Len(s) /\ e \in p..Len(s) /\ n \in e..Len(s)
      BY <1>1, <1>2, <1>3, <1>4, <1>5
    <2>2. Cut(s, 0, n) = Cut(s, 0, p) ++ Cut(s, p, n)
      BY <2>1, CutSum
    <2>3. Cut(s, p, n) = Cut(s, p, e) ++ Cut(s, e, n)
      BY <2>1, CutSum
    <2> QED BY <1>5, <2>2, <2>3
  <1>11. d = c + Len(l)
    BY <1>1, <1>2, <1>3, <1>6, <1>7
  <1> DEFINE a == Cut(s, 0, n) ++ v
             m == u ++ (<<NL>> ++ v)
             z == u ++ v
             cs == RemovedInLine(lines, r, c, d)
             ds == <<RemoveText(r, c, 0, <<NL>>)>>
  <1> HIDE DEF r, c, b, e, n, u, l, lines, d
  <1>12. a = u ++ (l ++ (<<NL>> ++ v))
    <2> DEFINE k == l ++ <<NL>>
    <2>1. k \in Texts
      BY <1>1, <1>9, SumOfTwo
    <2>2. (l ++ <<NL>>) ++ v = l ++ (<<NL>> ++ v)
      BY <1>1, <1>9, Regroup
    <2> HIDE DEF k
    <2>3. (u ++ k) ++ v = u ++ (k ++ v)
      BY <1>8, <2>1, Regroup
    <2> QED BY <1>10, <2>2, <2>3 DEF k
  <1>13. Carries(full, safe, a, cs, m)
    <2> DEFINE nv == <<NL>> ++ v
    <2>1. nv \in Texts
      BY <1>9
    <2> HIDE DEF nv, safe
    <2>2. Carries(full, safe, u ++ (l ++ nv), cs, u ++ nv)
      BY <1>7, <1>8, <1>11, <2>1, LineOut
    <2> QED BY <1>12, <2>2 DEF nv
  <1>14. Carries(full, safe, m, ds, z)
    BY <1>8, NewlineOut
  <1> HIDE DEF a, m, z, cs, ds, safe
  <1>15. Carries(full, safe, a, cs ++ ds, z)
    BY <1>13, <1>14, CarriesJoined
  <1> QED BY <1>15 DEF a, z, cs, ds, safe, r, c, n, u, lines, d

\* A removal over several rows.
LEMMA RowsCarries ==
    ASSUME NEW s \in Texts, NEW p \in 0..Len(s), NEW q \in p..Len(s), Row(s, p) # Row(s, q),
           NEW full \in BOOLEAN
    PROVE  Carries(full, Cut(s, q, Len(s)) # <<>> \/ full, s, RemoveChanges(s, p, q),
                   Cut(s, 0, p) ++ Cut(s, q, Len(s)))
PROOF
  <1> DEFINE r == Row(s, p)
             c == Column(s, p)
             m == Row(s, q)
             d == Column(s, q)
             bm == RowStart(s, m)
             w == Cut(s, 0, bm)
             l == Cut(s, bm, q)
             v == Cut(s, q, Len(s))
             lines == Split(s)
             safe == v # <<>> \/ full
             k == IF c = 0 THEN r ELSE r + 1
             u == Cut(s, 0, p)
  <1>1. p \in Nat /\ q \in Nat /\ q \in 0..Len(s) /\ Len(s) \in Nat /\ p <= q /\ Rows(s) \in Nat
    BY SumOfTexts, RowsType
  <1>2. r \in 0..Rows(s) /\ RowStart(s, r) <= p
    BY RowOfPosition DEF Rows
  <1>3. m \in 0..Rows(s) /\ bm <= q /\ q <= RowEnd(s, m)
    BY <1>1, RowOfPosition DEF Rows
  <1>4. r < m /\ r \in Nat /\ m \in Nat
    <2>1. r <= m
      BY <1>1, RowMonotone
    <2> QED BY <1>1, <1>2, <1>3, <2>1
  <1>5. bm \in 0..Len(s) /\ Place(w, m, 0)
    BY <1>3, RowStartPlace
  <1>6. w \in Texts /\ v \in Texts
    <2>1. 0 \in 0..Len(s) /\ Len(s) \in q..Len(s)
      BY <1>1
    <2>2. w \in Texts
      BY <1>5, <2>1, CutTypes
    <2> QED BY <1>1, <2>1, <2>2, CutTypes
  <1>7. SubSeq(lines[m + 1], 0 + 1, d) = l /\ l \in Lines /\ Len(l) = q - bm
    <2> HIDE DEF m, bm
    <2>1. q \in bm..Len(s) /\ bm <= bm /\ bm \in Nat /\ bm - bm = 0
      BY <1>1, <1>3, <1>5
    <2>2. /\ SubSeq(lines[m + 1], bm - bm + 1, q - bm) = l /\ l \in Lines /\ Len(l) = q - bm
      BY <1>3, <1>5, <2>1, InRow DEF bm
    <2> QED BY <2>1, <2>2 DEF Column, bm, m
  <1>8. d = 0 + Len(l)
    <2>1. d = q - bm
      BY DEF Column
    <2> QED BY <1>1, <1>5, <1>7, <2>1
  <1>9. l \in Texts
    BY <1>7, LinesAreTexts
  <1>10. s = w ++ (l ++ v)
    <2> HIDE DEF bm
    <2>1. /\ 0 \in 0..Len(s) /\ Len(s) \in bm..Len(s) /\ q \in bm..Len(s) /\ Len(s) \in q..Len(s)
          /\ bm \in 0..Len(s)
      BY <1>1, <1>3, <1>5
    <2>2. s = w ++ Cut(s, bm, Len(s))
      BY <1>5, CutAt DEF Cut
    <2>3. Cut(s, bm, Len(s)) = l ++ v
      BY <2>1, CutSum
    <2> QED BY <2>2, <2>3
  <1> DEFINE A == RemovedInLine(lines, m, 0, d)
             B == IF k < m THEN <<RemoveLines(k, SubSeq(lines, k + 1, m))>> ELSE <<>>
             C == RemovedInLine(lines, r, c, Len(lines[r + 1])) ++ <<RemoveText(r, c, 0, <<NL>>)>>
  <1>11. RemoveChanges(s, p, q) = IF c = 0 THEN (A ++ B) ++ <<>> ELSE (A ++ B) ++ C
    BY DEF RemoveChanges, LinesRemoved, ++
  <1>12. k \in 0..Rows(s) /\ m \in k..Rows(s)
    BY <1>1, <1>2, <1>3, <1>4
  <1> DEFINE wv == w ++ v
             kv == Cut(s, 0, RowStart(s, k)) ++ v
             uv == u ++ v
  <1>13. Carries(full, safe, s, A, wv)
    <2> HIDE DEF safe, m, bm, w, v, l, lines, d
    <2>1. Carries(full, safe, w ++ (l ++ v), RemovedInLine(lines, m, 0, d), w ++ v)
      BY <1>5, <1>6, <1>7, <1>8, LineOut
    <2> QED BY <1>10, <2>1
  <1>14. Carries(full, safe, wv, B, kv)
    <2> HIDE DEF safe, m, k, v
    <2> QED BY <1>6, <1>12, RowsCarry DEF m
  <1>15. Carries(full, safe, s, A ++ B, kv)
    <2> HIDE DEF safe, A, B, wv, kv
    <2> QED BY <1>13, <1>14, CarriesJoined
  <1>16. CASE c = 0
    <2>1. kv = uv
      <3>1. k = r /\ RowStart(s, r) \in 0..Len(s)
        BY <1>2, <1>16, RowPart
      <3>2. p = RowStart(s, r)
        <4>1. p - RowStart(s, r) = 0
          BY <1>16 DEF Column
        <4> QED BY <1>1, <3>1, <4>1
      <3> QED BY <3>1, <3>2
    <2>2. (A ++ B) ++ <<>> = A ++ B
      <3>1. A ++ B \in Seq(Changes)
        BY <1>15 DEF Carries
      <3> QED BY <3>1, ConcatEmptySeq DEF ++
    <2> HIDE DEF A, B, C, kv, c, safe
    <2>3. RemoveChanges(s, p, q) = A ++ B
      BY <1>11, <1>16, <2>2
    <2> QED BY <1>15, <2>1, <2>3 DEF safe
  <1>17. CASE c # 0
    <2>1. k = r + 1
      BY <1>17
    <2>2. Carries(full, safe, kv, C, uv)
      <3>1. r # Rows(s)
        BY <1>1, <1>3, <1>4
      <3> HIDE DEF v
      <3>2. Carries(full, v # <<>> \/ full, Cut(s, 0, RowStart(s, r + 1)) ++ v, C, uv)
        BY <1>6, <3>1, EndOfRowCarries
      <3> QED BY <2>1, <3>2
    <2> HIDE DEF A, B, C, kv, c, safe, uv
    <2>3. Carries(full, safe, s, (A ++ B) ++ C, uv)
      BY <1>15, <2>2, CarriesJoined
    <2>4. RemoveChanges(s, p, q) = (A ++ B) ++ C
      BY <1>11, <1>17
    <2> QED BY <2>3, <2>4 DEF safe, uv
  <1> QED BY <1>16, <1>17

\* A removal, within a row or over several.
LEMMA RemovedCarries ==
    ASSUME NEW s \in Texts, NEW p \in 0..Len(s), NEW q \in p..Len(s), NEW full \in BOOLEAN
    PROVE  Carries(full, Cut(s, q, Len(s)) # <<>> \/ full, s, RemoveChanges(s, p, q),
                   Cut(s, 0, p) ++ Cut(s, q, Len(s)))
PROOF
  <1>1. CASE Row(s, p) = Row(s, q)
    <2> DEFINE safe == Cut(s, q, Len(s)) # <<>> \/ full
    <2> HIDE DEF safe
    <2>1. Carries(full, safe, s, RemoveChanges(s, p, q), Cut(s, 0, p) ++ Cut(s, q, Len(s)))
      BY <1>1, RowCarries
    <2> QED BY <2>1 DEF safe
  <1>2. CASE Row(s, p) # Row(s, q)
    BY <1>2, RowsCarries
  <1> QED BY <1>1, <1>2

\* What an edit reports leads to its text.
EditCarries(s, e) == Carries(FALSE, e.good, s, e.changes, e.text)

\* A newline behind a position is one of the text that follows it.
LEMMA NewlineAfter ==
    ASSUME NEW s \in Texts, NEW p \in 0..Len(s), NEW i \in Newlines(s), i > p
    PROVE  Rows(Cut(s, p, Len(s))) # 0
PROOF
  <1> DEFINE u == SubSeq(s, 1, p)
             v == SubSeq(s, p + 1, Len(s))
  <1>1. u \in Texts /\ v \in Texts /\ s = u ++ v
    BY CutAt
  <1>2. p \in Nat /\ i \in Nat
    BY RowOfNewline, SumOfTexts
  <1>3. Row(s, p) = Rows(u)
    BY RowBefore
  <1> HIDE DEF u, v
  <1>4. Rows(s) = Rows(u) + Rows(v) /\ Rows(u) \in Nat /\ Rows(v) \in Nat
    BY <1>1, RowsOfTwo
  <1>5. Row(s, i) \in 1..Rows(s)
    BY RowOfNewline
  <1>6. Row(s, i) <= Row(s, p) <=> i <= p
    BY <1>2, RowOrder
  <1>7. Rows(v) # 0
    BY <1>2, <1>3, <1>4, <1>5, <1>6
  <1> QED BY <1>7 DEF v, Cut

\* An edit that inserts text.
LEMMA InsertionCarries ==
    ASSUME NEW s \in Texts, NEW p \in 0..Len(s), NEW t \in Texts
    PROVE  EditCarries(s, Insertion(s, p, t))
PROOF
  <1> DEFINE u == SubSeq(s, 1, p)
             v == SubSeq(s, p + 1, Len(s))
             e == Insertion(s, p, t)
             safe == e.good
  <1>1. u \in Texts /\ v \in Texts /\ s = u ++ v
    BY CutAt
  <1>2. Place(u, Row(s, p), Column(s, p))
    BY PlaceOf
  <1>3. e.text = u ++ (t ++ v)
    BY <1>1, Regroup DEF Insertion, Inserting, ++
  <1>4. e.changes = LinesInserted(Split(t), Row(s, p), Column(s, p))
    BY DEF Insertion, InsertChanges
  <1>5. safe <=> (Newlines(t) # {} => p = Len(s) \/ \E i \in Newlines(s) : i > p)
    BY DEF Insertion
  <1>6. ASSUME safe
        PROVE  Rows(t) = 0 \/ v = <<>> \/ Rows(v) # 0
    <2>1. CASE Newlines(t) = {}
      <3>1. Rows(t) = 0
        BY <2>1, FS_EmptySet DEF Rows
      <3> QED BY <3>1
    <2>2. CASE p = Len(s)
      <3>1. v = <<>>
        BY <2>2, SubSeqEmpty, SumOfTexts
      <3> QED BY <3>1
    <2>3. CASE \E i \in Newlines(s) : i > p
      <3>1. PICK i \in Newlines(s) : i > p
        BY <2>3
      <3>2. Rows(Cut(s, p, Len(s))) # 0
        BY <3>1, NewlineAfter
      <3> QED BY <3>2 DEF Cut
    <2> QED BY <1>5, <1>6, <2>1, <2>2, <2>3
  <1> HIDE DEF u, v, e, safe
  <1>7. Carries(FALSE, safe, u ++ v, LinesInserted(Split(t), Row(s, p), Column(s, p)), u ++ (t ++ v))
    BY <1>1, <1>2, <1>6, InsertedCarries
  <1> QED BY <1>1, <1>3, <1>4, <1>7 DEF EditCarries, e, safe

\* A text that does not end in a newline is shown with its last line.
LEMMA MovesFull ==
    ASSUME NEW a \in Texts, ~Whole(a), NEW cs, NEW b, Moves(TRUE, a, cs, b)
    PROVE  Moves(FALSE, a, cs, b)
PROOF
  <1> SUFFICES ASSUME NEW g, Replays(g, cs), Shows(g[0], a, FALSE)
               PROVE  Shows(g[Len(cs)], b, FALSE)
    BY DEF Moves
  <1>1. Shows(g[0], a, TRUE)
    BY AgreesFull DEF Shows
  <1>2. Shows(g[Len(cs)], b, TRUE)
    BY <1>1 DEF Moves
  <1> QED BY <1>2, AgreesText DEF Shows

\* An edit that removes text.
LEMMA RemovalCarries ==
    ASSUME NEW s \in Texts, NEW p \in 0..Len(s), NEW q \in p..Len(s)
    PROVE  EditCarries(s, Removal(s, p, q))
PROOF
  <1> DEFINE u == Cut(s, 0, p)
             v == Cut(s, q, Len(s))
             e == Removal(s, p, q)
             safe == e.good
             cs == RemoveChanges(s, p, q)
             z == u ++ v
  <1>1. e.text = z /\ e.changes = cs
    <2>1. u = SubSeq(s, 1, p) /\ v = SubSeq(s, q + 1, Len(s))
      BY DEF Cut
    <2> HIDE DEF u, v
    <2>2. e.text = Removing(s, p, q) /\ e.changes = cs
      BY DEF Removal
    <2>3. Removing(s, p, q) = z
      BY <2>1 DEF Removing, ++
    <2> QED BY <2>2, <2>3
  <1>2. safe <=> ~(q = Len(s) /\ s[q] = NL)
    BY DEF Removal
  <1>3. p \in Nat /\ q \in Nat /\ q \in 0..Len(s) /\ Len(s) \in Nat /\ p <= q
    BY SumOfTexts
  <1>4. v \in Texts /\ Len(v) = Len(s) - q
    <2>1. Len(s) \in q..Len(s)
      BY <1>3
    <2> QED BY <1>3, <2>1, CutTypes
  <1>5. CASE Row(s, p) = Row(s, q)
    <2> HIDE DEF safe
    <2>1. Carries(FALSE, safe, s, cs, z)
      BY <1>5, RowCarries
    <2> QED BY <1>1, <2>1 DEF EditCarries, safe
  <1>6. CASE Row(s, p) # Row(s, q)
    <2>1. Carries(FALSE, v # <<>> \/ FALSE, s, cs, z) /\ Carries(TRUE, v # <<>> \/ TRUE, s, cs, z)
      BY RemovedCarries
    <2>2. cs \in Seq(Changes) /\ Leads(s, cs, z)
      BY <2>1 DEF Carries
    <2>3. ASSUME safe, GoodChanges(cs)
          PROVE  Moves(FALSE, s, cs, z)
      <3>1. CASE v # <<>>
        BY <2>1, <2>3, <3>1 DEF Carries
      <3>2. CASE v = <<>>
        <4>1. Len(v) = 0
          BY <3>2, SumOfTexts
        <4>2. q = Len(s) /\ q # 0
          <5>1. p # q
            BY <1>6
          <5> HIDE DEF v
          <5> QED BY <1>3, <1>4, <4>1, <5>1
        <4>3. ~Whole(s)
          <5>1. s # <<>>
            BY <4>2, SumOfTexts
          <5> QED BY <1>2, <2>3, <4>2, <5>1 DEF Whole
        <4>4. Moves(TRUE, s, cs, z)
          BY <2>1, <2>3 DEF Carries
        <4> QED BY <4>3, <4>4, MovesFull
      <3> QED BY <3>1, <3>2
    <2> HIDE DEF safe
    <2>4. Carries(FALSE, safe, s, cs, z)
      BY <2>2, <2>3 DEF Carries
    <2> QED BY <1>1, <2>4 DEF EditCarries, safe
  <1> QED BY <1>5, <1>6

\* A change done once more.
LEMMA DeltaCarries ==
    ASSUME NEW s \in Texts, NEW t \in Texts, NEW ch \in Changes, Does(s, ch, t)
    PROVE  LET e == ApplyDelta(s, ch, Position(s, ch.row, ch.from))
           IN  e.text = t /\ EditCarries(s, e)
PROOF
  <1> DEFINE c == Content(ch)
             p == Position(s, ch.row, ch.from)
             e == ApplyDelta(s, ch, p)
  <1>1. /\ ch.type \in {"insertText", "removeText", "insertLines", "removeLines"}
        /\ ch.text \in Texts /\ ch.row \in Nat /\ ch.from \in Nat /\ <<NL>> \in Texts
    BY LinesAreTexts DEF Changes
  <1>2. c \in Texts
    BY <1>1, SumOfTwo DEF Content
  <1>3. Append(ch.text, NL) = ch.text ++ <<NL>>
    BY <1>1, AppendIsConcat DEF Texts, ++
  <1>4. CASE Adds(ch)
    <2>1. PICK u \in Texts, v \in Texts :
              /\ s = u ++ v /\ t = u ++ (c ++ v)
              /\ Place(u, ch.row, ch.from) /\ (IsBlock(ch) => ch.from = 0)
      BY <1>4 DEF Does, Between
    <2>2. p = Len(u) /\ p \in 0..Len(s)
      <3>1. p = Len(u)
        BY <2>1, PlaceIs
      <3>2. Len(s) = Len(u) + Len(v) /\ Len(u) \in Nat /\ Len(v) \in Nat
        BY <2>1, SumOfTwo
      <3> HIDE DEF p
      <3> QED BY <3>1, <3>2
    <2> HIDE DEF c, p
    <2>3. Inserting(s, p, c) = t
      BY <1>2, <2>1, <2>2, EditOf
    <2>4. CASE ch.type = "insertText"
      <3>1. e = Insertion(s, p, ch.text) /\ c = ch.text
        BY <2>4 DEF ApplyDelta, c, Content, IsBlock
      <3>2. e.text = t
        BY <2>3, <3>1 DEF Insertion
      <3>3. EditCarries(s, e)
        BY <1>1, <2>2, <3>1, InsertionCarries
      <3> QED BY <3>2, <3>3 DEF p
    <2>5. CASE ch.type = "insertLines"
      <3>1. c = ch.text ++ <<NL>> /\ ch.from = 0
        BY <2>1, <2>5 DEF c, Content, IsBlock
      <3>2. e = Block(Inserting(s, p, Append(ch.text, NL)), ch)
        BY <2>5 DEF ApplyDelta
      <3>3. e.text = t /\ e.changes = <<ch>> /\ e.good = TRUE
        BY <1>3, <2>3, <3>1, <3>2 DEF Block
      <3>4. Carries(FALSE, TRUE, u ++ v, <<ch>>, u ++ ((ch.text ++ <<NL>>) ++ v))
        BY <2>1, <2>5, <3>1, BlockIn
      <3> QED BY <2>1, <3>1, <3>3, <3>4 DEF EditCarries, p
    <2> QED BY <1>1, <1>4, <2>4, <2>5 DEF Adds
  <1>5. CASE ~Adds(ch)
    <2>1. PICK u \in Texts, v \in Texts :
              /\ t = u ++ v /\ s = u ++ (c ++ v)
              /\ Place(u, ch.row, ch.from) /\ (IsBlock(ch) => ch.from = 0)
      BY <1>5 DEF Does, Between
    <2> DEFINE q == p + Len(c)
    <2>2. p = Len(u) /\ p \in 0..Len(s) /\ q \in p..Len(s) /\ Len(c) \in Nat
      <3> DEFINE cv == c ++ v
      <3>1. cv \in Texts /\ Len(cv) = Len(c) + Len(v) /\ Len(c) \in Nat /\ Len(v) \in Nat
        BY <1>2, SumOfTwo
      <3> HIDE DEF cv, c
      <3>2. s = u ++ cv
        BY <2>1 DEF cv
      <3>3. p = Len(u)
        BY <2>1, <3>1, <3>2, PlaceIs
      <3>4. Len(s) = Len(u) + Len(cv) /\ Len(u) \in Nat
        BY <3>1, <3>2, SumOfTwo
      <3> HIDE DEF p
      <3> QED BY <3>1, <3>3, <3>4
    <2> HIDE DEF c, p
    <2>3. Removing(s, p, q) = t
      BY <1>2, <2>1, <2>2, EditOf
    <2>4. Clip(s, q) = q
      BY <2>2, ClipTypes
    <2>5. CASE ch.type = "removeText"
      <3>1. c = ch.text
        BY <2>5 DEF c, Content, IsBlock
      <3>2. (IF ch.text = <<NL>> THEN p + 1 ELSE p + Len(ch.text)) = q
        <4>1. Len(<<NL>>) = 1
          OBVIOUS
        <4> QED BY <3>1, <4>1
      <3>3. e = Removal(s, p, q)
        BY <2>4, <2>5, <3>2 DEF ApplyDelta
      <3>4. e.text = t
        BY <2>3, <3>3 DEF Removal
      <3>5. EditCarries(s, e)
        <4> HIDE DEF q
        <4> QED BY <2>2, <3>3, RemovalCarries
      <3> QED BY <3>4, <3>5 DEF p
    <2>6. CASE ch.type = "removeLines"
      <3>1. c = ch.text ++ <<NL>> /\ ch.from = 0
        BY <2>1, <2>6 DEF c, Content, IsBlock
      <3>2. p + Len(ch.text) + 1 = q
        <4>1. Len(ch.text ++ <<NL>>) = Len(ch.text) + Len(<<NL>>) /\ Len(ch.text) \in Nat
          BY <1>1, SumOfTwo
        <4>2. Len(<<NL>>) = 1
          OBVIOUS
        <4> QED BY <2>2, <3>1, <4>1, <4>2
      <3>3. e = Block(Removing(s, p, q), ch)
        BY <2>4, <2>6, <3>2 DEF ApplyDelta
      <3>4. e.text = t /\ e.changes = <<ch>> /\ e.good = TRUE
        BY <2>3, <3>3 DEF Block
      <3>5. Carries(FALSE, TRUE, u ++ ((ch.text ++ <<NL>>) ++ v), <<ch>>, u ++ v)
        BY <2>1, <2>6, <3>1, BlockOut
      <3> QED BY <2>1, <3>1, <3>4, <3>5 DEF EditCarries, p
    <2> QED BY <1>1, <1>5, <2>5, <2>6 DEF Adds
  <1> QED BY <1>4, <1>5

-----------------------------------------------------------------------------
(* Edits done again, and undone.                                           *)

\* One edit after another, as one edit.
LEMMA GoodThen ==
    ASSUME NEW s, NEW e, NEW f, EditCarries(s, e), EditCarries(e.text, f),
           e.good \in BOOLEAN, f.good \in BOOLEAN
    PROVE  EditCarries(s, Then(e, f))
PROOF
  <1> DEFINE both == e.good /\ f.good
             t == Then(e, f)
  <1>1. t.text = f.text /\ t.changes = e.changes ++ f.changes /\ t.good = both
    BY DEF Then, ++
  <1>2. Carries(FALSE, both, s, e.changes, e.text)
    <2>1. both => e.good
      OBVIOUS
    <2> HIDE DEF both
    <2> QED BY <2>1, LessSafe DEF EditCarries
  <1>3. Carries(FALSE, both, e.text, f.changes, f.text)
    <2>1. both => f.good
      OBVIOUS
    <2> HIDE DEF both
    <2> QED BY <2>1, LessSafe DEF EditCarries
  <1> HIDE DEF both, t
  <1>4. Carries(FALSE, both, s, e.changes ++ f.changes, f.text)
    BY <1>2, <1>3, CarriesJoined
  <1> QED BY <1>1, <1>4 DEF EditCarries, t

\* The changes of an edit done once more lead where they led, and what that
\* reports carries a document along.
LEMMA DeltasCarry ==
    ASSUME NEW s \in Texts, NEW cs \in Seq(Changes), NEW t, Leads(s, cs, t)
    PROVE  Deltas(s, cs).text = t /\ EditCarries(s, Deltas(s, cs))
PROOF
  <1> DEFINE start == [text |-> s, changes |-> <<>>, good |-> TRUE]
             n == Len(cs)
  <1>1. PICK Z \in [0..n -> Texts] :
            Z[0] = s /\ Z[n] = t /\ \A k \in 1..n : Does(Z[k - 1], cs[k], Z[k])
    BY DEF Leads
  <1>2. PICK g : /\ FoldOf(FALSE, start, cs) = g[n]
                 /\ g[0] = start
                 /\ \A k \in 1..n : g[k] = FoldStep(FALSE, g[k - 1], cs[k])
    <2> HIDE DEF start
    <2> DEFINE replays == FALSE
    <2>1. replays \in BOOLEAN
      OBVIOUS
    <2> HIDE DEF replays
    <2>2. \E g : /\ FoldOf(replays, start, cs) = g[Len(cs)]
                 /\ g[0] = start
                 /\ \A k \in 1..Len(cs) : g[k] = FoldStep(replays, g[k - 1], cs[k])
      BY <2>1, FoldSteps
    <2> QED BY <2>2 DEF replays
  <1>3. n \in Nat /\ \A k \in 1..n : cs[k] \in Changes
    BY LenProperties, ElementOfSeq
  <1>4. Deltas(s, cs) = g[n]
    BY <1>2 DEF FoldOf, Deltas
  <1>5. start.text = s /\ start.changes = <<>> /\ start.good = TRUE /\ start \in Edits
    BY EmptySeq DEF Edits
  <1> HIDE DEF n, start
  <1> DEFINE Fine(k) == g[k] \in Edits /\ g[k].text = Z[k] /\ EditCarries(s, g[k])
             Bad == {k \in Nat : k <= n /\ ~Fine(k)}
  <1>6. Fine(0)
    <2>1. Carries(FALSE, TRUE, s, <<>>, s)
      BY NoChange
    <2> QED BY <1>1, <1>2, <1>5, <2>1 DEF EditCarries
  <1>7. ASSUME NEW k \in 1..n, Fine(k - 1)
        PROVE  Fine(k)
    <2> DEFINE e == g[k - 1]
               a == Z[k - 1]
               ch == cs[k]
               f == ApplyDelta(e.text, ch, Position(e.text, ch.row, ch.from))
    <2>1. k - 1 \in 0..n /\ k \in 0..n
      BY <1>3
    <2>2. ch \in Changes /\ Z[k] \in Texts /\ a \in Texts /\ Does(a, ch, Z[k])
      BY <1>1, <1>3, <2>1
    <2>3. e \in Edits /\ e.text = a /\ EditCarries(s, e)
      BY <1>7
    <2>4. g[k] = Then(e, f)
      BY <1>2 DEF FoldStep, DeltaApplied
    <2>5. Then(e, f) \in Edits
      <3>1. DeltaApplied(e, ch) \in Edits
        <4> HIDE DEF e, ch
        <4> QED BY <2>2, <2>3, DeltaTypes
      <3> QED BY <3>1 DEF DeltaApplied
    <2>6. f \in Edits
      <3> HIDE DEF e, ch
      <3>1. ch.row \in Nat /\ ch.from \in Nat /\ e.text \in Texts
        BY <2>2, <2>3 DEF Changes
      <3>2. Position(e.text, ch.row, ch.from) \in 0..Len(e.text)
        BY <3>1, PositionTypes
      <3> QED BY <2>2, <3>1, <3>2, ApplyDeltaTypes
    <2> DEFINE z == Z[k]
    <2>7. z \in Texts /\ Does(a, ch, z)
      BY <2>2
    <2> HIDE DEF e, ch, a, z
    <2>8. f.text = z /\ EditCarries(e.text, f)
      BY <2>2, <2>3, <2>7, DeltaCarries
    <2> HIDE DEF f
    <2>9. e.good \in BOOLEAN /\ f.good \in BOOLEAN
      BY <2>3, <2>6 DEF Edits
    <2>10. EditCarries(s, Then(e, f))
      BY <2>3, <2>8, <2>9, GoodThen
    <2>11. Then(e, f).text = f.text
      BY DEF Then
    <2> QED BY <2>4, <2>5, <2>8, <2>10, <2>11 DEF z
  <1> HIDE DEF Fine
  <1>8. Bad = {}
    <2> SUFFICES ASSUME Bad # {} PROVE FALSE
      OBVIOUS
    <2>1. PICK k \in Bad : \A m \in Bad : k <= m
      BY LeastNumber
    <2>2. k \in 1..n /\ k - 1 \in Nat /\ k - 1 <= n /\ ~(k <= k - 1)
      BY <1>3, <1>6, <2>1
    <2>3. Fine(k - 1)
      BY <2>1, <2>2
    <2> QED BY <1>7, <2>1, <2>2, <2>3
  <1>9. Fine(n)
    BY <1>3, <1>8
  <1> QED BY <1>1, <1>4, <1>9 DEF Fine

Undoing(cs) == Reverse([i \in DOMAIN cs |-> Reversed(cs[i])])

\* The changes of an edit reversed, the last one first.
LEMMA UndoingTypes ==
    ASSUME NEW cs \in Seq(Changes)
    PROVE  /\ Undoing(cs) \in Seq(Changes) /\ Len(Undoing(cs)) = Len(cs)
           /\ \A k \in 1..Len(cs) : Undoing(cs)[k] = Reversed(cs[Len(cs) - k + 1])
PROOF
  <1> DEFINE n == Len(cs)
             r == [i \in DOMAIN cs |-> Reversed(cs[i])]
             u == Reverse(r)
  <1>1. DOMAIN cs = 1..n /\ n \in Nat
    BY LenProperties
  <1>2. \A i \in 1..n : Reversed(cs[i]) \in Changes
    BY ElementOfSeq, ReversedTypes
  <1> HIDE DEF n
  <1>3. r \in [1..n -> Changes]
    BY <1>1, <1>2
  <1>4. r \in Seq(Changes) /\ Len(r) = n
    BY <1>1, <1>3, SeqDef
  <1>5. \A i \in 1..n : r[i] = Reversed(cs[i])
    BY <1>1
  <1> HIDE DEF r
  <1>6. ASSUME NEW k \in 1..n
        PROVE  n - k + 1 \in 1..n
    BY <1>1
  <1>7. u = [i \in 1..n |-> r[n - i + 1]]
    BY <1>4 DEF Reverse
  <1> HIDE DEF u
  <1>8. u \in [1..n -> Changes]
    BY <1>3, <1>6, <1>7
  <1>9. u \in Seq(Changes) /\ Len(u) = n
    BY <1>1, <1>8, SeqDef
  <1>10. \A k \in 1..n : u[k] = Reversed(cs[n - k + 1])
    BY <1>5, <1>6, <1>7
  <1> QED BY <1>9, <1>10 DEF Undoing, u, r, n

\* A change reversed leads back.
LEMMA DoesBack ==
    ASSUME NEW ch \in Changes, NEW a, NEW b, Does(a, ch, b)
    PROVE  Does(b, Reversed(ch), a)
PROOF
  <1> DEFINE r == Reversed(ch)
  <1>1. /\ r.text = ch.text /\ r.row = ch.row /\ r.from = ch.from
        /\ Adds(r) <=> ~Adds(ch)
        /\ IsBlock(r) <=> IsBlock(ch)
    BY DEF Reversed, Changes, Adds, IsBlock
  <1> HIDE DEF r
  <1>2. Content(r) = Content(ch)
    BY <1>1 DEF Content
  <1>3. \A x, y : Between(r, x, y) <=> Between(ch, x, y)
    BY <1>1, <1>2 DEF Between
  <1>4. Does(b, r, a)
    BY <1>1, <1>3 DEF Does
  <1> QED BY <1>4 DEF r

\* And so do all the changes of an edit.
LEMMA LeadsBack ==
    ASSUME NEW cs \in Seq(Changes), NEW a, NEW b, Leads(a, cs, b)
    PROVE  Undoing(cs) \in Seq(Changes) /\ Leads(b, Undoing(cs), a)
PROOF
  <1> DEFINE n == Len(cs)
             u == Undoing(cs)
  <1>1. PICK Z \in [0..n -> Texts] :
            Z[0] = a /\ Z[n] = b /\ \A k \in 1..n : Does(Z[k - 1], cs[k], Z[k])
    BY DEF Leads
  <1>2. n \in Nat /\ \A k \in 1..n : cs[k] \in Changes
    BY LenProperties, ElementOfSeq
  <1>3. u \in Seq(Changes) /\ Len(u) = n /\ \A k \in 1..n : u[k] = Reversed(cs[n - k + 1])
    BY UndoingTypes
  <1> HIDE DEF n, u
  <1> DEFINE Y == [k \in 0..n |-> Z[n - k]]
  <1>4. Y \in [0..n -> Texts]
    <2>1. \A k \in 0..n : n - k \in 0..n
      BY <1>2
    <2> QED BY <2>1
  <1>5. Y[0] = b /\ Y[n] = a
    <2>1. 0 \in 0..n /\ n \in 0..n /\ n - 0 = n /\ n - n = 0
      BY <1>2
    <2> QED BY <1>1, <2>1
  <1>6. ASSUME NEW k \in 1..n
        PROVE  Does(Y[k - 1], u[k], Y[k])
    <2> DEFINE j == n - k + 1
    <2>1. j \in 1..n /\ n - (k - 1) = j /\ n - k = j - 1 /\ k \in 0..n /\ k - 1 \in 0..n
      BY <1>2
    <2>2. u[k] = Reversed(cs[j])
      BY <1>3
    <2>3. Y[k - 1] = Z[n - (k - 1)] /\ Y[k] = Z[n - k]
      BY <2>1
    <2> HIDE DEF j, Y
    <2>4. Does(Z[j - 1], cs[j], Z[j]) /\ cs[j] \in Changes
      BY <1>1, <1>2, <2>1
    <2>5. Does(Z[j], Reversed(cs[j]), Z[j - 1])
      BY <2>4, DoesBack
    <2> QED BY <2>1, <2>2, <2>3, <2>5
  <1> HIDE DEF Y
  <1>7. Leads(b, u, a)
    BY <1>3, <1>4, <1>5, <1>6 DEF Leads
  <1> QED BY <1>3, <1>7 DEF u

-----------------------------------------------------------------------------
(* The text of every visit.                                                *)

\* A document made of a text that ends in exactly one newline shows it.
LEMMA SetTextShows ==
    ASSUME NEW t \in Texts, GoodBase(t)
    PROVE  Shows([lines |-> SetText(t), broken |-> FALSE], t, FALSE)
PROOF
  <1> DEFINE parts == Split(t)
             n == Len(parts)
             D == {0} \cup {i \in 1..Len(parts) : parts[i] # <<>>}
  <1>1. PICK ls \in Seq(Lines), l \in Lines :
            parts = Append(ls, l) /\ t = LinesText(ls) ++ l
    BY TextOfParts
  <1>2. /\ Len(ls) \in Nat /\ n = Len(ls) + 1 /\ parts[n] = l
        /\ SubSeq(parts, 1, n - 1) = ls
    <2>1. Len(ls) \in Nat /\ n = Len(ls) + 1 /\ parts[n] = l
      BY <1>1
    <2>2. Front(parts) = ls
      BY <1>1, FrontOfAppend
    <2> QED BY <2>1, <2>2 DEF Front
  <1>3. n > 1 /\ parts[n] = <<>> /\ parts[n - 1] # <<>>
    BY DEF GoodBase
  <1>4. n = Cardinality(Newlines(t)) + 1
    BY SplitTypes
  <1>5. Newlines(t) # {}
    <2>1. Newlines(t) = {} => Cardinality(Newlines(t)) = 0
      BY FS_EmptySet
    <2> HIDE DEF n
    <2> QED BY <1>3, <1>4, <2>1
  <1> HIDE DEF n, parts
  <1>6. Max(D) = n - 1
    <2>1. D \in SUBSET Nat /\ D # {} /\ n - 1 \in Nat
      BY <1>2
    <2>2. ASSUME NEW i \in D
          PROVE  i <= n - 1
      <3>1. i = 0 \/ (i \in 1..n /\ parts[i] # <<>>)
        BY DEF n
      <3> HIDE DEF D
      <3> QED BY <1>2, <1>3, <3>1
    <2>3. n - 1 \in D
      <3>1. n - 1 \in 1..n
        BY <1>2, <1>3
      <3> QED BY <1>3, <3>1 DEF n
    <2> HIDE DEF D
    <2>4. Max(D) \in D /\ \A m \in D : m <= Max(D)
      BY <2>1, <2>2, MaxOfNumbers
    <2>5. Max(D) \in Nat
      BY <2>1, <2>4
    <2> QED BY <2>1, <2>2, <2>3, <2>4, <2>5
  <1>7. JavaSplit(t) = ls
    <2> HIDE DEF D
    <2>1. WithoutBlankEnd(parts) = SubSeq(parts, 1, Max(D))
      BY DEF WithoutBlankEnd, D
    <2> QED BY <1>2, <1>5, <1>6, <2>1 DEF JavaSplit, parts
  <1>8. SetText(t) = Terminated(ls)
    BY <1>7 DEF SetText
  <1>9. t = LinesText(ls) /\ Terminated(ls) \in Seq(EndedLines)
    <2>1. LinesText(ls) \in Texts /\ l = <<>>
      BY <1>2, <1>3, LinesTextTypes
    <2> QED BY <1>1, <2>1, SumOfTexts, TerminatedEnded
  <1> DEFINE g == Terminated(ls)
             doc == [lines |-> SetText(t), broken |-> FALSE]
  <1>10. Agrees(g, t, FALSE)
    <2>1. t = FlattenSeq(g)
      BY <1>9 DEF LinesText
    <2> HIDE DEF g
    <2>2. Agrees(g, FlattenSeq(g), FALSE)
      BY <1>9, AgreesEnd DEF g
    <2> QED BY <2>1, <2>2
  <1>11. doc \in LinesDocument /\ doc.lines = g /\ ~doc.broken
    BY <1>8, SetTextTypes
  <1> HIDE DEF g, doc
  <1>12. Shows(doc, t, FALSE)
    BY <1>10, <1>11 DEF Shows
  <1> QED BY <1>12 DEF doc

\* A document without lines shows the empty text.
LEMMA NothingShows == Shows([lines |-> <<>>, broken |-> FALSE], <<>>, FALSE)
PROOF
  <1> DEFINE h == <<>>
             doc == [lines |-> h, broken |-> FALSE]
  <1>1. h \in Seq(EndedLines) /\ FlattenSeq(h) = <<>> /\ doc \in LinesDocument
    BY EmptySeq, FlattenSum DEF LinesDocument
  <1>2. doc.lines = h /\ ~doc.broken
    OBVIOUS
  <1> HIDE DEF h, doc
  <1>3. Agrees(h, FlattenSeq(h), FALSE)
    BY <1>1, AgreesEnd
  <1>4. Shows(doc, <<>>, FALSE)
    BY <1>1, <1>2, <1>3 DEF Shows
  <1> QED BY <1>4 DEF doc, h

\* A document that is carried along by every change shows the text in the end.
LEMMA ReplayShows ==
    ASSUME NEW doc, NEW a, NEW b, NEW cs \in Seq(Changes),
           Shows(doc, a, FALSE), Moves(FALSE, a, cs, b)
    PROVE  Shows(FoldLeft(Apply, doc, StoredChanges(cs)), b, FALSE)
PROOF
  <1> DEFINE ds == StoredChanges(cs)
  <1>1. ds \in Seq(Changes) /\ Len(ds) = Len(cs) /\ \A k \in 1..Len(cs) : ds[k] = Stored(cs[k])
    BY StoredTypes
  <1> HIDE DEF ds
  <1>2. \E g : /\ FoldLeft(Apply, doc, ds) = g[Len(ds)] /\ g[0] = doc
               /\ \A k \in 1..Len(ds) : g[k] = Apply(g[k - 1], ds[k])
    <2> DEFINE replays == TRUE
    <2>1. replays \in BOOLEAN
      OBVIOUS
    <2> HIDE DEF replays
    <2>2. PICK g : /\ FoldOf(replays, doc, ds) = g[Len(ds)] /\ g[0] = doc
                   /\ \A k \in 1..Len(ds) : g[k] = FoldStep(replays, g[k - 1], ds[k])
      <3>1. \E g : /\ FoldOf(replays, doc, ds) = g[Len(ds)]
                   /\ g[0] = doc
                   /\ \A k \in 1..Len(ds) : g[k] = FoldStep(replays, g[k - 1], ds[k])
        BY <1>1, <2>1, FoldSteps
      <3> QED BY <3>1
    <2>3. FoldOf(replays, doc, ds) = FoldLeft(Apply, doc, ds)
      BY DEF FoldOf, replays
    <2>4. \A k \in 1..Len(ds) : g[k] = Apply(g[k - 1], ds[k])
      BY <2>2 DEF FoldStep, replays
    <2> QED BY <2>2, <2>3, <2>4
  <1>3. PICK g : /\ FoldLeft(Apply, doc, ds) = g[Len(ds)] /\ g[0] = doc
                 /\ \A k \in 1..Len(ds) : g[k] = Apply(g[k - 1], ds[k])
    BY <1>2
  <1>4. Replays(g, cs)
    BY <1>1, <1>3 DEF Replays
  <1>5. Shows(g[Len(cs)], b, FALSE)
    BY <1>3, <1>4 DEF Moves
  <1> QED BY <1>1, <1>3, <1>5 DEF ds

\* The edits on a stack lead to the text, or from the text to what it was.
Turn(done, a, cs, b) == IF done THEN Leads(a, cs, b) ELSE Leads(b, cs, a)

\* The edits of a stack, the last one next to the text.
Stacked(done, stack, t) ==
    \E X \in [0..Len(stack) -> Texts] :
        /\ X[Len(stack)] = t
        /\ \A i \in 1..Len(stack) : Turn(done, X[i - 1], stack[i], X[i])

\* An empty stack.
LEMMA StackEmpty ==
    ASSUME NEW done, NEW t \in Texts
    PROVE  Stacked(done, <<>>, t)
PROOF
  <1> DEFINE stack == <<>>
             X == [i \in 0..Len(stack) |-> t]
  <1>1. Len(stack) = 0
    BY EmptySeq
  <1> HIDE DEF stack
  <1>2. X \in [0..Len(stack) -> Texts] /\ X[Len(stack)] = t
    BY <1>1
  <1>3. \A i \in 1..Len(stack) : Turn(done, X[i - 1], stack[i], X[i])
    BY <1>1
  <1> HIDE DEF X
  <1>4. Stacked(done, stack, t)
    BY <1>2, <1>3 DEF Stacked
  <1> QED BY <1>4 DEF stack

\* An edit is pushed.
LEMMA StackPush ==
    ASSUME NEW done, NEW stack \in Seq(Seq(Changes)), NEW a, Stacked(done, stack, a),
           NEW cs \in Seq(Changes), NEW b \in Texts, Turn(done, a, cs, b)
    PROVE  Stacked(done, Append(stack, cs), b)
PROOF
  <1> DEFINE n == Len(stack)
             more == Append(stack, cs)
  <1>1. n \in Nat /\ Len(more) = n + 1 /\ more[n + 1] = cs /\ \A i \in 1..n : more[i] = stack[i]
    BY LenProperties, AppendProperties
  <1>2. PICK X \in [0..n -> Texts] : X[n] = a /\ \A i \in 1..n : Turn(done, X[i - 1], stack[i], X[i])
    BY DEF Stacked
  <1> HIDE DEF n, more
  <1> DEFINE Y == [i \in 0..n + 1 |-> IF i = n + 1 THEN b ELSE X[i]]
  <1>3. Y \in [0..n + 1 -> Texts]
    <2>1. \A i \in 0..n + 1 : i # n + 1 => i \in 0..n
      BY <1>1
    <2> QED BY <2>1
  <1>4. Y[n + 1] = b /\ \A i \in 0..n : Y[i] = X[i]
    <2>1. n + 1 \in 0..n + 1 /\ \A i \in 0..n : i \in 0..n + 1 /\ i # n + 1
      BY <1>1
    <2> QED BY <2>1
  <1> HIDE DEF Y
  <1>5. ASSUME NEW i \in 1..n + 1
        PROVE  Turn(done, Y[i - 1], more[i], Y[i])
    <2>1. CASE i = n + 1
      <3>1. i - 1 = n /\ n \in 0..n
        BY <1>1, <2>1
      <3> QED BY <1>1, <1>2, <1>4, <2>1, <3>1
    <2>2. CASE i # n + 1
      <3>1. i \in 1..n /\ i \in 0..n /\ i - 1 \in 0..n
        BY <1>1, <2>2
      <3> QED BY <1>1, <1>2, <1>4, <3>1
    <2> QED BY <2>1, <2>2
  <1>6. Stacked(done, more, b)
    BY <1>1, <1>3, <1>4, <1>5 DEF Stacked
  <1> QED BY <1>6 DEF more

\* An edit is taken from a stack.
LEMMA StackPop ==
    ASSUME NEW done, NEW stack \in Seq(Seq(Changes)), stack # <<>>, NEW b, Stacked(done, stack, b)
    PROVE  \E a \in Texts : Turn(done, a, Last(stack), b) /\ Stacked(done, Front(stack), a)
PROOF
  <1> DEFINE n == Len(stack)
             less == Front(stack)
  <1>1. n \in Nat \ {0} /\ Len(less) = n - 1 /\ Last(stack) = stack[n]
    BY TopTypes DEF Last
  <1>2. PICK X \in [0..n -> Texts] : X[n] = b /\ \A i \in 1..n : Turn(done, X[i - 1], stack[i], X[i])
    BY DEF Stacked
  <1>3. \A i \in 1..n - 1 : less[i] = stack[i]
    BY <1>1 DEF Front
  <1> HIDE DEF n, less
  <1>4. n \in 1..n /\ n - 1 \in 0..n /\ n - 1 \in Nat
    BY <1>1
  <1>5. X[n - 1] \in Texts /\ Turn(done, X[n - 1], Last(stack), b)
    BY <1>1, <1>2, <1>4
  <1> DEFINE Y == [i \in 0..n - 1 |-> X[i]]
             m == n - 1
  <1>6. Y \in [0..m -> Texts] /\ Y[m] = X[m] /\ m \in 0..m
    <2>1. \A i \in 0..m : i \in 0..n
      BY <1>1
    <2>2. m \in 0..m
      BY <1>4
    <2> QED BY <2>1, <2>2
  <1>7. ASSUME NEW i \in 1..m
        PROVE  Turn(done, Y[i - 1], less[i], Y[i])
    <2>1. i \in 1..n /\ i \in 1..n - 1 /\ i \in 0..n - 1 /\ i - 1 \in 0..n - 1
      BY <1>1
    <2>2. Y[i] = X[i] /\ Y[i - 1] = X[i - 1]
      BY <2>1
    <2> HIDE DEF Y, m
    <2> QED BY <1>2, <1>3, <2>1, <2>2
  <1> HIDE DEF Y
  <1>8. Stacked(done, less, X[m])
    BY <1>1, <1>6, <1>7 DEF Stacked
  <1> QED BY <1>5, <1>8 DEF less, m

-----------------------------------------------------------------------------
(* The invariant.                                                          *)

\* As long as the edits were of the good kinds, the replay shows the text.
ReplayInv == stray = 0 => Shows(replay, shown, FALSE)

\* With nothing newer, the full text is what is shown.
BaseInv == ~newer => base = shown

\* Both stacks have edits around what is shown.
HistoryInv == Stacked(TRUE, undoStack, shown) /\ Stacked(FALSE, redoStack, shown)

LastInv == Inv /\ ReplayInv /\ BaseInv /\ HistoryInv

\* What loadCurrentText returns is what was shown.
LEMMA LoadedText ==
    ASSUME LastInv
    PROVE  (newer => stray = 0) => Loaded = shown
PROOF
  <1>1. CASE newer /\ stray = 0
    <2>1. ~replay.broken /\ Agrees(replay.lines, shown, FALSE)
      BY <1>1 DEF LastInv, ReplayInv, Shows
    <2>2. FlattenSeq(replay.lines) = shown
      BY <2>1, AgreesText
    <2> QED BY <1>1, <2>1, <2>2 DEF Loaded
  <1>2. CASE ~newer
    BY <1>2 DEF LastInv, BaseInv, Loaded
  <1> QED BY <1>1, <1>2

\* In the beginning nothing is shown or stored.
LEMMA LastInit == Init => LastInv
PROOF
  <1> SUFFICES ASSUME Init PROVE LastInv
    OBVIOUS
  <1>1. Inv
    BY InvInit
  <1>2. skeleton \in Texts /\ shown = skeleton /\ base = skeleton
        /\ undoStack = <<>> /\ redoStack = <<>>
    BY SkeletonsAreTexts DEF Init
  <1>3. ReplayInv
    <2> SUFFICES ASSUME stray = 0 PROVE Shows(replay, shown, FALSE)
      BY DEF ReplayInv
    <2>1. CASE skeleton = <<>>
      <3>1. replay = [lines |-> <<>>, broken |-> FALSE]
        BY <2>1 DEF Init
      <3> QED BY <1>2, <2>1, <3>1, NothingShows
    <2>2. CASE skeleton # <<>>
      <3>1. replay = [lines |-> SetText(skeleton), broken |-> FALSE] /\ GoodBase(skeleton)
        BY <2>2 DEF Init
      <3> QED BY <1>2, <3>1, SetTextShows
    <2> QED BY <2>1, <2>2
  <1>4. HistoryInv
    BY <1>2, StackEmpty DEF HistoryInv
  <1> QED BY <1>1, <1>2, <1>3, <1>4 DEF LastInv, BaseInv

\* An edit that leads to its text.
LEMMA ShowLast ==
    ASSUME LastInv, NEW e \in Edits, EditCarries(shown, e), Show(e)
    PROVE  ReplayInv' /\ BaseInv' /\ shown' = e.text
PROOF
  <1>1. /\ shown' = e.text /\ newer' = TRUE /\ replay' = FoldLeft(Apply, replay, StoredChanges(e.changes))
        /\ stray' = IF stray = 0 /\ e.good /\ GoodChanges(e.changes) THEN 0 ELSE stray + 1
    BY DEF Show, LogChanges
  <1>2. stray \in Nat
    BY TextAssumption DEF LastInv, Inv, TypeOK
  <1>3. ASSUME stray' = 0
        PROVE  Shows(replay', shown', FALSE)
    <2>1. stray = 0 /\ e.good /\ GoodChanges(e.changes)
      BY <1>1, <1>2, <1>3
    <2>2. Shows(replay, shown, FALSE)
      BY <2>1 DEF LastInv, ReplayInv
    <2>3. e.changes \in Seq(Changes) /\ Moves(FALSE, shown, e.changes, e.text)
      BY <2>1 DEF EditCarries, Carries
    <2>4. Shows(FoldLeft(Apply, replay, StoredChanges(e.changes)), e.text, FALSE)
      BY <2>2, <2>3, ReplayShows
    <2> QED BY <1>1, <2>4
  <1> QED BY <1>1, <1>3 DEF ReplayInv, BaseInv

\* An edit of the user.
LEMMA ExecuteLast ==
    ASSUME LastInv, NEW e \in Edits, EditCarries(shown, e), Execute(e)
    PROVE  ReplayInv' /\ BaseInv' /\ HistoryInv'
PROOF
  <1>1. /\ Show(e) /\ undoStack' = Append(undoStack, e.changes) /\ redoStack' = <<>>
    BY DEF Execute
  <1>2. ReplayInv' /\ BaseInv' /\ shown' = e.text
    BY <1>1, ShowLast
  <1>3. /\ undoStack \in Seq(Seq(Changes)) /\ e.changes \in Seq(Changes) /\ e.text \in Texts
        /\ Stacked(TRUE, undoStack, shown)
    BY DEF LastInv, Inv, UndoInv, HistoryInv, Edits
  <1>4. Turn(TRUE, shown, e.changes, e.text)
    BY DEF EditCarries, Carries, Turn
  <1>5. Stacked(TRUE, Append(undoStack, e.changes), e.text)
    BY <1>3, <1>4, StackPush
  <1>6. Stacked(FALSE, <<>>, e.text)
    BY <1>3, StackEmpty
  <1> QED BY <1>1, <1>2, <1>5, <1>6 DEF HistoryInv

\* An edit undone.
LEMMA UndoLast ==
    ASSUME LastInv, Undo
    PROVE  ReplayInv' /\ BaseInv' /\ HistoryInv'
PROOF
  <1> DEFINE done == Last(undoStack)
             e == Deltas(shown, Undoing(done))
  <1>1. /\ Show(e) /\ undoStack # <<>>
        /\ redoStack' = Append(redoStack, done) /\ undoStack' = Front(undoStack)
    BY DEF Undo, Undoing
  <1>2. /\ undoStack \in Seq(Seq(Changes)) /\ redoStack \in Seq(Seq(Changes)) /\ shown \in Texts
        /\ Stacked(TRUE, undoStack, shown) /\ Stacked(FALSE, redoStack, shown)
    BY DEF LastInv, Inv, UndoInv, TypeOK, HistoryInv
  <1>3. done \in Seq(Changes)
    BY <1>1, <1>2, TopTypes
  <1>4. PICK a \in Texts : Turn(TRUE, a, done, shown) /\ Stacked(TRUE, Front(undoStack), a)
    BY <1>1, <1>2, StackPop
  <1>5. Leads(a, done, shown)
    BY <1>4 DEF Turn
  <1> HIDE DEF done
  <1>6. Undoing(done) \in Seq(Changes) /\ Leads(shown, Undoing(done), a)
    BY <1>3, <1>5, LeadsBack
  <1>7. e.text = a /\ EditCarries(shown, e) /\ e \in Edits
    BY <1>2, <1>6, DeltasCarry, DeltasTypes
  <1> HIDE DEF e
  <1>8. ReplayInv' /\ BaseInv' /\ shown' = a
    BY <1>1, <1>7, ShowLast
  <1>9. Turn(FALSE, shown, done, a)
    BY <1>5 DEF Turn
  <1>10. Stacked(FALSE, Append(redoStack, done), a)
    BY <1>2, <1>3, <1>4, <1>9, StackPush
  <1> QED BY <1>1, <1>4, <1>8, <1>10 DEF HistoryInv

\* An edit done again.
LEMMA RedoLast ==
    ASSUME LastInv, Redo
    PROVE  ReplayInv' /\ BaseInv' /\ HistoryInv'
PROOF
  <1> DEFINE undone == Last(redoStack)
             e == Deltas(shown, undone)
  <1>1. /\ Show(e) /\ redoStack # <<>>
        /\ undoStack' = Append(undoStack, undone) /\ redoStack' = Front(redoStack)
    BY DEF Redo
  <1>2. /\ undoStack \in Seq(Seq(Changes)) /\ redoStack \in Seq(Seq(Changes)) /\ shown \in Texts
        /\ Stacked(TRUE, undoStack, shown) /\ Stacked(FALSE, redoStack, shown)
    BY DEF LastInv, Inv, UndoInv, TypeOK, HistoryInv
  <1>3. undone \in Seq(Changes)
    BY <1>1, <1>2, TopTypes
  <1>4. PICK a \in Texts : Turn(FALSE, a, undone, shown) /\ Stacked(FALSE, Front(redoStack), a)
    BY <1>1, <1>2, StackPop
  <1>5. Leads(shown, undone, a)
    BY <1>4 DEF Turn
  <1> HIDE DEF undone
  <1>6. e.text = a /\ EditCarries(shown, e) /\ e \in Edits
    BY <1>2, <1>3, <1>5, DeltasCarry, DeltasTypes
  <1> HIDE DEF e
  <1>7. ReplayInv' /\ BaseInv' /\ shown' = a
    BY <1>1, <1>6, ShowLast
  <1>8. Turn(TRUE, shown, undone, a)
    BY <1>5 DEF Turn
  <1>9. Stacked(TRUE, Append(undoStack, undone), a)
    BY <1>2, <1>3, <1>4, <1>8, StackPush
  <1> QED BY <1>1, <1>4, <1>7, <1>9 DEF HistoryInv

\* A full text that is the text shown.
LEMMA StoreLast ==
    ASSUME NEW t \in Texts, StoreFullText(t), shown' = t
    PROVE  ReplayInv' /\ BaseInv'
PROOF
  <1>1. /\ base' = t /\ replay' = [lines |-> SetText(t), broken |-> FALSE]
        /\ stray' = 0 => GoodBase(t)
    BY DEF StoreFullText
  <1> QED BY <1>1, SetTextShows DEF ReplayInv, BaseInv

\* setValue forgets the history.
LEMMA NoHistory ==
    ASSUME NEW t \in Texts, SetValue(t)
    PROVE  HistoryInv' /\ shown' = t
PROOF
  BY StackEmpty DEF SetValue, HistoryInv

\* Every step.
LEMMA LastStep == LastInv /\ [Next]_vars => LastInv'
PROOF
  <1> SUFFICES ASSUME LastInv, [Next]_vars PROVE ReplayInv' /\ BaseInv' /\ HistoryInv'
    BY InvStep DEF LastInv
  <1>1. shown \in Texts /\ skeleton \in Texts /\ Len(shown) \in Nat
    BY SkeletonsAreTexts, NewlinesOfText DEF LastInv, Inv, TypeOK
  <1>2. ASSUME NEW p \in 0..MaxLength, NEW t \in Pastes, TypeAt(p, t)
        PROVE  ReplayInv' /\ BaseInv' /\ HistoryInv'
    <2>1. p \in 0..Len(shown) /\ t \in Texts
      BY <1>1, <1>2, SkeletonsAreTexts, TextAssumption DEF TypeAt
    <2>2. Insertion(shown, p, t) \in Edits /\ EditCarries(shown, Insertion(shown, p, t))
      BY <1>1, <2>1, InsertionTypes, InsertionCarries
    <2> QED BY <1>2, <2>2, ExecuteLast DEF TypeAt
  <1>3. ASSUME NEW p \in 0..MaxDocument, NEW q \in 0..MaxDocument, Delete(p, q)
        PROVE  ReplayInv' /\ BaseInv' /\ HistoryInv'
    <2>1. p \in 0..Len(shown) /\ q \in 0..Len(shown) /\ p <= q /\ q \in p..Len(shown)
      BY <1>1, <1>3, TextAssumption DEF Delete
    <2>2. Removal(shown, p, q) \in Edits /\ EditCarries(shown, Removal(shown, p, q))
      BY <1>1, <2>1, RemovalTypes, RemovalCarries
    <2> QED BY <1>3, <2>2, ExecuteLast DEF Delete
  <1>4. CASE Submit
    <2>1. StoreFullText(shown) /\ shown' = shown /\ undoStack' = undoStack /\ redoStack' = redoStack
      BY <1>4 DEF Submit, undoVars
    <2>2. HistoryInv'
      BY <2>1 DEF LastInv, HistoryInv
    <2> QED BY <1>1, <2>1, <2>2, StoreLast
  <1>5. CASE Reset
    <2>1. StoreFullText(skeleton) /\ SetValue(skeleton)
      BY <1>5 DEF Reset
    <2> QED BY <1>1, <2>1, NoHistory, StoreLast
  <1>6. CASE Load
    <2>1. /\ SetValue(Loaded)
          /\ base' = base /\ newer' = newer /\ replay' = replay /\ stray' = stray
      BY <1>6 DEF Load
    <2>2. HistoryInv' /\ shown' = Loaded
      BY <2>1, LoadedTypes, NoHistory DEF LastInv
    <2>3. ReplayInv'
      <3> SUFFICES ASSUME stray = 0 PROVE Shows(replay, Loaded, FALSE)
        BY <2>1, <2>2 DEF ReplayInv
      <3>1. Loaded = shown
        BY LoadedText
      <3> QED BY <3>1 DEF LastInv, ReplayInv
    <2>4. BaseInv'
      BY <2>1, <2>2 DEF BaseInv, Loaded
    <2> QED BY <2>2, <2>3, <2>4
  <1>7. CASE UNCHANGED vars
    BY <1>7 DEF LastInv, ReplayInv, BaseInv, HistoryInv, vars, undoVars
  <1>8. CASE Undo
    BY <1>8, UndoLast
  <1>9. CASE Redo
    BY <1>9, RedoLast
  <1> QED BY <1>2, <1>3, <1>4, <1>5, <1>6, <1>7, <1>8, <1>9 DEF Next

\* The next visit shows the text that the last one left: after a submission or
\* a reset always, and after edits, undone and done again or not, as long as
\* they are of the kinds for which the replay of ApplyChangeToTextDocument can be
\* relied on (loadCurrentText, and the rows and columns that Ace reports).
THEOREM LastTextIsLoaded == Spec => []LoadedIsShown
PROOF
  <1>1. LastInv => LoadedIsShown
    BY LoadedText DEF LoadedIsShown
  <1> QED BY <1>1, LastInit, LastStep, PTL DEF Spec
=============================================================================
