----------------------------- MODULE ProgramText -----------------------------
(***************************************************************************)
(* How the text of a program survives between two visits of its author:    *)
(* the editor reports every edit as one or more changes, the server stores *)
(* them after the last full text, and loadCurrentText replays them on a    *)
(* TextDocument.  The change list is taken to deliver every change once    *)
(* and in order (ChangeList), and DevelopmentPage has the calls; here only *)
(* the texts matter.                                                       *)
(*                                                                         *)
(* A text is a sequence of characters.  The editor numbers rows from 0 and *)
(* has a last row without a newline, which may be empty; a TextDocument    *)
(* has lines that keep their newline.                                      *)
(*                                                                         *)
(* A change does not come back from the database as it was reported, see   *)
(* Stored.                                                                 *)
(*                                                                         *)
(* The editor keeps the changes of each edit to undo and redo it, and      *)
(* reports what that does to the text like any other edit.                 *)
(***************************************************************************)
EXTENDS Naturals, Sequences, FiniteSets, SequencesExt

CONSTANTS
    Chars,          \* the characters of a line
    NL,             \* newline
    Skeletons,      \* texts a problem may start from
    Pastes,         \* texts the user may insert at once
    MaxLength,      \* bound: length of a text in the editor
    MaxDocument,    \* bound: length of the text of a TextDocument
    MaxUndo,        \* bound: edits of a visit
    MaxStray        \* bound: edits since the replay may not be relied on

Texts == Seq(Chars \cup {NL})

ASSUME TextAssumption ==
    /\ NL \notin Chars
    /\ Skeletons \cup Pastes \subseteq Texts
    /\ <<>> \notin Pastes
    /\ {MaxLength, MaxDocument, MaxUndo} \subseteq Nat /\ MaxStray \in Nat \ {0}

VARIABLES
    skeleton,       \* of the problem
    shown,          \* the text in the editor
    base,           \* the full text stored last, or empty
    newer,          \* changes follow it
    replay,         \* the TextDocument after these changes
    undoStack,      \* the changes of each edit of this visit, and
    redoStack,      \* of each one that was undone
    stray           \* history: 0 if the replay may be relied on, see below,
                    \* otherwise 1 and the edits since

undoVars == <<undoStack, redoStack>>
vars == <<skeleton, shown, base, newer, replay, undoVars, stray>>

Document == [lines : Seq(Texts), broken : BOOLEAN]

\* A replay fails only if there was a change to replay.
TypeOK ==
    /\ skeleton \in Skeletons
    /\ shown \in Texts
    /\ base \in Texts
    /\ newer \in BOOLEAN
    /\ replay \in Document
    /\ replay.broken => newer
    /\ {Len(undoStack), Len(redoStack)} \subseteq 0..MaxUndo
    /\ stray \in 0..MaxStray

-----------------------------------------------------------------------------
(* Texts and lines.                                                        *)

Newlines(t) == {i \in 1..Len(t) : t[i] = NL}

\* The row of position p, and the positions where a row begins and ends.
Row(t, p) == Cardinality({i \in Newlines(t) : i <= p})
RowStart(t, row) == Max({0} \cup {i \in Newlines(t) : Row(t, i) <= row})
RowEnd(t, row) == Min({Len(t)} \cup {i - 1 : i \in {j \in Newlines(t) : Row(t, j) > row}})

\* The parts of t between its newlines, as split of the editor makes them.
Split(t) == [k \in 1..Cardinality(Newlines(t)) + 1 |->
                SubSeq(t, RowStart(t, k - 1) + 1, RowEnd(t, k - 1))]

\* String.split leaves out empty parts at the end, unless there is no newline.
WithoutBlankEnd(parts) ==
    SubSeq(parts, 1, Max({0} \cup {i \in 1..Len(parts) : parts[i] # <<>>}))
JavaSplit(t) == IF Newlines(t) = {} THEN <<t>> ELSE WithoutBlankEnd(Split(t))

Terminated(lines) == [i \in 1..Len(lines) |-> Append(lines[i], NL)]

\* The lines as one text, the way the constructor of Change joins them.
Joined(lines) == Front(FlattenSeq(Terminated(lines)))

\* TextDocument.setText.
SetText(t) == Terminated(JavaSplit(t))

-----------------------------------------------------------------------------
(* The editor: the changes it reports.                                     *)

Column(t, p) == p - RowStart(t, Row(t, p))

Change(type, row, from, to, text) ==
    [type |-> type, row |-> row, from |-> from, to |-> to, text |-> text]
InsertText(row, col, t) == Change("insertText", row, col, col + Len(t), t)
RemoveText(row, from, to, t) == Change("removeText", row, from, to, t)
InsertLines(row, lines) == Change("insertLines", row, 0, 0, Joined(lines))
RemoveLines(row, lines) == Change("removeLines", row, 0, 0, Joined(lines))

\* Inserting t at position p of s: the first line, a newline, whole lines, the rest.
LinesInserted(parts, row, col) ==
    LET n == Len(parts)
    IN  (IF parts[1] # <<>> THEN <<InsertText(row, col, parts[1])>> ELSE <<>>)
        \o (IF n > 1 THEN <<InsertText(row, col + Len(parts[1]), <<NL>>)>> ELSE <<>>)
        \o (IF n > 2 THEN <<InsertLines(row + 1, SubSeq(parts, 2, n - 1))>> ELSE <<>>)
        \o (IF n > 1 /\ parts[n] # <<>>
            THEN <<InsertText(row + n - 1, 0, parts[n])>> ELSE <<>>)
InsertChanges(s, p, t) == LinesInserted(Split(t), Row(s, p), Column(s, p))

\* Removing what lies between positions p and q of s: the start of the last row,
\* the whole lines before it, the end of the first row and its newline.
RemovedInLine(lines, row, c, d) ==
    IF c = d THEN <<>>
    ELSE <<RemoveText(row, c, d, SubSeq(lines[row + 1], c + 1, d))>>
LinesRemoved(lines, first, from, last, to) ==
    LET full == IF from = 0 THEN first ELSE first + 1
    IN  IF first = last THEN RemovedInLine(lines, first, from, to)
        ELSE RemovedInLine(lines, last, 0, to)
             \o (IF full < last THEN <<RemoveLines(full, SubSeq(lines, full + 1, last))>>
                                ELSE <<>>)
             \o (IF from = 0 THEN <<>>
                 ELSE RemovedInLine(lines, first, from, Len(lines[first + 1]))
                      \o <<RemoveText(first, from, 0, <<NL>>)>>)
RemoveChanges(s, p, q) ==
    LinesRemoved(Split(s), Row(s, p), Column(s, p), Row(s, q), Column(s, q))

-----------------------------------------------------------------------------
(* The server: the table of changes, and ApplyChangeToTextDocument.        *)

\* The column end_col is written from the start column.
Stored(ch) == [ch EXCEPT !.to = ch.from]
StoredChanges(changes) == [i \in DOMAIN changes |-> Stored(changes[i])]

\* A row just past the end is taken for a new, empty line.
Padded(lines, row) == IF row = Len(lines) THEN Append(lines, <<>>) ELSE lines

\* The indices of a change exist; otherwise the list or the string throws.
ApplicableWith(count, ch, lines) ==
    \/ /\ ch.type = "insertText"
       /\ ch.row <= Len(lines)
       /\ ch.from <= Len(Padded(lines, ch.row)[ch.row + 1])
    \/ /\ ch.type = "removeText"
       /\ ch.row < Len(lines)
       /\ IF ch.text = <<NL>>
          THEN lines[ch.row + 1] # <<>> /\ ch.row + 1 < Len(lines)
          ELSE ch.to <= Len(lines[ch.row + 1])
    \/ ch.type = "insertLines" /\ (count = 0 \/ ch.row <= Len(lines))
    \/ ch.type = "removeLines" /\ (count = 0 \/ ch.row + count <= Len(lines))
Applicable(ch, lines) == ApplicableWith(Len(JavaSplit(ch.text)), ch, lines)

\* Mutant: changeLine keeps a line whole.
ChangeLineWhole(lines, row, text) == ReplaceAt(lines, row + 1, text)

\* changeLine: a line with a newline inside is replaced by its parts, and what
\* follows the last newline is left out.
ChangeLine(lines, row, text) ==
    IF Newlines(text) \subseteq {Len(text)}
    THEN ReplaceAt(lines, row + 1, text)
    ELSE SubSeq(lines, 1, row) \o Terminated(Front(Split(text)))
         \o SubSeq(lines, row + 2, Len(lines))

\* Mutant: INSERT_TEXT drops the character at the column.
InsertedOver(lines, row, col, text) ==
    LET padded == Padded(lines, row)
        line == padded[row + 1]
    IN  ChangeLine(padded, row,
                   SubSeq(line, 1, col) \o text \o SubSeq(line, col + 2, Len(line)))

Inserted(lines, row, col, text) ==
    LET padded == Padded(lines, row)
        line == padded[row + 1]
    IN  ChangeLine(padded, row,
                   SubSeq(line, 1, col) \o text \o SubSeq(line, col + 1, Len(line)))

InsertedLines(lines, row, parts) ==
    IF parts = <<>> THEN lines
    ELSE SubSeq(lines, 1, row) \o Terminated(parts) \o SubSeq(lines, row + 1, Len(lines))

RemovedLines(lines, row, count) ==
    IF count = 0 THEN lines
    ELSE SubSeq(lines, 1, row) \o SubSeq(lines, row + count + 1, Len(lines))

\* Joining a line with the next, or removing a part of it.
Removed(lines, row, from, to, text) ==
    LET line == lines[row + 1]
    IN  IF text = <<NL>>
        THEN ReplaceAt(RemoveAt(lines, row + 2), row + 1, Front(line) \o lines[row + 2])
        ELSE ReplaceAt(lines, row + 1,
                       SubSeq(line, 1, from) \o SubSeq(line, to + 1, Len(line)))

Applied(ch, lines) ==
    CASE ch.type = "insertText" -> Inserted(lines, ch.row, ch.from, ch.text)
      [] ch.type = "removeText" -> Removed(lines, ch.row, ch.from, ch.to, ch.text)
      [] ch.type = "insertLines" -> InsertedLines(lines, ch.row, JavaSplit(ch.text))
      [] ch.type = "removeLines" -> RemovedLines(lines, ch.row, Len(JavaSplit(ch.text)))

\* One change of the replay; an exception ends it.
Apply(doc, ch) ==
    IF doc.broken THEN doc
    ELSE IF Applicable(ch, doc.lines)
         THEN [doc EXCEPT !.lines = Applied(ch, @)]
         ELSE [lines |-> <<>>, broken |-> TRUE]

\* doLoadCurrentText: the last full text if nothing follows it, or if the
\* replay has failed.
Loaded == IF newer /\ ~replay.broken THEN FlattenSeq(replay.lines) ELSE base

-----------------------------------------------------------------------------
(* What the replay can be relied on for.  It gives back the text shown as  *)
(* long as                                                                 *)
(*   - the full text it starts from ends in one newline and is not only a  *)
(*     newline, or there is none,                                          *)
(*   - no newline is inserted in front of text on the last row,            *)
(*   - the newline at the end of the text is not removed,                  *)
(*   - whole lines inserted or removed at once do not end in a blank line, *)
(*     a single one excepted,                                              *)
(*   - nothing is removed but newlines and whole lines: what is removed    *)
(*     from within a line stays, its end column being lost.                *)

GoodBase(t) ==
    LET lines == Split(t)
        n == Len(lines)
    IN  n > 1 /\ lines[n] = <<>> /\ lines[n - 1] # <<>>

GoodChange(ch) ==
    /\ ch.type \in {"insertLines", "removeLines"} => JavaSplit(ch.text) = Split(ch.text)
    /\ ch.type = "removeText" => ch.text = <<NL>>

GoodChanges(changes) == \A i \in 1..Len(changes) : GoodChange(changes[i])

-----------------------------------------------------------------------------
(* An edit: the text it leads to, the changes it reports, and whether it   *)
(* is at a place where the replay can be relied on.                        *)

Inserting(s, p, t) == SubSeq(s, 1, p) \o t \o SubSeq(s, p + 1, Len(s))
Removing(s, p, q) == SubSeq(s, 1, p) \o SubSeq(s, q + 1, Len(s))

Insertion(s, p, t) ==
    [text |-> Inserting(s, p, t), changes |-> InsertChanges(s, p, t),
     good |-> Newlines(t) # {} => p = Len(s) \/ \E i \in Newlines(s) : i > p]
Removal(s, p, q) ==
    [text |-> Removing(s, p, q), changes |-> RemoveChanges(s, p, q),
     good |-> ~(q = Len(s) /\ s[q] = NL)]
Block(t, ch) == [text |-> t, changes |-> <<ch>>, good |-> TRUE]

\* A position behind the end of the text is moved there.
Clip(s, p) == Min({p, Len(s)})
Position(s, row, col) ==
    IF row > Cardinality(Newlines(s)) THEN Len(s) ELSE Clip(s, RowStart(s, row) + col)

\* applyDeltas does a change once more, at position p of s.
ApplyDelta(s, ch, p) ==
    CASE ch.type = "insertText" -> Insertion(s, p, ch.text)
      [] ch.type = "removeText" ->
           Removal(s, p, Clip(s, IF ch.text = <<NL>> THEN p + 1 ELSE p + Len(ch.text)))
      [] ch.type = "insertLines" -> Block(Inserting(s, p, Append(ch.text, NL)), ch)
      [] ch.type = "removeLines" -> Block(Removing(s, p, Clip(s, p + Len(ch.text) + 1)), ch)

\* revertDeltas does the reverse.
Reversed(ch) ==
    [ch EXCEPT !.type = CASE @ = "insertText" -> "removeText"
                          [] @ = "removeText" -> "insertText"
                          [] @ = "insertLines" -> "removeLines"
                          [] @ = "removeLines" -> "insertLines"]

Then(e1, e2) == [text |-> e2.text, changes |-> e1.changes \o e2.changes,
                 good |-> e1.good /\ e2.good]
DeltaApplied(e, ch) ==
    Then(e, ApplyDelta(e.text, ch, Position(e.text, ch.row, ch.from)))
Deltas(s, changes) ==
    FoldLeft(DeltaApplied, [text |-> s, changes |-> <<>>, good |-> TRUE], changes)

-----------------------------------------------------------------------------

\* The first visit: a skeleton is stored as a full text.
Init ==
    /\ skeleton \in Skeletons
    /\ shown = skeleton
    /\ base = skeleton
    /\ newer = FALSE
    /\ replay = [lines |-> IF skeleton = <<>> THEN <<>> ELSE SetText(skeleton),
                 broken |-> FALSE]
    /\ undoStack = <<>> /\ redoStack = <<>>
    /\ stray = IF skeleton = <<>> \/ GoodBase(skeleton) THEN 0 ELSE 1

\* The changes of an edit are stored, and the next replay applies what was stored.
LogChanges(changes) ==
    /\ newer' = TRUE
    /\ replay' = FoldLeft(Apply, replay, StoredChanges(changes))
    /\ Len(FlattenSeq(replay'.lines)) <= MaxDocument
    /\ UNCHANGED <<skeleton, base>>

\* An edit is shown and reported, and the replay can be relied on for it or not.
Show(e) ==
    /\ shown' = e.text
    /\ LogChanges(e.changes)
    /\ stray' = IF stray = 0 /\ e.good /\ GoodChanges(e.changes) THEN 0 ELSE stray + 1
    /\ stray' <= MaxStray

\* The undo manager hears of an edit as soon as it is over.
Execute(e) ==
    /\ Show(e)
    /\ Len(undoStack) < MaxUndo
    /\ undoStack' = Append(undoStack, e.changes)
    /\ redoStack' = <<>>

TypeAt(p, t) ==
    /\ p <= Len(shown)
    /\ Len(shown) + Len(t) <= MaxLength
    /\ Execute(Insertion(shown, p, t))

Delete(p, q) ==
    /\ p < q /\ q <= Len(shown)
    /\ Execute(Removal(shown, p, q))

Undo ==
    /\ undoStack # <<>>
    /\ LET done == Last(undoStack)
       IN  /\ Show(Deltas(shown, Reverse([i \in DOMAIN done |-> Reversed(done[i])])))
           /\ redoStack' = Append(redoStack, done)
    /\ undoStack' = Front(undoStack)

Redo ==
    /\ redoStack # <<>>
    /\ LET undone == Last(redoStack)
       IN  /\ Show(Deltas(shown, undone))
           /\ undoStack' = Append(undoStack, undone)
    /\ redoStack' = Front(redoStack)

\* Mutant: the changes before the full text are replayed as well.
StoreFullTextLate(t) ==
    /\ base' = t
    /\ newer' = FALSE
    /\ stray' = IF GoodBase(t) THEN 0 ELSE 1
    /\ UNCHANGED <<skeleton, replay>>

\* A full text is stored.
StoreFullText(t) ==
    /\ base' = t
    /\ newer' = FALSE
    /\ replay' = [lines |-> SetText(t), broken |-> FALSE]
    /\ stray' = IF GoodBase(t) THEN 0 ELSE 1
    /\ UNCHANGED skeleton

Submit ==
    /\ StoreFullText(shown)
    /\ UNCHANGED <<shown, undoVars>>

\* setValue puts another text into the editor and forgets the edits.
SetValue(t) ==
    /\ shown' = t
    /\ undoStack' = <<>> /\ redoStack' = <<>>

Reset ==
    /\ StoreFullText(skeleton)
    /\ SetValue(skeleton)

\* The page is left and opened again.
Load ==
    /\ SetValue(Loaded)
    /\ UNCHANGED <<skeleton, base, newer, replay, stray>>

Next ==
    \/ \E p \in 0..MaxLength, t \in Pastes : TypeAt(p, t)
    \/ \E p, q \in 0..MaxDocument : Delete(p, q)
    \/ Undo \/ Redo
    \/ Submit \/ Reset \/ Load

Spec == Init /\ [][Next]_vars

-----------------------------------------------------------------------------
(* Properties.                                                             *)

\* The next visit shows the text the last one left, after a submission or a
\* reset always, and after edits as long as they are of the kinds above: the
\* rows and columns the editor reports are those of the TextDocument, through
\* edits that join, split, insert and remove lines.
LoadedIsShown == (newer => stray = 0) => Loaded = shown

\* The integrity check at the end of apply() never fails, whatever the edits:
\* a line of the document has no newline but its last character.
LineIntegrity ==
    \A i \in 1..Len(replay.lines) :
        Newlines(replay.lines[i]) \subseteq {Len(replay.lines[i])}


=============================================================================
