------------------------------- MODULE Lines -------------------------------
(***************************************************************************)
(* What JavacWorker.check reports of one diagnostic: class Lines and the   *)
(* range of a finding.  A text is the sequence of its UTF-16 code units,   *)
(* of which the code tells apart "cr", "nl", the two halves "hi" and "lo"  *)
(* of a supplementary character, and everything else, "x" (a tab as well). *)
(* Offsets count from 0, as javac's do.                                    *)
(***************************************************************************)
EXTENDS Integers, Sequences, SequencesExt, FiniteSets

CONSTANT MaxText   \* bound: code units of a source

ASSUME TextAssumption == MaxText \in Nat

\* Sources are decoded, so every surrogate has its other half.
Texts ==
  {t \in BoundedSeq({"x", "cr", "nl", "hi", "lo"}, MaxText) :
     \A i \in DOMAIN t : /\ t[i] = "hi" => i < Len(t) /\ t[i + 1] = "lo"
                         /\ t[i] = "lo" => i > 1 /\ t[i - 1] = "hi"}

\* text.charAt(i)
At(t, i) == t[i + 1]

\* javac's offsets lie between characters; NoPos is Diagnostic.NOPOS.
NoPos == -1
Offsets(t) == {i \in 0 .. Len(t) : i < Len(t) => At(t, i) # "lo"}

(***************************************************************************)
(* class Lines.                                                            *)
(***************************************************************************)

\* Mutant: every terminator character starts a line.
StartsOfEach(t) ==
  SetToSortSeq({0} \cup {i + 1 : i \in {j \in 0 .. Len(t) - 1 : At(t, j) \in {"cr", "nl"}}}, <)

\* The constructor's test of character i: it is, or completes, a terminator.
EndsLine(t, i) ==
  \/ At(t, i) = "nl"
  \/ At(t, i) = "cr" /\ (i + 1 >= Len(t) \/ At(t, i + 1) # "nl")

\* The constructor: the offsets at which lines start, in order.
Starts(t) ==
  LET upTo[i \in 0 .. Len(t)] ==
        IF i = 0 THEN <<0>>
        ELSE IF EndsLine(t, i - 1) THEN Append(upTo[i - 1], i)
        ELSE upTo[i - 1]
  IN upTo[Len(t)]

\* index: the binary search for the last start that is not behind pos.
Index(t, pos) ==
  LET s == Starts(t)
      search[r \in (DOMAIN s) \X (DOMAIN s)] ==
        LET lo == r[1]
            hi == r[2]
            mid == ((lo - 1) + (hi - 1) + 1) \div 2 + 1 IN
        IF lo >= hi THEN lo
        ELSE IF s[mid] <= pos THEN search[<<mid, hi>>] ELSE search[<<lo, mid - 1>>]
  IN search[<<1, Len(s)>>]

\* Mutant: a line ends one character before the next one, whatever ends it.
LineEndOfOne(t, pos) ==
  LET s == Starts(t)
      i == Index(t, pos)
  IN IF i = Len(s) THEN Len(t) ELSE s[i + 1] - 1

LineEnd(t, pos) ==
  LET s == Starts(t)
      i == Index(t, pos)
      next == s[i + 1]
      crlf == next >= 2 /\ At(t, next - 2) = "cr" /\ At(t, next - 1) = "nl"
  IN IF i = Len(s) THEN Len(t) ELSE next - (IF crlf THEN 2 ELSE 1)

Line(t, pos) == Index(t, pos)

\* String.codePointCount: a high surrogate that is cut off counts as well.
CodePoints(t, from, to) ==
  Cardinality({i \in from .. to - 1 :
                 ~(At(t, i) = "lo" /\ i > from /\ At(t, i - 1) = "hi")})

\* Mutant: code units.
ColumnInUnits(t, pos) == pos - Starts(t)[Index(t, pos)] + 1

Column(t, pos) ==
  CodePoints(t, Starts(t)[Index(t, pos)], IF pos <= Len(t) THEN pos ELSE Len(t)) + 1

(***************************************************************************)
(* The position of a finding, in check.                                    *)
(***************************************************************************)

\* content: the text that the offsets are looked up in, none when the source
\* cannot be read.
Content(t, readable) == IF readable THEN t ELSE <<>>

Position(t, pos, endPos) ==
  LET end == IF endPos <= LineEnd(t, pos) THEN endPos ELSE LineEnd(t, pos) IN
  IF pos = NoPos THEN [line |-> 0]
  ELSE IF endPos # NoPos /\ end > pos
       THEN [line |-> Line(t, pos), column |-> Column(t, pos),
             end_line |-> Line(t, end - 1), end_column |-> Column(t, end - 1)]
       ELSE [line |-> Line(t, pos), column |-> Column(t, pos)]

(***************************************************************************)
(* Properties.                                                             *)
(***************************************************************************)

\* An editor's cursor in front of offset i, moved there from the start of the
\* text unit by unit: CRLF is one step, and so is a supplementary character.
Moved(t, i, p) ==
  LET split == i < Len(t) /\ <<At(t, i - 1), At(t, i)>> \in {<<"cr", "nl">>, <<"hi", "lo">>}
  IN IF split THEN [p EXCEPT !.column = @ + 1]
     ELSE IF At(t, i - 1) \in {"cr", "nl"} THEN [line |-> p.line + 1, column |-> 1]
     ELSE IF At(t, i - 1) = "lo" THEN p
     ELSE [p EXCEPT !.column = @ + 1]
Cursor(t) ==
  LET at[i \in 0 .. Len(t)] ==
        IF i = 0 THEN [line |-> 1, column |-> 1] ELSE Moved(t, i, at[i - 1])
  IN at

\* The units of a range up to the end of the line it starts on, and the first
\* unit of the last character among them.
Shown(t, pos, endPos) ==
  {i \in pos .. endPos - 1 : \A j \in pos .. i : At(t, j) \notin {"cr", "nl"}}
LastShown(t, pos, endPos) ==
  Max({i \in Shown(t, pos, endPos) : At(t, i) # "lo"})

\* Where the reader's editor puts a diagnostic, the report puts it, for every mix
\* of CR, LF, CRLF and supplementary characters: line and column, no range
\* where nothing of the first line is in it, and one that ends on that line
\* (contract 2 and appendix A).  The last column is true unless a
\* supplementary character is the last one, see EndColumnsCountCodePoints.
\* When the source cannot be read any more every finding is at its start.
PositionsMatchCursors ==
  \A t \in Texts : \A pos \in Offsets(t), e \in Offsets(t) \cup {NoPos} :
    LET p == Position(Content(t, TRUE), pos, e)
        c == Cursor(t) IN
    /\ Position(Content(t, FALSE), pos, e) = [line |-> 1, column |-> 1]
    /\ p.line = c[pos].line /\ p.column = c[pos].column
    /\ IF Shown(t, pos, e) = {} THEN DOMAIN p = {"line", "column"}
       ELSE LET last == LastShown(t, pos, e) IN
            /\ p.end_line = p.line /\ p.end_column >= p.column
            /\ At(t, last) # "hi" => p.end_column = c[last].column
=============================================================================
