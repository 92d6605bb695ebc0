------------------------------ MODULE Reports ------------------------------
(***************************************************************************)
(* From what a tool writes to the report of a lint: cappedBuffer and       *)
(* NormalizePath (linter/run.go), capReport and truncateUTF8               *)
(* (serve/lint.go).  A driver's Parse is abstracted to the findings it     *)
(* makes, each a path and a message; names are those of Workspaces.  A     *)
(* message is its bytes: the first byte of a rune tells how many it has,   *)
(* every other one is a "cont".                                            *)
(***************************************************************************)
EXTENDS Workspaces, Integers

CONSTANTS
  MaxOutput,         \* Options.MaxOutput
  MaxMessageBytes,   \* maxMessageBytes
  MaxWrites,         \* bound: writes of a tool
  MaxPiece,          \* bound: bytes of a write
  Files,             \* bound: the files that a request may have
  MaxFiles,          \* bound: files of a request
  MaxRunes,          \* bound: runes of a message
  MaxFindings        \* bound: findings of a tool

ASSUME CapsAssumption ==
  /\ MaxOutput \in Nat /\ MaxMessageBytes \in Nat \ {0} /\ MaxFindings \in Nat
  /\ MaxWrites \in Nat /\ MaxPiece \in Nat /\ MaxFiles \in Nat /\ MaxRunes \in Nat
  /\ Files \subseteq Seq({"a", "b"}) \ {<<>>}

(***************************************************************************)
(* cappedBuffer                                                            *)
(***************************************************************************)

\* Mutant: a write that does not fit is dropped as a whole.
WriteWhole(b, p) ==
  IF Len(p) > MaxOutput - Len(b.buf) THEN [b EXCEPT !.overflow = TRUE]
  ELSE [b EXCEPT !.buf = @ \o p]

Write(b, p) ==
  LET room == MaxOutput - Len(b.buf) IN
  IF Len(p) > room THEN [buf |-> b.buf \o SubSeq(p, 1, room), overflow |-> TRUE]
  ELSE [b EXCEPT !.buf = @ \o p]

Output(writes) == FoldLeft(Write, [buf |-> <<>>, overflow |-> FALSE], writes)

(***************************************************************************)
(* NormalizePath: the spellings it may return.                             *)
(***************************************************************************)

\* HasSuffix(clean, "/" + Clean(f))
EndsIn(clean, f) == Len(clean) > Len(Clean(f)) /\ IsSuffix(Clean(f), clean)

\* Mutant: the first file that fits, not the longest.
NormalizeFirst(reported, files) ==
  LET clean == Clean(reported)
      fits == {i \in DOMAIN files : Clean(files[i]) = clean \/ EndsIn(clean, files[i])} IN
  IF fits = {} THEN {clean} ELSE {files[Min(fits)]}

\* Of equally long files the sort, which is not stable, may put any first.
NormalizePath(reported, files) ==
  LET clean == Clean(reported)
      same == {i \in DOMAIN files : Clean(files[i]) = clean}
      fits == {i \in DOMAIN files : EndsIn(clean, files[i])}
      longest == {i \in fits : \A j \in fits : Len(Clean(files[j])) <= Len(Clean(files[i]))} IN
  IF same # {} THEN {files[Min(same)]}
  ELSE IF fits # {} THEN {files[i] : i \in longest}
  ELSE {clean}

(***************************************************************************)
(* capReport                                                               *)
(***************************************************************************)

\* Mutant: the cut is made where the limit is.
TruncateBytes(s) ==
  IF Len(s) <= MaxMessageBytes THEN s ELSE SubSeq(s, 1, MaxMessageBytes)

TruncateUTF8(s) ==
  LET cut[n \in 0 .. MaxMessageBytes] ==
        IF n > 0 /\ s[n + 1] = "cont" THEN cut[n - 1] ELSE n
  IN IF Len(s) <= MaxMessageBytes THEN s ELSE SubSeq(s, 1, cut[MaxMessageBytes])

CapReport(findings, maxFindings) ==
  [i \in 1 .. IF Len(findings) > maxFindings THEN maxFindings ELSE Len(findings) |->
     [findings[i] EXCEPT !.message = TruncateUTF8(@)]]

(***************************************************************************)
(* The property, part by part.                                             *)
(***************************************************************************)

\* Whatever pieces a tool writes, what is kept are the first MaxOutput bytes, and
\* only a tool that wrote more is reported as too verbose.
OutputIsAPrefix ==
  \A writes \in BoundedSeq(BoundedSeq({"x", "y"}, MaxPiece), MaxWrites) :
    LET all == FlattenSeq(writes)
        more == Len(all) > MaxOutput IN
    Output(writes) =
      [buf |-> IF more THEN SubSeq(all, 1, MaxOutput) ELSE all, overflow |-> more]

\* However a tool names one of the files it was given (relative, with detours, or
\* absolute), the finding has the path it was given, and a path that ends in
\* none of them stays what it is.  The directory is none that a file's name
\* starts with: such a name is ambiguous.
Dir == <<Empty, "-a">>
Spellings == BoundedSeq({"a", "b", "-a", Empty, ".", ".."}, MaxSegments) \ {<<>>}
PathsAreGiven ==
  \A files \in {s \in BoundedSeq(Files, MaxFiles) : IsInjective(s)},
     reported \in Spellings \cup {Dir \o n : n \in Spellings} :
    LET whole == Clean(IF Rooted(reported) THEN reported ELSE Dir \o reported)
        named == {f \in Range(files) : whole = Dir \o f} IN
    IF named # {} THEN NormalizePath(reported, files) = named
    ELSE \A f \in NormalizePath(reported, files) :
           IF f \in Range(files) THEN IsSuffix(f, Clean(reported)) ELSE f = Clean(reported)

\* A report holds the first findings, up to max_findings, and of each message the
\* most whole runes that fit.
Lead == <<"one", "two", "three", "four">>
Message(runes) ==
  FlattenSeq([i \in DOMAIN runes |->
                [j \in 1 .. runes[i] |-> IF j = 1 THEN Lead[runes[i]] ELSE "cont"]])
Longest(runes) ==
  Message(SubSeq(runes, 1, Max({n \in 0 .. Len(runes) :
                                 Len(Message(SubSeq(runes, 1, n))) <= MaxMessageBytes})))
FindingsAreCapped(maxFindings) ==
  \A n \in 0 .. MaxFindings : \A runes \in [1 .. n -> BoundedSeq(1 .. 4, MaxRunes)] :
    CapReport([i \in 1 .. n |-> [message |-> Message(runes[i]), id |-> i]], maxFindings) =
      [i \in 1 .. Min({n, maxFindings}) |-> [message |-> Longest(runes[i]), id |-> i]]

\* What the caller gets is what the tool said of the caller's files, cut only
\* where the limits say (contract 2, 8.4 and 9.1).
CapsAndPathsAreTrue ==
  \A maxFindings \in 1 .. MaxFindings :
    OutputIsAPrefix /\ PathsAreGiven /\ FindingsAreCapped(maxFindings)
=============================================================================
