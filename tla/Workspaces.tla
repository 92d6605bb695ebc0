----------------------------- MODULE Workspaces -----------------------------
(***************************************************************************)
(* What ends up in a lint's directory: extractAssets and checkAssetName    *)
(* (serve/cache.go), copyAssets, and checkFilename and writeCode           *)
(* (serve/lint.go).  The sizes of files, their budget and the disk's own   *)
(* errors are AssetCache's.                                                *)
(*                                                                         *)
(* A name is the sequence strings.Split(name, "/") gives, so "/a" is       *)
(* <<Empty, "a">> and "a/" is <<"a", Empty>>.  Of a segment only what the  *)
(* rules ask is kept: "ctl" holds a control character, "long" makes its    *)
(* name too long, "back" holds a backslash, "-a" starts with a dash,       *)
(* "zinc" stands for .zinc and examination-assets.                         *)
(***************************************************************************)
EXTENDS Naturals, Sequences, SequencesExt, FiniteSets

CONSTANTS
  MaxSegments,   \* bound: segments of a name that is looked at by itself
  MaxArchive,    \* bound: entries of an archive
  Entries,       \* bound: the entries that an archive of several is made of
  CodeNames,     \* bound: the filenames that come with such an archive
  MaxEntries     \* maxAssetEntries

\* The segment before a leading "/", after a trailing one and between two.
Empty == ""
Proper == {"a", "b", "back", "-a", "zinc"}
Segments == Proper \cup {Empty, ".", "..", "ctl", "long"}
Names == BoundedSeq(Segments, MaxSegments) \ {<<>>}
AnyName == Seq(Segments) \ {<<>>}
AnyEntry == [type : {"file", "dir", "global", "symlink"}, name : AnyName]

ASSUME EntriesAssumption ==
  /\ MaxEntries \in Nat /\ MaxArchive \in Nat /\ MaxSegments \in Nat
  /\ Entries \subseteq AnyEntry /\ CodeNames \subseteq AnyName

Parents(p) == {SubSeq(p, 1, i) : i \in 1 .. Len(p) - 1}

(***************************************************************************)
(* Names.                                                                  *)
(***************************************************************************)

Rooted(n) == Len(n) > 1 /\ n[1] = Empty

\* path.Clean
Clean(n) ==
  LET step(out, s) ==
        IF s \in {Empty, "."} THEN out
        ELSE IF s # ".." THEN Append(out, s)
        ELSE IF out # <<>> /\ Last(out) # ".." THEN Front(out)
        ELSE IF Rooted(n) THEN out ELSE Append(out, s)
      body == FoldLeft(step, <<>>, n)
  IN IF Rooted(n) THEN <<Empty>> \o (IF body = <<>> THEN <<Empty>> ELSE body)
     ELSE IF body = <<>> THEN <<".">> ELSE body

\* Mutant: an unclean name is one that Clean shortens.
CleanOnly(n) ==
  n \notin {<<Empty>>, <<".">>} /\ ~Rooted(n) /\ Range(n) \cap {"ctl", "long"} = {} /\ Clean(n) = n

\* checkAssetName
CheckAssetName(n) ==
  /\ n \notin {<<Empty>>, <<".">>} /\ ~Rooted(n)
  /\ Range(n) \cap {"ctl", "long"} = {}
  /\ Clean(n) = n /\ ".." \notin Range(n)

CheckFilename(n) ==
  /\ n \notin {<<Empty>>, <<".">>} /\ ~Rooted(n) /\ n[1] # "-a"
  /\ Range(n) \cap {"ctl", "long", "back"} = {}
  /\ Clean(n) = n /\ ".." \notin Range(n)
  /\ n[1] # "zinc"

\* TrimPrefix "./", and TrimSuffix "/" for a directory.
Trimmed(e) ==
  LET n == IF Len(e.name) > 1 /\ e.name[1] = "." THEN Tail(e.name) ELSE e.name
  IN IF e.type = "dir" /\ Len(n) > 1 /\ Last(n) = Empty THEN Front(n) ELSE n

(***************************************************************************)
(* The file system: a function from paths to "file" and "dir".             *)
(***************************************************************************)

CanMkdirAll(disk, p) ==
  \A q \in Parents(p) \cup {p} : q \in DOMAIN disk => disk[q] = "dir"
MkdirAll(disk, p) ==
  [q \in DOMAIN disk \cup Parents(p) \cup {p} |-> IF q \in DOMAIN disk THEN disk[q] ELSE "dir"]
CanCreate(disk, p) ==
  (\A q \in Parents(p) : q \in DOMAIN disk => disk[q] = "dir") /\ p \notin DOMAIN disk
Create(disk, p) ==
  [q \in DOMAIN disk \cup Parents(p) \cup {p} |->
     IF q = p THEN "file" ELSE IF q \in DOMAIN disk THEN disk[q] ELSE "dir"]

(***************************************************************************)
(* extractAssets: files, dirs and the dirs that an entry named.            *)
(***************************************************************************)

Start ==
  [verdict |-> "ok", entries |-> 0, files |-> {}, dirs |-> {}, named |-> {}, disk |-> <<>>]

\* Mutant: a file is looked up among the directories that entries named.
ClashNamed(st, e, n) ==
  \/ Parents(n) \cap st.files # {} \/ n \in st.files \cup st.named

\* Mutant: only the directory that n is in is looked up.
ClashParent(st, e, n) ==
  \/ (Len(n) > 1 /\ Front(n) \in st.files) \/ n \in st.files
  \/ n \in IF e.type = "dir" THEN st.named ELSE st.dirs

\* n is used otherwise already, or one of its parents is a file.
Clash(st, e, n) ==
  \/ Parents(n) \cap st.files # {} \/ n \in st.files
  \/ n \in IF e.type = "dir" THEN st.named ELSE st.dirs

Entry(st, e) ==
  LET n == Trimmed(e)
      bad == \/ st.entries = MaxEntries \/ e.type \notin {"dir", "file"}
             \/ ~CheckAssetName(n) \/ Clash(st, e, n)
      counted == [st EXCEPT !.entries = @ + 1, !.dirs = @ \cup Parents(n)] IN
  IF st.verdict # "ok" \/ e.type = "global" THEN st
  ELSE IF bad THEN [st EXCEPT !.verdict = "invalid"]
  ELSE IF ~(IF e.type = "dir" THEN CanMkdirAll(st.disk, n) ELSE CanCreate(st.disk, n))
       THEN [st EXCEPT !.verdict = "internal"]
  ELSE IF e.type = "dir"
       THEN [counted EXCEPT !.dirs = @ \cup {n}, !.named = @ \cup {n}, !.disk = MkdirAll(@, n)]
       ELSE [counted EXCEPT !.files = @ \cup {n}, !.disk = Create(@, n)]

ExtractAssets(archive) == FoldLeft(Entry, Start, archive)

(***************************************************************************)
(* lint: copyAssets makes what the set holds, writeCode adds the code.     *)
(***************************************************************************)

\* copyAssets, in the order of WalkDir: a directory before what is in it.
CopyAssets(disk) ==
  MapThenFoldSet(LAMBDA p, t : IF disk[p] = "dir" THEN MkdirAll(t, p) ELSE Create(t, p), <<>>,
                 LAMBDA p : p, LAMBDA s : CHOOSE p \in s : \A q \in s : Len(q) <= Len(p),
                 DOMAIN disk)

\* Mutant: O_EXCL, as for assets.
CanWriteNew(t, f) == CanCreate(t, f)

\* writeCode: MkdirAll of the parent, then WriteFile, which truncates a file.
CanWriteCode(t, f) ==
  (\A q \in Parents(f) : q \in DOMAIN t => t[q] = "dir") /\ (f \in DOMAIN t => t[f] = "file")

WriteCode(t, f) == [Create(t, f) EXCEPT ![f] = "code"]

(***************************************************************************)
(* The property, in terms of names and entries alone.                      *)
(***************************************************************************)

Archives ==
  BoundedSeq(Entries, MaxArchive) \cup {<<e>> : e \in [type : {"file", "dir"}, name : Names]}

\* An order-free reading of contract 9.2: at most MaxEntries entries, files and
\* directories with proper names, none named twice, no file also a directory.
Counted(archive) == {i \in DOMAIN archive : archive[i].type # "global"}
NamesOf(archive, type) ==
  {Trimmed(archive[i]) : i \in {j \in Counted(archive) : archive[j].type = type}}
Acceptable(archive) ==
  LET C == Counted(archive)
      N == [i \in C |-> Trimmed(archive[i])]
      isFile(i) == archive[i].type = "file" IN
  /\ Cardinality(C) <= MaxEntries
  /\ \A i \in C : archive[i].type \in {"file", "dir"} /\ Range(N[i]) \subseteq Proper
  /\ \A i, j \in C : i # j => N[i] # N[j] /\ (isFile(i) => N[i] \notin Parents(N[j]))

\* The tree those entries describe.
Tree(archive) ==
  LET F == NamesOf(archive, "file")
      D == NamesOf(archive, "dir") \cup UNION {Parents(n) : n \in F \cup NamesOf(archive, "dir")}
  IN [p \in F \cup D |-> IF p \in F THEN "file" ELSE "dir"]

Filenames(archive) == IF archive = <<>> THEN Names ELSE CodeNames

\* An archive is stored exactly when its entries, in whatever order, make one
\* tree: no order gets a file and a directory of one name past the two maps, and
\* none makes the file system refuse what they accepted.  A lint with a filename
\* that names something inside its workspace then runs in that tree with the
\* code in its place, replacing only an asset file of its name, or fails when a
\* directory or a file of the set is in the way.
ArchivesMakeTrees ==
  \A archive \in Archives :
    LET end == ExtractAssets(archive)
        t == CopyAssets(end.disk) IN
    /\ end.verdict = IF Acceptable(archive) THEN "ok" ELSE "invalid"
    /\ end.verdict = "ok" =>
         /\ t = Tree(archive)
         /\ \A f \in Filenames(archive) :
              /\ CheckFilename(f) <=>
                   Range(f) \subseteq Proper \ {"back"} /\ f[1] \notin {"-a", "zinc"}
              /\ CanWriteCode(t, f) <=>
                   (f \in DOMAIN t => f \in end.files) /\ Parents(f) \cap end.files = {}
              /\ CanWriteCode(t, f) =>
                   WriteCode(t, f) = [p \in DOMAIN t \cup Parents(f) \cup {f} |->
                                         IF p = f THEN "code"
                                         ELSE IF p \in DOMAIN t THEN t[p] ELSE "dir"]
=============================================================================
