---------------------------- MODULE MCLintServer ----------------------------
(* Small instances of LintServer, together with the sequential rules that   *)
(* decide what is in its workspaces and its reports.  These say the same of  *)
(* every archive, name and output within their bounds, whatever the state.   *)
EXTENDS LintServer, Reports

CONSTANTS r1, r2

\* Entries that clash and do not, one in a directory of a directory, and two that
\* are spelled otherwise than they are named; filenames that hit and miss them.
SmallEntries ==
  [type : {"file", "dir"},
   name : {<<"a">>, <<"b">>, <<"a", "b">>, <<"a", "b", "a">>, <<".", "a">>, <<"a", Empty>>}]
    \cup [type : {"global", "symlink"}, name : {<<"a">>}]
SmallCodeNames == {<<"a">>, <<"a", "b">>, <<"b", "a">>, <<"a", "b", "b">>}
SmallFiles == {<<"a">>, <<"b">>, <<"b", "a">>, <<"a", "b">>, <<"b", "a", "b">>}

\* The requests are alike, so the javac worker's may come first.  (TLC may not take
\* them for one another where it looks at liveness.)
LiveInit == Init /\ (java[r2] => java[r1])
LiveSpec == LiveInit /\ [][Next]_vars /\ Fairness

\* From where lint calls the tool or the worker, the workspace is the tree that
\* the uploaded archive describes, with the code in it, whatever the archive.
WorkspacesAreWhole ==
  \A r \in Requests : pc[r] \in {"run", "tool", "java"} => ArchivesMakeTrees

\* A report is what the tool said of the caller's files, cut only where the limits
\* say, whatever the tool wrote.
ReportsAreTrue ==
  \A r \in Requests : verdict[r] = "report" => CapsAndPathsAreTrue
=============================================================================
