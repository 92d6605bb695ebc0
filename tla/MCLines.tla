------------------------------ MODULE MCLines ------------------------------
(* One diagnostic with a range in one source, any that fits the bound. *)
EXTENDS Lines

VARIABLES text, pos, endPos

Init == text \in Texts /\ pos \in Offsets(text) /\ endPos \in Offsets(text)
Next == UNCHANGED <<text, pos, endPos>>
Spec == Init /\ [][Next]_<<text, pos, endPos>>

\* Appendix A: "Columns count code points from the line start", so the column of
\* a range's last character is the one its own diagnostic would have.
EndColumnsCountCodePoints ==
  Shown(text, pos, endPos) # {} =>
    Position(text, pos, endPos).end_column
      = Column(text, LastShown(text, pos, endPos))
=============================================================================
