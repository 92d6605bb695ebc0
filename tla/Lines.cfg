CONSTANTS
  MaxText = 4
SPECIFICATION Spec
INVARIANTS
  EndColumnsCountCodePoints
