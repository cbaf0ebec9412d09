\* Every checked workspace of up to three files, and an editor at work.
CONSTANTS
  Paths <- MCPaths
  Scanned <- MCScanned
  CheckedDisks <- MCCheckedDisks
  EditedDisks <- MCEditedDisks
  Texts <- MCTexts
  MaxNotes = 4
SPECIFICATION Spec
INVARIANTS
  CheckIsRight
  QuietIsCurrent
CHECK_DEADLOCK FALSE
