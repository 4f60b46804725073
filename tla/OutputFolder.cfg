\* Three runs with up to three files each: a third run meets what the second
\* left of the first.
CONSTANTS
  Absent = Absent
  MaxParts = 3
  MaxRuns = 3
SPECIFICATION Spec
INVARIANTS
  ReaderSeesOneRun StaleOnlyBehind
PROPERTIES
  ReportFolderKept
\* No run of the tool is left.
CHECK_DEADLOCK FALSE
