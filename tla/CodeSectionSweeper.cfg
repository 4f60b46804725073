\* All small sections, targets and data.
SPECIFICATION Spec
CONSTANTS
  m_code_section_start = 20
  m_code_section_size = 5
  AddressSpace = 29
  MaxLength = 3
  Indirect = Indirect
  Sections <- SmallSections
  TargetSets <- SmallTargets
  Alignment = 2
  MinInt3 = 0
  SearchRange = 4
  JmpLength = 3
  Alphabet = {1, 2, 3, 4, 5, 6, 7, 8, 9}
  Outside = 1
INVARIANTS
  WorkListReaches SplitSound GapsHoldUntraced
  TracesReadable LeaErasesFirst
PROPERTIES
  SweepAdvances
\* The sweep ends.
CHECK_DEADLOCK FALSE
