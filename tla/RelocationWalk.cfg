\* The walk over the relocation tables of small images.
CONSTANTS
  PAGE = 8
  m_address = 64
  Contents <- MCContents
  Tables <- MCTables
  Paddings <- MCPaddings
SPECIFICATION Spec
INVARIANTS
  TargetsExact ThrowsOnlyOutside
PROPERTIES
  WalkEnds
