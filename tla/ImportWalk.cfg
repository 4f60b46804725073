\* The walk over the import directories of small images.
CONSTANTS
  m_address = 64
  MaxCount = 2
  MaxImports = 2
  Libraries <- MCLibraries
  Headers <- MCHeaders
SPECIFICATION ImportSpec
INVARIANTS
  GreyAreasExact OutsideOnlyBroken
PROPERTIES
  ImportWalkEnds
