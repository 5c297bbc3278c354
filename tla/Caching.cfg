SPECIFICATION Spec
CONSTANTS
  h1 = h1
  h2 = h2
  h3 = h3
  h4 = h4
  Addresses <- MCAddresses
  Handles <- MCHandles
  BlockSize = 2
  MaxNodes = 4
  NULL = NULL
INVARIANTS TypeOK OneTree NothingLeaks OnlyRemovedUnmappedTwice
PROPERTIES ImplementsRegistry
SYMMETRY MCSymmetry
