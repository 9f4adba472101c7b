SPECIFICATION Spec
CONSTANTS
  Loaves = {x, y}
  Strides = {1, 2}
  Literals <- MCLiterals
  Addresses <- MCAddresses
  MaxLength = 3
SYMMETRY Symmetry
INVARIANTS LoafTerminated EveryBlockHasOneOwner CallsWriteWhatTheySay
