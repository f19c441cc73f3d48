SPECIFICATION Spec
CONSTANTS
  Texts = {a, b, c}
  a = a
  b = b
  c = c
  Lengths = {1, 3}
  Frames = {1, 2}
  MaxPages = 4
  PerPage = 2
  Budget = 6
SYMMETRY TextSymmetry
CHECK_DEADLOCK FALSE
INVARIANTS
  TypeOK
  FirstOfEach
  LongestPrefix
  LengthBounded
