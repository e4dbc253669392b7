SPECIFICATION Spec
CONSTANTS
  Buffer = {p, q}
  Frame = {1, 2}
  Junk = Junk
  Sizes = {1, 2}
INVARIANTS TypeOK ReadInOrder AvailableExact
