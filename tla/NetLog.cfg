SPECIFICATION LogSpec
CONSTANTS
  Recorders = {c1, c2, c3}
  Readers = {r1, r2}
  Cap = 2
  MaxHops = 6
  Nothing = Nothing
SYMMETRY Symmetry
INVARIANTS
  RingIsLatest
  NumbersAreUnique
