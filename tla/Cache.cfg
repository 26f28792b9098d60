SPECIFICATION Spec
CONSTANTS
  Keys = {k1, k2, k3}
  Readers = {r1, r2}
  MinTTL = 1
  MaxTTL = 3
  MaxEntries = 2
  Sample = 3
  TTLs = {0, 1, 2, 3, 4}
  None = None
SYMMETRY Symmetry
INVARIANTS TypeOK Bounded
PROPERTIES FreshEntriesStay ExpiredGoFirst
