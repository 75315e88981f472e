\* A folder with a file, and a folder in it with another file.
CONSTANTS
  r1 = r1
  r2 = r2
  d = d
  x = x
  s = s
  y = y
  Request = {r1, r2}
  Path = {d, x, s, y}
  Parents <- MCParents
  MaxOps = 2
SPECIFICATION Spec
INVARIANTS TypeOK Isolated
CONSTRAINT Scope
SYMMETRY RequestSymmetry
CHECK_DEADLOCK FALSE
