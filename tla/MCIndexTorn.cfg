SPECIFICATION Spec
CONSTANTS
  Heights = {1, 2}
  Hashes = {b1, b2}
  None = None
  Hydrations = {j1}
  Saves = {s1, s2}
  Inodes = {f1, f2, f3}
INVARIANT SettledFileLoads
