SPECIFICATION FairSpec
CONSTANTS
  Heights = {1, 2}
  Hashes = {b1, b2}
  None = None
  Hydrations = {j1}
  Saves = {s1}
  Inodes = {f1, f2}
PROPERTY LiveUpdatesAreSaved
