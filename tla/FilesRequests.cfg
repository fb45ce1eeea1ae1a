SPECIFICATION Spec
CONSTANTS
  Profiles = {profile}
  Dishes = {d1}
  Orders = {o1}
  Sessions = {s1, s2, s3}
  MaxFiles = 3
  Failures = TRUE
SYMMETRY SessionSymmetry
INVARIANTS
  NamedFilesExist
  PhotoKeptUntilErased
  OneRowPerFile
PROPERTY LivesInOrder
