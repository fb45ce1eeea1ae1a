SPECIFICATION FairSpec
CONSTANTS
  Profiles = {profile, avatar}
  Dishes = {d1}
  Orders = {o1}
  Sessions = {s1}
  MaxFiles = 4
  Failures = FALSE
PROPERTY ReplacedFilesRemoved
CHECK_DEADLOCK FALSE
