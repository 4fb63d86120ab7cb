SPECIFICATION Spec
CONSTANTS
  Threads = {t1}
  Users = {u1}
  MaxGroups = 1
  CanCrash = TRUE
INVARIANT CreatorIsMember
