SPECIFICATION Spec
CONSTANTS
  Threads = {t1}
  Users = {u1, u2}
  MaxGroups = 2
  CanCrash = TRUE
SYMMETRY MCUserSymmetry
INVARIANT TypeOK
INVARIANT FreshGroup
INVARIANT AdminAlwaysFound
INVARIANT Agreement
PROPERTY OKMeansBoth
