SPECIFICATION FairSpec
CONSTANTS
  Groups = {g, h}
  Owned = {h}
  Requests = {r1, r2}
  NoGroup = NoGroup
  NoRequest = NoRequest
  MaxMsgs = 2
  MaxShows = 2
  MaxSends = 2
  CanLose = TRUE
  CanChange = TRUE
INVARIANT TypeOK
INVARIANT NoGaps
INVARIANT OwnNotFetched
PROPERTY ReadsOn
PROPERTY CaughtUp
PROPERTY Settles
