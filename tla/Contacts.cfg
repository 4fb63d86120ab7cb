SPECIFICATION FairSpec
CONSTANTS
  ann = ann
  bob = bob
  g1 = g1
  h1 = h1
  Me = me
  Users = {me, ann, bob}
  Groups = {g1, h1}
  Creator <- MCCreator
  Old = {h1}
  Before <- MCBefore
  MaxCalls = 2
  NoGroup = NoGroup
  NoUser = NoUser
  MaxEvents = 2
  MaxLogins = 2
INVARIANT TypeOK
INVARIANT RowsOfOneGroup
INVARIANT Complete
INVARIANT NoLeftovers
PROPERTY CatchesUp
