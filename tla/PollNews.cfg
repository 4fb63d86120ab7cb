SPECIFICATION Spec
CONSTANTS
  Threads = {t1}
  c1 = c1
  g1 = g1
  Clients = {c1, c2}
  Groups = {g1}
  Lobby = lobby
  Creator <- MCCreator
  Requests = {r1, r2}
  NoClient = NoClient
  NoRequest = NoRequest
  MaxMsgs = 2
  PageSize = 1
  CanCrash = TRUE
  CanRelogin = FALSE
SYMMETRY MCRequestSymmetry
INVARIANTS NoLostWakeup DeliveredIsReadable
PROPERTIES PagesKeep MailDelivered
