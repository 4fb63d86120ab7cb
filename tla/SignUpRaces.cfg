SPECIFICATION FairSpec
CONSTANTS
  a = a
  b = b
  p = p
  q = q
  t1 = t1
  t2 = t2
  Words <- MCWords
  LoginField = LoginField
  PasswordField = PasswordField
  TokenField = TokenField
  HashOf <- MCHashOf
  Times = {0, 1}
  TokenSpace = 7
  Threads <- MCTwoThreads
  Logins <- MCLoginsSpaced
  Passwords <- MCPasswordsPlain
  MaxAccounts = 3
  MaxAppKey = 0
  Apps = {0, 1}
  Ops = {"signup"}
  CanCrash = TRUE
INVARIANT LoginIdsDistinct
INVARIANT SignedUpIsKnown
PROPERTY NamesNotReassigned
PROPERTY SignUpAtomic
PROPERTY MutexReleased
