SPECIFICATION Spec
CONSTANTS
  a = a
  b = b
  p = p
  q = q
  t1 = t1
  t2 = t2
  Words <- MCWords
  LoginField = LoginField
  PasswordField = PasswordField
  TokenField = TokenField
  HashOf <- MCHashOf
  Times = {0, 1}
  TokenSpace = 4
  Threads = {t1}
  Logins <- MCLoginsLong
  Passwords <- MCOnePassword
  MaxAccounts = 2
  MaxAppKey = 2
  Apps = {0}
  Ops = {"signup", "login", "notify", "delete"}
  CanCrash = TRUE
INVARIANT TypeOK
INVARIANT TokensResolve
INVARIANT SameSessionToken
INVARIANT DiesOfLostRecords
