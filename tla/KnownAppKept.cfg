SPECIFICATION Spec
CONSTANTS
  a = a
  b = b
  p = p
  q = q
  t1 = t1
  t2 = t2
  Words <- MCWords
  LoginField = LoginField
  PasswordField = PasswordField
  TokenField = TokenField
  HashOf <- MCHashOf
  Times = {0, 1}
  TokenSpace = 4
  Threads = {t1}
  Logins <- MCLoginsPlain
  Passwords <- MCOnePassword
  MaxAccounts = 2
  MaxAppKey = 2
  Apps = {0, 1}
  Ops = {"signup", "login"}
  CanCrash = FALSE
INVARIANT KnownAppKept
