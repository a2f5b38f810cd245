CONSTANTS
  Workers = {w1, w2}
  Passwords = {p1, p2}
  NoPassword = NoPassword
  Links = {l1, l2}
  Resets = {r1}
  Apple = Apple
  Untouched = Untouched
  FailedLoginThreshold = 2
SPECIFICATION Spec
INVARIANT ResetLinkWorks
