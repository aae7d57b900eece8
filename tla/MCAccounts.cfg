CONSTANTS
  a1 = a1
  a2 = a2
  m1 = m1
  m2 = m2
  Requests = {r1, r2, r3, r4}
  Founders = {a1}
  Emails = {m1, m2, m3}
  Mailbox <- MCMailbox
  Nothing = Nothing
SPECIFICATION Spec
INVARIANTS AccountsOK OneAccountPerInvite
PROPERTY LastAdminFallsToRace
SYMMETRY Interchangeable
