CONSTANTS
  Requests = {r1, r2, r3}
  Values = {a, b}
  Default = default
  Nothing = Nothing
  MaxRestarts = 1
SPECIFICATION Spec
INVARIANTS SettingsInv JobFollowsSettings
SYMMETRY Interchangeable
