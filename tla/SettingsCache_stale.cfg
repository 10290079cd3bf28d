CONSTANTS
  None = None
  Values = {0, 1}
  DefaultValue = 0
  Readers = {r1, r2}
  Changers = {a1, a2}
  Overtake = TRUE
SPECIFICATION SettingsSpec
INVARIANT SettingsInForce
