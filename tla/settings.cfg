SPECIFICATION SettingsSpec
CONSTANTS
  k1 = k1
  k2 = k2
  k3 = k3
  None = None
  name = name
  soul = soul
  Keys = {k1, k2, k3}
  Vendor <- Distinct
  Reqs = {r1, r2}
  Fields = {name, soul}
  EnvFields <- JustName
  Values = {v, w}
  Users = {u1}
  Worlds <- OneByOne
INVARIANT PrimaryIsNewest
INVARIANT NoUpdateLost
INVARIANT ContainerAsksItsVendor
PROPERTY KeepsToConfig
PROPERTY StartUsesSettings
