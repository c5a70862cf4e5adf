SPECIFICATION Spec
CONSTANTS
  h1 = h1
  h2 = h2
  h3 = h3
  d1 = d1
  d2 = d2
  Hooks = {h1, h2, h3}
  Drivers = {d1, d2}
  DriverOf <- MCDriverOf
  Instances = {i1, i2}
  Endpoints = {e1, e2, e3}
  NoHooks = NoHooks
  NoEndpoint = NoEndpoint
INVARIANTS
  UsersCounted
  HooksCurrent
PROPERTY
  ImplementsLease
