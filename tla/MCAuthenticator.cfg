SPECIFICATION Spec
CONSTANTS
  h1 = h1
  h2 = h2
  h3 = h3
  d1 = d1
  d2 = d2
  Contexts = {c1, c2}
  Hooks = {h1, h2, h3}
  Drivers = {d1, d2}
  DriverOf <- MCDriverOf
  Endpoints = {e1}
  Configs = {open, wpa2}
  None = None
INVARIANTS
  NothingLeftBehind
  RunsFaithful
PROPERTY
  ImplementsLease
