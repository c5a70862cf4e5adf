SPECIFICATION Spec
CONSTANTS
  CountMax = 255
  MaxSteps = 16
INVARIANT
  NibblesSaturated
