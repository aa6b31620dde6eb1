\* Two getters, one result.
CONSTANTS
  Getters = {g1, g2}
  Values = {v1}
  NoValue = NoValue
SPECIFICATION Spec
PROPERTIES AllAreServed
