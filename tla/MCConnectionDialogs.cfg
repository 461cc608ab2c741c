SPECIFICATION Spec
CONSTANTS
  NewIds = {n1, n2}
  ImportedIds = {i1, i2}
  MaxImported = 2
  MaxDialogs = 3
SYMMETRY Symmetry
INVARIANTS TypeOK TreeShowsList SecretsMatchProfiles
PROPERTIES SecretsLeaveByName
