SPECIFICATION Spec
CONSTANTS
  Slot = {s1, s2}
  Addr = {d1, d2}
  Value = {v1, v2}
  Fd = {f1, f2}
  Mandatory = {ident}
  Optional = {label}
  None = None
  MaxPlugs = 2
SYMMETRY Symmetry
INVARIANTS
  TypeOK
  FdsServeTheirDevice
  CopyFollowsDevice
  FieldsOfOneDevice
  WritesNeedWritableFd
