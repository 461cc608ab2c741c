SPECIFICATION Spec
CONSTANTS
  Ids = {id1, id2}
  Bodies = {b1, b2}
  Servers = {s1, s2}
  Gui = Gui
  Absent = Absent
  Corrupt = Corrupt
SYMMETRY Symmetry
INVARIANTS TypeOK GuiShowsDisk UncontendedAcksSurvive
PROPERTIES NoCollateralChange FileStaysWhole
