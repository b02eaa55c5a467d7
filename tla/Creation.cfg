SPECIFICATION Spec
CONSTANTS
  Creator = {c1, c2}
  Input = {i1, i2, i3}
  Twins = {i1, i2}
  RelOutput <- OutputNames
  Definition = {p1, p2}
  Text = {s1, s2}
  Dir = {d1, d2}
  Lapses = {"edit definition", "touch output"}
  NoFile = NoFile
  Garbage = Garbage
  MaxRuns = 2
  MaxEdits = 1
  MaxFaults = 1
SYMMETRY Symmetry
INVARIANTS CreationTypeOK AssetsAccounted DoneIsFinal
PROPERTIES ReuseSound
CHECK_DEADLOCK FALSE
