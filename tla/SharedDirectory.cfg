SPECIFICATION Spec
CONSTANTS
  Creator = {c1}
  Input = {i1}
  Twins = {i1}
  RelOutput <- OutputNames
  Definition = {p1, p2}
  Text = {s1, s2}
  Dir = {d1, d2}
  Lapses = {"share directory"}
  NoFile = NoFile
  Garbage = Garbage
  MaxRuns = 3
  MaxEdits = 2
  MaxFaults = 0
SYMMETRY Symmetry
PROPERTIES ReuseRight
CHECK_DEADLOCK FALSE
