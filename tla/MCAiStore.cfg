SPECIFICATION StoreSpec
CONSTANTS
  Keys = {k1, k2, short, long}
  Values = {v1, v2}
  MaxFacts = 3
  Names = {sshort, slong}
  MaxSkills = 2
  LongKey = long
  ShortKey = short
  LongName = slong
  ShortName = sshort
  Cut <- CutToFit
  Zeros = Zeros
  Junk = Junk
  Absent = Absent
  MaxChanges = 4
  MaxResets = 2
  MaxFailures = 1
INVARIANTS StoreInv
PROPERTIES TablesSurvive TornLosesAtMostOne
CHECK_DEADLOCK FALSE
SYMMETRY Symmetry
