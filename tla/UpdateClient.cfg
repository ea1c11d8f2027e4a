SPECIFICATION FairSpec
CONSTANTS
  g = g
  h = h
  p = p
  q = q
  None = None
  Sources <- MCSources
  Versions = {0, 1, 2}
  Installed = 0
  Packages = {p, q}
  Stages = {s1, s2}
INVARIANTS
  HandedOverWhole
  NoOrphan
  NeverBoth
  OnePackage
PROPERTY JoinReturns
