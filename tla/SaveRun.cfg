SPECIFICATION SaveFairSpec
CONSTANTS
  s1 = s1
  s2 = s2
  f1 = f1
  f2 = f2
  f3 = f3
  noFile = noFile
  Savers <- TwoSavers
  Files <- ThreeFiles
  NoFile <- noFile
  Protocols <- AllProtocols
  MaxVersion = 2
  MaxCrashes = 1
  MaxFailures = 1
PROPERTIES
  KeepsAcked
  NeverOlder
  SavedInTheEnd
