SPECIFICATION FairSpec
CONSTANTS
  s1 = s1
  s2 = s2
  r1 = r1
  n1 = n1
  Fqn = {s1, s2, r1, n1}
  Stale = {s1, s2}
  CurrentCount = 3
  DesiredCount = 2
  Manifest <- MCManifest
  MaxVersion = 1
  MaxDeploys = 2
  MaxStops = 2
INVARIANTS
  NothingIsLost
PROPERTIES
  Reversible
  ReceiptsAreTrue
  DesiredRowsSurvive
  RestoringWorks
