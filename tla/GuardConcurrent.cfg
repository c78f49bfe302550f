CONSTANTS
  c1 = c1
  c2 = c2
  c3 = c3
  a1 = a1
  a2 = a2
  Call = {c1, c2}
  Agent = {a1, a2}
  OwnerOf <- TwoAgents
  Amount <- MCAmount
  Threshold = 500
  MaxLines = 3
  Disciplined = FALSE
SPECIFICATION FairSpec
INVARIANTS TypeOK PlacedOnYes SilenceIsNotConsent
PROPERTIES CancelReleases EofDrains
CHECK_DEADLOCK FALSE
