SPECIFICATION FairSpec
CONSTANTS
  s1 = s1
  s2 = s2
  None = None
  Segments <- TwoSegments
  Configs <- Wishes
  Failing <- AnyCall
  MaxMishaps = 1
  MaxEdits = 2
INVARIANT TypeOK
PROPERTIES PlansAreTrue Converges
