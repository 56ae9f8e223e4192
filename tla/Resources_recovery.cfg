SPECIFICATION FairSpec
CONSTANTS
  n1 = n1
  n2 = n2
  x1 = x1
  x2 = x2
  x3 = x3
  None = None
  Names <- Two
  OrgQuotas <- Pair
  Default = x1
  Groups <- Three
  Everywhere <- LastOne
  Elsewhere <- LastOne
  SpaceQuotas <- Two
  Places <- Pair
  Rules <- Pair
  Orgs <- Three
  RouteSpaces <- Three
  RouteServices <- Two
  RouteParams <- Pair
  Keys <- Two
  Values <- Pair
  Known <- Two
  Custom <- Pair
  Defaults <- Usual
  Served <- Flagged
  Unnamed = None
  Amounts <- Memories
  Written <- Sizes
  Paths <- Pair
  FileOf <- FileNames
  Options <- Two
  DefaultOptions = n1
  Segments <- Pair
  Configs <- Asked
  Failing <- Anything
  MaxMishaps = 1
  MaxEdits = 2
CHECK_DEADLOCK FALSE
INVARIANTS TypeOK SuccessIsTrue
PROPERTIES PlansAreTrue SpaceKeepsGroups DomainKeepsShares Converges
