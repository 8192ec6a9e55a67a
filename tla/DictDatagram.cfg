SPECIFICATION FairSpec
CONSTANTS
  c1 = c1
  c2 = c2
  w = w
  None = None
  Clients = {c1, c2}
  Words = {w}
  Editions = {1, 2}
  Listed <- MCListed
  Capacity = 1
  MaxRuns = 2
INVARIANTS AnswersRight OnePlace
PROPERTY AnsweredUnlessLost
