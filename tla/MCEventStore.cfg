\* Three ids, three categories in two spellings each, of which the store takes
\* both for one, or the filter only, or the index only.  Pages of one, two
\* or three events; ints end at 5, so that positions wrap around.
CONSTANTS
  none = none  Food = Food  food = food  low = low
  games = games  longs = longs  ini = ini  dotted = dotted
  i1 = i1  i2 = i2  i3 = i3
  Ids = {i1, i2, i3}
  Words = {none, Food, food, games, longs, ini, dotted, low}
  NoWord = none
  Categories = {Food, food, games, longs, ini, dotted}
  Priorities = {none, low}
  Lower <- LowerCase
  Fold <- Folded
  Within <- Itself
  Event <- Events
  MaxTime = 2
  MaxInt = 5
  MaxLimit = 3
  DefaultLimit = 2
  TopCount = 2
SPECIFICATION FairSpec
INVARIANTS TypeOK IndexExact ListMatchesScan PagesExact ReadersAgree
PROPERTIES NothingElseVanishes ExpiredLeaves
CHECK_DEADLOCK FALSE
