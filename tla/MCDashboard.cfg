\* Two filters, up to two pages, two words of which one is found, and two
\* requests of each kind at a time.
CONSTANTS
  all = all  food = food  blank = blank  hike = hike  moon = moon
  r1 = r1  r2 = r2  d1 = d1
  Filters = {all, food}
  AllEvents = all
  Words = {blank, hike, moon}
  Blank = blank
  Matching = {hike}
  PageSize = 1
  MaxTotal = 2
  Slots = {r1, r2}
  Changes = {d1}
SPECIFICATION MCSpec
PROPERTIES NoFallingBack TableSettles NoStaleReturn RestingWordsAnswered
CHECK_DEADLOCK FALSE
