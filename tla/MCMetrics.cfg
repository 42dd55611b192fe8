\* Two instances, requests for the dashboard one after the other: they only
\* read the map.
SPECIFICATION FairSpec
CONSTANTS
  origin = origin
  replica = replica
  Instances = {origin, replica}
  Order <- MCOrder
  Counts = {1, 2}
  Beyond = {4}
  Requests = {d1}
INVARIANT TypeOK
INVARIANT AnswerIsWhole
INVARIANT EntriesOfLastScrape
PROPERTY ScrapesGoOn
CHECK_DEADLOCK FALSE
