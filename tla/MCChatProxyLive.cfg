SPECIFICATION FairSpec
CONSTANTS
  Requests = {r1, r2}
  Texts = {t}
  Usages = {u1}
  NoUsage = NoUsage
  UpstreamStatuses = {429}
  MaxLen = 1
  MaxChunks = 1
PROPERTIES
  EveryCallSettles
CHECK_DEADLOCK FALSE
