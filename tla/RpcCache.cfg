SPECIFICATION FairSpec
CONSTANTS
  p = p
  q = q
  Key = {p, q}
  Task = {t1, t2}
  Requests <- KeyLists
  MaxVer = 1
INVARIANTS NothingSurvivesReset AnswersRequest
PROPERTIES CacheMonotone CallsReturn
