SPECIFICATION Spec
CONSTANTS
  p = p
  q = q
  Key = {p, q}
  Task = {t1}
  Requests <- KeyLists
  MaxVer = 1
PROPERTY DocMissingNotRetried
