SPECIFICATION MailSpec
CONSTANTS
  s1 = s1  s2 = s2  s3 = s3  first = first  second = second
  Savers = {s1, s2, s3}  Keys = {first, second}  NewKey = first  KeyOf <- MCKeyOf
  MaxVersion = 2  MaxSaveFails = 1
  w1 = w1  w2 = w2  Importers = {w1, w2}  MaxSize = 2  MaxImportFails = 2
  o1 = o1  o2 = o2  Ops = {o1, o2}  Rows = 2  MaxOutstanding = 2  MaxActive = 2  MaxFails = 2
SYMMETRY Symmetry
INVARIANTS
  DraftObjectsAreSafe
  SavesAreTruthful
  ImportObjectsAreSafe
  BulkCopiesAreSafe
  BulkIsAccounted
CHECK_DEADLOCK FALSE
