\* Four calls, two at a time, on two reviews, one of them left by an earlier
\* release; any transaction may fail and any answer may be lost.
SPECIFICATION Spec
CONSTANTS
  Calls = {c1, c2, c3, c4}
  Threads = 2
  Imports = {i1, i2}
  Earlier = {i2}
  Rows = {row}
  row = row
  today = today
  tomorrow = tomorrow
  Dates = {today, tomorrow}
  k1 = k1
  k2 = k2
  Configs = {k1, k2}
  Excluded = Excluded
  Keep = Keep
  Nothing = Nothing
  RowValues <- Values
  Workbooks <- Uploads
  Left <- Saved
  Offered <- Corrections
SYMMETRY Symmetry
INVARIANTS
  AnswersHold
  OptimizedDaysAreReviewed
PROPERTY
  ImplementsContract
CHECK_DEADLOCK FALSE
