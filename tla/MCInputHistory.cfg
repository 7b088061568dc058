\* Four requests, two at a time, with three keys, one operational date and a
\* source of another date, a failing database operation and a crash.
SPECIFICATION Spec
CONSTANTS
  Calls = {c1, c2, c3, c4}
  Threads = 2
  day = day
  otherDay = otherDay
  ann = ann
  bob = bob
  Dates = {day, otherDay}
  Keys = {k1, k2, k3}
  Employees = {ann, bob}
  Offered <- OfferedInputs
  Snapshots <- StoredSnapshots
  Imported <- ImportedSnapshots
  NoVersion = NoVersion
  NoInput = NoInput
  MaxTimeouts = 1
  MaxCrashes = 1
SYMMETRY Symmetry
INVARIANTS
  LineNeverBranches
  NumbersHaveNoGaps
  KeysNameOneVersion
  StaleIsJustified
  ConflictsMeanProgress
PROPERTY
  ImplementsHistory
CHECK_DEADLOCK FALSE
