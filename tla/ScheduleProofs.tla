----------------------------- MODULE ScheduleProofs -----------------------------
(***************************************************************************)
(* Theorems about the schedules of one pass: what validation promises the  *)
(* model builder, and what the constraints promise the result.             *)
(***************************************************************************)
EXTENDS ScheduleBuild, FiniteSetTheorems, WellFoundedInduction, TLAPS

ValidInput == day \in OperationalDays /\ config \in Configurations /\ Issues = {}

----------------------------------------------------------------------------
\* What validation promises.

LEMMA NoIssue ==
  ASSUME NEW condition, NEW code, When(condition, code) = {} PROVE ~condition
  BY DEF When

LEMMA ValidSettings ==
  ASSUME ValidInput
  PROVE  /\ \A setting \in PositiveSettings : config[setting] > 0
         /\ config.minimumStaff <= config.normalStaff
         /\ config.normalStaff <= config.heavyStaff
         /\ config.expressThreshold >= 0
         /\ ValidTiming /\ ValidStaffing
  <1>1. ConfigIssues = {}
    BY DEF ValidInput, Issues
  <1>2. /\ ~(\E setting \in PositiveSettings : config[setting] <= 0)
        /\ ~(config.minimumStaff > config.normalStaff)
        /\ ~(config.heavyStaff < config.normalStaff)
        /\ ~(config.expressThreshold < 0)
    BY <1>1, NoIssue DEF ConfigIssues
  <1>3. \A setting \in PositiveSettings : config[setting] \in Int
    BY DEF ValidInput, Configurations, PositiveSettings
  <1>4. \A setting \in PositiveSettings : config[setting] > 0
    BY <1>2, <1>3
  <1>5. /\ config.minimumStaff \in Int /\ config.normalStaff \in Int
        /\ config.heavyStaff \in Int /\ config.expressThreshold \in Int
    BY DEF ValidInput, Configurations
  <1>6. ValidTiming
    BY <1>4 DEF ValidTiming, PositiveSettings
  <1>7. ValidStaffing
    BY <1>2, <1>4, <1>5 DEF ValidStaffing, PositiveSettings
  <1> QED
    BY <1>2, <1>4, <1>5, <1>6, <1>7

LEMMA DayTypes ==
  ASSUME ValidInput
  PROVE  /\ Employees = 1..Len(day.employees) /\ Len(day.employees) \in Nat
         /\ Shifts = 1..Len(day.shifts) /\ Len(day.shifts) \in Nat
         /\ Flights = 1..Len(day.flights) /\ Len(day.flights) \in Nat
         /\ DOMAIN day.fixed = 1..Len(day.fixed) /\ Len(day.fixed) \in Nat
         /\ \A e \in Employees : /\ day.employees[e].id \in Identifiers
                                 /\ day.employees[e].enabled \in BOOLEAN
                                 /\ day.employees[e].quals \subseteq Qualifications
         /\ \A s \in Shifts : /\ day.shifts[s].employee \in Identifiers
                              /\ day.shifts[s].start \in Int
                              /\ day.shifts[s].end \in Int
                              /\ day.shifts[s].role \in Roles
         /\ \A f \in Flights : day.flights[f] \in FlightRecords
         /\ \A a \in DOMAIN day.fixed : day.fixed[a] \in AssignmentRecords
  <1>1. /\ day.employees \in Seq(EmployeeRecords)
        /\ day.shifts \in Seq(ShiftRecords)
        /\ day.flights \in Seq(FlightRecords)
        /\ day.fixed \in Seq(AssignmentRecords)
    BY DEF ValidInput, OperationalDays
  <1>2. /\ Employees = 1..Len(day.employees) /\ Len(day.employees) \in Nat
        /\ Shifts = 1..Len(day.shifts) /\ Len(day.shifts) \in Nat
        /\ Flights = 1..Len(day.flights) /\ Len(day.flights) \in Nat
        /\ DOMAIN day.fixed = 1..Len(day.fixed) /\ Len(day.fixed) \in Nat
    BY <1>1 DEF Employees, Shifts, Flights
  <1>3. /\ \A e \in Employees : day.employees[e] \in EmployeeRecords
        /\ \A s \in Shifts : day.shifts[s] \in ShiftRecords
        /\ \A f \in Flights : day.flights[f] \in FlightRecords
        /\ \A a \in DOMAIN day.fixed : day.fixed[a] \in AssignmentRecords
    BY <1>1, <1>2
  <1> QED
    BY <1>2, <1>3 DEF EmployeeRecords, ShiftRecords

LEMMA FiniteDay ==
  ASSUME ValidInput
  PROVE  /\ IsFiniteSet(Employees) /\ IsFiniteSet(Shifts) /\ IsFiniteSet(Flights)
         /\ IsFiniteSet(DOMAIN day.fixed)
  <1>1. \A n \in Nat : IsFiniteSet(1..n)
    BY FS_Interval
  <1> QED
    BY <1>1, DayTypes

LEMMA NamesAreUnique ==
  ASSUME ValidInput
  PROVE  /\ ValidEmployees = Employees
         /\ \A e, d \in Employees : EmployeeName(e) = EmployeeName(d) => e = d
  <1>1. \A e \in Employees : EmployeeIssues(e) = {}
    BY DEF ValidInput, Issues, DayIssues
  <1>2. \A e \in Employees :
          /\ EmployeeName(e) # ""
          /\ \A d \in 1..(e - 1) : EmployeeName(d) # EmployeeName(e)
    BY <1>1, NoIssue DEF EmployeeIssues
  <1>3. ASSUME NEW e \in Employees, NEW d \in Employees, EmployeeName(e) = EmployeeName(d)
        PROVE  e = d
    <2>1. e \in Nat /\ d \in Nat /\ e >= 1 /\ d >= 1
      BY DayTypes
    <2>2. ~(d < e)
      <3>1. d < e => d \in 1..(e - 1)
        BY <2>1
      <3> QED
        BY <1>2, <1>3, <3>1
    <2>3. ~(e < d)
      <3>1. e < d => e \in 1..(d - 1)
        BY <2>1
      <3> QED
        BY <1>2, <1>3, <3>1
    <2> QED
      BY <2>1, <2>2, <2>3
  <1> QED
    BY <1>1, <1>3 DEF ValidEmployees

\* Two shifts of one employee do not overlap, and none is empty.
LEMMA ShiftsApart ==
  ASSUME ValidInput
  PROVE  /\ \A s \in Shifts : day.shifts[s].start < day.shifts[s].end
         /\ \A r, s \in Shifts :
               r # s /\ day.shifts[r].employee = day.shifts[s].employee =>
                   ~Overlaps(day.shifts[r], day.shifts[s])
  <1>1. \A s \in Shifts : ShiftIssues(s) = {}
    BY DEF ValidInput, Issues, DayIssues
  <1>2. \A s \in Shifts : ~(ShiftLength(s) <= 0)
    BY <1>1, NoIssue DEF ShiftIssues
  <1>3. ValidShifts = Shifts
    BY <1>1 DEF ValidShifts
  <1>4. CollisionIssues = {}
    BY DEF ValidInput, Issues, DayIssues
  <1>5. \A s \in Shifts : ~(\E r \in Shifts \ {s} : Collides(s, r))
    <2>1. \A s \in Shifts : When(\E r \in Shifts \ {s} : Collides(s, r),
                               "OVERLAPPING_EMPLOYEE_SHIFTS") = {}
      BY <1>3, <1>4 DEF CollisionIssues
    <2> QED
      BY <2>1 DEF When
  <1> QED
    BY <1>2, <1>5, DayTypes DEF ShiftLength, Collides, Normalized

\* Every flight has a side, and a window that is not empty.
LEMMA FlightsAreDerivable ==
  ASSUME ValidInput, NEW f \in Flights
  PROVE  /\ FlightIssues(f) = {}
         /\ \A d \in Directions :
               Complete(day.flights[f], d) \/ Empty(day.flights[f], d)
         /\ \E d \in Directions : Complete(day.flights[f], d)
         /\ Window(f).start \in Int /\ Window(f).end \in Int
         /\ Window(f).start < Window(f).end
  <1> DEFINE flight == day.flights[f]
  <1>0. flight \in FlightRecords /\ config \in Configurations
    BY DayTypes DEF ValidInput
  <1>1. FlightIssues(f) = {}
    BY DEF ValidInput, Issues, DayIssues
  <1>2. ~(\A d \in Directions : Empty(flight, d))
    BY <1>1, NoIssue DEF FlightIssues
  <1>3. ASSUME NEW d \in Directions PROVE Complete(flight, d) \/ Empty(flight, d)
    <2>1. SideIssues(f, d) = {}
      BY <1>1, <1>3 DEF FlightIssues
    <2>2. /\ ~(flight[d].number = Malformed)
          /\ ~(flight[d].number = Absent /\ flight[d].time # Absent)
          /\ ~(flight[d].number # Absent /\ flight[d].time = Absent)
      BY <2>1, NoIssue DEF SideIssues
    <2>3. flight[d].number \in Nat \cup {Absent, Malformed}
      BY <1>0, <1>3 DEF FlightRecords, Sides, Directions
    <2> QED
      BY <2>2, <2>3 DEF Complete, Empty
  <1>4. \E d \in Directions : Complete(flight, d)
    BY <1>2, <1>3
  <1>5. BothComplete(flight) => flight.departure.time > flight.arrival.time
    <2>1. BothComplete(flight) => TurnIssues(flight) = {}
      BY <1>1 DEF FlightIssues
    <2>2. BothComplete(flight) => ~(flight.departure.time <= flight.arrival.time)
      BY <2>1, NoIssue DEF TurnIssues
    <2>3. flight.departure.time \in Int /\ flight.arrival.time \in Int
      BY <1>0 DEF FlightRecords, Sides, Absent
    <2> QED
      BY <2>2, <2>3
  <1>6. Derivable(flight)
    BY <1>3, <1>4, <1>5, ValidSettings DEF Derivable
  <1>7. ~(WorkWindow(flight).start >= WorkWindow(flight).end)
    BY <1>1, <1>6, NoIssue DEF FlightIssues
  <1>8. /\ config.preparation \in Int /\ config.offload \in Int /\ config.departureWork \in Int
        /\ flight.arrival.time \in Int /\ flight.departure.time \in Int
    BY <1>0 DEF Configurations, FlightRecords, Sides, Absent
  <1>9. Window(f).start \in Int /\ Window(f).end \in Int
    BY <1>8 DEF Window, WorkWindow, FlightType
  <1> QED
    BY <1>1, <1>3, <1>4, <1>7, <1>9 DEF Window

\* No flight is listed twice.
LEMMA FlightsAreDistinct ==
  ASSUME ValidInput, NEW f \in Flights, NEW g \in Flights, day.flights[f] = day.flights[g]
  PROVE  f = g
  <1>1. ASSUME NEW h \in Flights, NEW k \in Flights, k < h, day.flights[h] = day.flights[k]
        PROVE  FALSE
    <2>1. PICK d \in Directions : Complete(day.flights[h], d)
      BY FlightsAreDerivable
    <2>2. SideIssues(h, d) = {}
      BY FlightsAreDerivable DEF FlightIssues
    <2>3. k \in 1..(h - 1)
      BY <1>1, DayTypes
    <2> QED
      BY <1>1, <2>1, <2>2, <2>3, NoIssue DEF SideIssues
  <1> QED
    BY <1>1, DayTypes

----------------------------------------------------------------------------
\* Fixed work.

LEMMA FixedRecordsResolved ==
  ASSUME ValidInput, NEW a \in DOMAIN day.fixed
  PROVE  /\ FixedEmployee(a) \in Employees
         /\ EmployeeName(FixedEmployee(a)) = Normalized(day.fixed[a].employee)
         /\ FixedFlight(a) \in Flights
         /\ day.flights[FixedFlight(a)] = day.fixed[a].flight
         /\ a \in Records /\ a \in Comparable
  <1>1. FixedIssues = {}
    BY DEF ValidInput, Issues, DayIssues
  <1>2. Known(day.fixed[a].employee) /\ FlightsLike(day.fixed[a].flight) # {}
    <2>1. When(\E b \in DOMAIN day.fixed : ~Known(day.fixed[b].employee),
               "UNKNOWN_FIXED_ASSIGNMENT_EMPLOYEE") = {}
      BY <1>1 DEF FixedIssues
    <2>2. When(\E b \in DOMAIN day.fixed : FlightsLike(day.fixed[b].flight) = {},
               "UNKNOWN_FIXED_ASSIGNMENT_FLIGHT") = {}
      BY <1>1 DEF FixedIssues
    <2> QED
      BY <2>1, <2>2 DEF When
  <1>3. a \in Records
    <2>1. When(\E b \in DOMAIN day.fixed : Resolved(b) /\ b \notin Records,
               "DUPLICATE_FIXED_ASSIGNMENT") = {}
      BY <1>1 DEF FixedIssues
    <2> QED
      BY <1>2, <2>1 DEF When, Resolved
  <1>4. /\ FixedEmployee(a) \in Employees
        /\ EmployeeName(FixedEmployee(a)) = Normalized(day.fixed[a].employee)
    <2>1. PICK e \in Employees : EmployeeName(e) = Normalized(day.fixed[a].employee)
      BY <1>2 DEF Known
    <2>2. \A d \in 1..(e - 1) : d \in Employees /\ d # e
      BY DayTypes
    <2>3. \A d \in 1..(e - 1) : EmployeeName(d) # EmployeeName(e)
      BY <2>2, NamesAreUnique
    <2> QED
      BY <2>1, <2>3 DEF FixedEmployee
  <1>5. FixedFlight(a) \in Flights /\ day.flights[FixedFlight(a)] = day.fixed[a].flight
    <2>1. PICK f \in Flights : day.flights[f] = day.fixed[a].flight
      BY <1>2 DEF FlightsLike
    <2>2. \A g \in FlightsLike(day.fixed[a].flight) : g = f
      BY <2>1, FlightsAreDistinct DEF FlightsLike
    <2>3. f <= f
      BY DayTypes
    <2>4. f \in FlightsLike(day.fixed[a].flight)
      BY <2>1 DEF FlightsLike
    <2>5. FixedFlight(a) = f
      BY <2>2, <2>3, <2>4 DEF FixedFlight
    <2> QED
      BY <2>1, <2>5
  <1>6. FixedFlight(a) \in ValidFlights
    BY <1>5, FlightsAreDerivable DEF ValidFlights
  <1> QED
    BY <1>3, <1>4, <1>5, <1>6, NamesAreUnique DEF Comparable

\* A fixed pair comes from a record.
LEMMA FixedHasRecord ==
  ASSUME ValidInput, NEW p \in Fixed
  PROVE  \E a \in DOMAIN day.fixed : FixedEmployee(a) = p[1] /\ FixedFlight(a) = p[2]
  <1>1. p[1] \in Employees /\ p[2] \in Flights
    BY DEF Fixed
  <1>2. PICK a \in DOMAIN day.fixed :
          /\ day.fixed[a].employee = day.employees[p[1]].id
          /\ day.fixed[a].flight = day.flights[p[2]]
    BY DEF Fixed, FixedTo, Folded
  <1>3. FixedEmployee(a) = p[1]
    BY <1>1, <1>2, FixedRecordsResolved, NamesAreUnique DEF EmployeeName
  <1>4. FixedFlight(a) = p[2]
    BY <1>1, <1>2, FixedRecordsResolved, FlightsAreDistinct
  <1> QED
    BY <1>3, <1>4

LEMMA EligibleReason ==
  ASSUME NEW e, NEW f, NEW withLeads, NEW records, Reason(e, f, withLeads, records) = "ELIGIBLE"
  PROVE  /\ day.employees[e].enabled
         /\ EligibleShifts(e, Window(f), withLeads) # {}
         /\ \A a \in records :
               a.employee = day.employees[e].id /\ a.flight # day.flights[f] =>
                   ~Overlaps(Window(f), WorkWindow(a.flight))
  BY DEF Reason, Folded

LEMMA FixedIsLegal ==
  ASSUME ValidInput
  PROVE  /\ \A p \in Fixed : /\ day.employees[p[1]].enabled
                             /\ EligibleShifts(p[1], Window(p[2]), FALSE) # {}
         /\ \A p, q \in Fixed :
               p[1] = q[1] /\ p[2] # q[2] => ~Overlaps(Window(p[2]), Window(q[2]))
  <1>1. ValidTiming /\ config.expressThreshold >= 0
    BY ValidSettings
  <1>2. FixedIssues = {}
    BY DEF ValidInput, Issues, DayIssues
  <1>3. When(\E a \in Comparable :
               Reason(FixedEmployee(a), FixedFlight(a), FALSE, {}) # "ELIGIBLE",
             "ILLEGAL_FIXED_ASSIGNMENT") = {}
    BY <1>1, <1>2 DEF FixedIssues
  <1>4. When(\E a, b \in Comparable :
               /\ a # b
               /\ FixedEmployee(a) = FixedEmployee(b)
               /\ Overlaps(Window(FixedFlight(a)), Window(FixedFlight(b))),
             "OVERLAPPING_FIXED_ASSIGNMENTS") = {}
    BY <1>1, <1>2 DEF FixedIssues
  <1>5. ASSUME NEW p \in Fixed
        PROVE  /\ day.employees[p[1]].enabled
               /\ EligibleShifts(p[1], Window(p[2]), FALSE) # {}
    <2>1. PICK a \in DOMAIN day.fixed : FixedEmployee(a) = p[1] /\ FixedFlight(a) = p[2]
      BY FixedHasRecord
    <2>2. Reason(p[1], p[2], FALSE, {}) = "ELIGIBLE"
      BY <1>3, <2>1, FixedRecordsResolved DEF When
    <2> QED
      BY <2>2, EligibleReason
  <1>6. ASSUME NEW p \in Fixed, NEW q \in Fixed, p[1] = q[1], p[2] # q[2]
        PROVE  ~Overlaps(Window(p[2]), Window(q[2]))
    <2>1. PICK a \in DOMAIN day.fixed : FixedEmployee(a) = p[1] /\ FixedFlight(a) = p[2]
      BY FixedHasRecord
    <2>2. PICK b \in DOMAIN day.fixed : FixedEmployee(b) = q[1] /\ FixedFlight(b) = q[2]
      BY FixedHasRecord
    <2> QED
      BY <1>4, <1>6, <2>1, <2>2, FixedRecordsResolved DEF When
  <1> QED
    BY <1>5, <1>6

----------------------------------------------------------------------------
\* The solutions of the model.

LEMMA CandidatesAreLegal ==
  ASSUME ValidInput, NEW withLeads, NEW p \in LegalCandidates(withLeads)
  PROVE  /\ p \in Employees \X Flights
         /\ day.employees[p[1]].enabled
         /\ EligibleShifts(p[1], Window(p[2]), withLeads) # {}
         /\ \A q \in Fixed :
               p[1] = q[1] => p[2] # q[2] /\ ~Overlaps(Window(p[2]), Window(q[2]))
  <1>1. /\ p \in Employees \X Flights
        /\ Reason(p[1], p[2], withLeads, FixedRecords) = "ELIGIBLE"
        /\ ~FixedTo(p[1], day.flights[p[2]])
    BY DEF LegalCandidates
  <1>2. ASSUME NEW q \in Fixed, p[1] = q[1]
        PROVE  p[2] # q[2] /\ ~Overlaps(Window(p[2]), Window(q[2]))
    <2>1. p[2] # q[2] /\ q[2] \in Flights /\ p[2] \in Flights
      BY <1>1, <1>2 DEF Fixed
    <2>2. PICK a \in DOMAIN day.fixed :
            /\ day.fixed[a].employee = day.employees[q[1]].id
            /\ day.fixed[a].flight = day.flights[q[2]]
      BY DEF Fixed, FixedTo, Folded
    <2>3. day.fixed[a] \in FixedRecords
      <3>1. day.fixed[a] \in AssignmentRecords
        BY DayTypes
      <3>2. [day.fixed[a] EXCEPT !.employee = Folded(@)] = day.fixed[a]
        BY <3>1 DEF AssignmentRecords, Folded
      <3> QED
        BY <3>2 DEF FixedRecords
    <2>4. day.flights[q[2]] # day.flights[p[2]]
      BY <2>1, FlightsAreDistinct
    <2> QED
      BY <1>1, <1>2, <2>1, <2>2, <2>3, <2>4, EligibleReason DEF Window
  <1> QED
    BY <1>1, <1>2, EligibleReason

LEMMA SolutionsAreLegal ==
  ASSUME ValidInput, NEW withLeads \in BOOLEAN, candidates \subseteq LegalCandidates(withLeads),
         NEW schedule \in Solutions
  PROVE  /\ schedule \subseteq Employees \X Flights
         /\ \A p \in schedule : /\ day.employees[p[1]].enabled
                                /\ EligibleShifts(p[1], Window(p[2]), withLeads) # {}
         /\ \A p, q \in schedule :
               p[1] = q[1] /\ p[2] # q[2] => ~Overlaps(Window(p[2]), Window(q[2]))
         /\ \A f \in Flights : Staff(schedule, f) <= Maximum(f)
  <1>1. PICK chosen \in SUBSET candidates : schedule = chosen \cup Fixed /\ Solves(chosen)
    BY DEF Solutions
  <1>2. \A p \in chosen : p \in LegalCandidates(withLeads)
    BY <1>1
  <1>3. schedule \subseteq Employees \X Flights
    BY <1>1, <1>2 DEF Fixed, LegalCandidates
  <1>4. ASSUME NEW p \in schedule
        PROVE  /\ day.employees[p[1]].enabled
               /\ EligibleShifts(p[1], Window(p[2]), withLeads) # {}
    <2>1. CASE p \in chosen
      BY <1>2, <2>1, CandidatesAreLegal
    <2>2. CASE p \in Fixed
      <3>1. EligibleShifts(p[1], Window(p[2]), FALSE) \subseteq
                EligibleShifts(p[1], Window(p[2]), withLeads)
        BY DEF EligibleShifts, RoleAllowed
      <3> QED
        BY <2>2, <3>1, FixedIsLegal
    <2> QED
      BY <1>1, <2>1, <2>2
  <1>5. ASSUME NEW p \in schedule, NEW q \in schedule, p[1] = q[1], p[2] # q[2]
        PROVE  ~Overlaps(Window(p[2]), Window(q[2]))
    <2>1. CASE p \in chosen /\ q \in chosen
      BY <1>1, <1>5, <2>1 DEF Solves, OverlapsRespected
    <2>2. CASE p \in chosen /\ q \in Fixed
      BY <1>2, <1>5, <2>2, CandidatesAreLegal
    <2>3. CASE p \in Fixed /\ q \in chosen
      <3>1. ~Overlaps(Window(q[2]), Window(p[2]))
        BY <1>2, <1>5, <2>3, CandidatesAreLegal
      <3> QED
        BY <3>1 DEF Overlaps
    <2>4. CASE p \in Fixed /\ q \in Fixed
      BY <1>5, <2>4, FixedIsLegal
    <2> QED
      BY <1>1, <2>1, <2>2, <2>3, <2>4
  <1>6. \A f \in Flights : Staff(schedule, f) <= Maximum(f)
    BY <1>1 DEF Solves, StaffWithinMaximum
  <1> QED
    BY <1>3, <1>4, <1>5, <1>6

\* The result counts pairs where the model counts employees.
LEMMA CountsAgree ==
  ASSUME ValidInput, NEW schedule \in SUBSET (Employees \X Flights), NEW f \in Flights
  PROVE  /\ IsFiniteSet(schedule)
         /\ IsFiniteSet({p \in schedule : p[2] = f}) /\ IsFiniteSet(Crew(schedule, f))
         /\ StaffCount(schedule, f) = Staff(schedule, f)
         /\ StaffCount(schedule, f) \in Nat
  <1>1. IsFiniteSet(Employees) /\ IsFiniteSet(Flights)
    <2>1. \A n \in Nat : IsFiniteSet(1..n)
      BY FS_Interval
    <2> QED
      BY <2>1, DayTypes
  <1>2. IsFiniteSet(schedule)
    BY <1>1, FS_Product, FS_Subset
  <1> DEFINE pairs == {p \in schedule : p[2] = f}
             crew == Crew(schedule, f)
             name == [p \in pairs |-> p[1]]
  <1>3. IsFiniteSet(pairs) /\ Cardinality(pairs) \in Nat
    BY <1>2, FS_Subset, FS_CardinalityType
  <1>4. name \in Bijection(pairs, crew)
    <2>1. name \in [pairs -> crew]
      BY DEF Crew
    <2>2. \A p, q \in pairs : name[p] = name[q] => p = q
      OBVIOUS
    <2>3. \A e \in crew : \E p \in pairs : name[p] = e
      <3>1. \A e \in crew : <<e, f>> \in pairs /\ name[<<e, f>>] = e
        BY DEF Crew
      <3> QED
        BY <3>1
    <2> QED
      BY <2>1, <2>2, <2>3 DEF Bijection, Injection, Surjection, IsInjective
  <1>5. ExistsBijection(pairs, crew)
    BY <1>4 DEF ExistsBijection
  <1>6. IsFiniteSet(crew) /\ Cardinality(crew) = Cardinality(pairs)
    BY <1>3, <1>5, FS_Bijection
  <1> QED
    BY <1>2, <1>3, <1>6 DEF StaffCount, Staff

----------------------------------------------------------------------------
\* The steps leave the day alone, and with it what is derived from it.

SameInput == day' = day /\ config' = config
SameModel == SameInput /\ leads' = leads /\ candidates' = candidates

LEMMA IssuesKept ==
  ASSUME SameInput PROVE Issues' = Issues
  <1> USE DEF SameInput, Employees, Shifts, Flights, Supplied, FlightType, WorkWindow, Window,
              IsExpress, When
  <1>1. ConfigIssues' = ConfigIssues
    BY DEF ConfigIssues, FactorIssues, Representable, ValidFactors, MaximumAssignmentUnits, Larger,
       ExpressUnits, ThreeUnits, ScaledFactor
  <1>2. \A e : EmployeeIssues(e)' = EmployeeIssues(e)
    BY DEF EmployeeIssues, EmployeeName
  <1>3. \A s : ShiftIssues(s)' = ShiftIssues(s)
    BY DEF ShiftIssues, Known, EmployeeName, ShiftLength
  <1>4. CollisionIssues' = CollisionIssues
    BY DEF CollisionIssues, ValidShifts, Collides, ShiftIssues, Known, EmployeeName, ShiftLength
  <1>5. \A f : FlightIssues(f)' = FlightIssues(f)
    BY DEF FlightIssues, SideIssues, TurnIssues, Derivable, BothComplete, ValidTiming
  <1>6. FixedIssues' = FixedIssues
    BY DEF FixedIssues, Known, EmployeeName, FlightsLike, Resolved, Records, SamePair,
       ValidStaffing, Overstaffed, ValidFlights, FixedFlight, Maximum, MaximumStaff, ValidTiming,
       Comparable, FixedEmployee, ValidEmployees, EmployeeIssues, FlightIssues, SideIssues,
       TurnIssues, Derivable, BothComplete, Complete, Empty, Reason, FixedTo, ShiftsOf,
       RoleAllowed, EligibleShifts, ShiftContains, Directions, Overlaps
  <1>7. WorkloadIssues' = WorkloadIssues
    BY DEF WorkloadIssues, ValidFactors, WorkloadBound, PairCount, FactorIssues, Representable,
       MaximumAssignmentUnits, Larger, ExpressUnits, ThreeUnits, ScaledFactor
  <1> QED
    BY <1>1, <1>2, <1>3, <1>4, <1>5, <1>6, <1>7 DEF Issues, DayIssues

LEMMA LegalCandidatesKept ==
  ASSUME SameInput, NEW withLeads PROVE LegalCandidates(withLeads)' = LegalCandidates(withLeads)
  BY DEF SameInput, LegalCandidates, Employees, Flights, Shifts, Reason, FixedRecords, FixedTo,
     ShiftsOf, RoleAllowed, EligibleShifts, Window, WorkWindow, FlightType, Supplied,
     ShiftContains, Directions

LEMMA SolutionsKept ==
  ASSUME SameModel PROVE Solutions' = Solutions
  BY DEF SameModel, SameInput, Solutions, Solves, OverlapsRespected, StaffWithinMaximum,
     LeadHasValue, LeadDecisions, UsesLeadShift, Fixed, FixedTo, Staff, Crew, Maximum,
     MaximumStaff, Minimum, MinimumMet, MinimumMetValues, ThresholdValues, The, Qualified,
     NeedsQualifications, Employees, Flights, Shifts, ShiftsOf, ShiftContains, Window, WorkWindow,
     FlightType, Supplied, Directions, Overlaps, Folded

LEMMA BuildRaisesKept ==
  ASSUME SameModel PROVE BuildRaises' = BuildRaises
  BY DEF SameModel, SameInput, BuildRaises, LookupsSucceed, ShiftsAreUnique, MinutesArePositive,
     ShiftIsUnique, ShiftMinutes, AllowedShifts, Participants, Possible,
     Represented, EligibleShifts, ShiftLength, ShiftsOf, RoleAllowed, Employees, Flights, Shifts,
     ShiftContains, Window, WorkWindow, FlightType, Supplied, Directions, FixedTo, Folded

----------------------------------------------------------------------------
\* One pass up to its solver.

BuildOK ==
  /\ day \in OperationalDays /\ config \in Configurations
  /\ leads = FALSE
  /\ phase \in {"VALID", "RAISED", "MODEL", "SOLUTION"} => Issues = {}
  /\ phase \in {"RAISED", "MODEL", "SOLUTION"} => candidates = LegalCandidates(FALSE)
  /\ phase = "RAISED" => BuildRaises
  /\ phase = "SOLUTION" => crews \in Solutions

LEMMA BuildStep ==
  ASSUME BuildOK, [Next]_vars PROVE BuildOK'
  <1>1. CASE Validate
    BY <1>1, IssuesKept DEF Validate, BuildOK, SameInput
  <1>2. CASE BuildModel
    <2>1. SameInput /\ leads' = leads /\ Issues' = Issues
      BY <1>2, IssuesKept DEF BuildModel, SameInput
    <2>2. LegalCandidates(FALSE)' = LegalCandidates(FALSE)
      BY <2>1, LegalCandidatesKept
    <2>3. /\ phase = "VALID" /\ candidates' = LegalCandidates(FALSE)
          /\ phase' = IF BuildRaises' THEN "RAISED" ELSE "MODEL"
      BY <1>2 DEF BuildModel
    <2> QED
      BY <2>1, <2>2, <2>3 DEF BuildOK, SameInput
  <1>3. CASE Solve
    <2>1. SameModel /\ Issues' = Issues /\ Solutions' = Solutions
      BY <1>3, IssuesKept, SolutionsKept DEF Solve, SameModel, SameInput
    <2>2. LegalCandidates(FALSE)' = LegalCandidates(FALSE)
      BY <2>1, LegalCandidatesKept DEF SameModel
    <2>3. phase = "MODEL" /\ phase' = "SOLUTION" /\ crews' \in Solutions
      BY <1>3 DEF Solve
    <2> QED
      BY <2>1, <2>2, <2>3 DEF BuildOK, SameModel, SameInput
  <1>4. CASE UNCHANGED vars
    <2>1. SameModel /\ phase' = phase /\ crews' = crews
      BY <1>4 DEF vars, SameModel, SameInput
    <2>2. /\ Issues' = Issues /\ Solutions' = Solutions /\ BuildRaises' = BuildRaises
          /\ LegalCandidates(FALSE)' = LegalCandidates(FALSE)
      BY <2>1, IssuesKept, SolutionsKept, BuildRaisesKept, LegalCandidatesKept DEF SameModel
    <2> QED
      BY <2>1, <2>2 DEF BuildOK, SameModel, SameInput
  <1> QED
    BY <1>1, <1>2, <1>3, <1>4 DEF Next, Done

LEMMA BuildInvariant == Spec => []BuildOK
  <1>1. Init => BuildOK
    BY ScheduleAssumption DEF Init, BuildOK
  <1>2. BuildOK /\ [Next]_vars => BuildOK'
    BY BuildStep
  <1> QED
    BY <1>1, <1>2, PTL DEF Spec

\* Windows that do not overlap have no minute in common.
LEMMA MinutesApart ==
  ASSUME ValidInput, NEW f \in Flights, NEW g \in Flights, ~Overlaps(Window(f), Window(g))
  PROVE  Minutes(f) \cap Minutes(g) = {}
  BY FlightsAreDerivable DEF Minutes, Overlaps

(* No employee of a schedule works two flights in one minute or a minute out of
   a shift in a role that may work, and no flight has more people than it may
   have, for every valid day and every answer of the solver. *)
THEOREM SchedulesLegal == Spec => []SchedulesAreLegal
  <1>1. BuildOK => SchedulesAreLegal
    <2> SUFFICES ASSUME BuildOK, phase = "SOLUTION"
                 PROVE  /\ \A p, q \in crews :
                              p[1] = q[1] /\ p # q => Minutes(p[2]) \cap Minutes(q[2]) = {}
                        /\ \A p \in crews :
                              /\ day.employees[p[1]].enabled
                              /\ \E s \in Shifts :
                                    /\ day.shifts[s].employee = day.employees[p[1]].id
                                    /\ day.shifts[s].role # "RAMP_LEAD"
                                    /\ \A t \in Minutes(p[2]) :
                                          t \in day.shifts[s].start..(day.shifts[s].end - 1)
                        /\ \A f \in Flights : StaffCount(crews, f) <= Maximum(f)
      BY DEF SchedulesAreLegal
    <2>1. ValidInput /\ candidates \subseteq LegalCandidates(FALSE) /\ crews \in Solutions
      BY DEF BuildOK, ValidInput
    <2>2. crews \subseteq Employees \X Flights
      BY <2>1, SolutionsAreLegal
    <2>3. ASSUME NEW p \in crews, NEW q \in crews, p[1] = q[1], p # q
          PROVE  Minutes(p[2]) \cap Minutes(q[2]) = {}
      <3>1. p[2] # q[2] /\ p[2] \in Flights /\ q[2] \in Flights
        BY <2>2, <2>3
      <3>2. ~Overlaps(Window(p[2]), Window(q[2]))
        BY <2>1, <2>3, <3>1, SolutionsAreLegal
      <3> QED
        BY <2>1, <3>1, <3>2, MinutesApart
    <2>4. ASSUME NEW p \in crews
          PROVE  /\ day.employees[p[1]].enabled
                 /\ \E s \in Shifts :
                       /\ day.shifts[s].employee = day.employees[p[1]].id
                       /\ day.shifts[s].role # "RAMP_LEAD"
                       /\ \A t \in Minutes(p[2]) :
                             t \in day.shifts[s].start..(day.shifts[s].end - 1)
      <3>1. /\ day.employees[p[1]].enabled
            /\ EligibleShifts(p[1], Window(p[2]), FALSE) # {}
        BY <2>1, SolutionsAreLegal
      <3>2. PICK s \in Shifts :
              /\ day.shifts[s].employee = day.employees[p[1]].id
              /\ RoleAllowed(day.shifts[s].role, FALSE)
              /\ ShiftContains(s, Window(p[2]))
        BY <3>1 DEF EligibleShifts, ShiftsOf, Folded
      <3>3. day.shifts[s].role # "RAMP_LEAD"
        BY <3>2 DEF RoleAllowed
      <3>4. ASSUME NEW t \in Minutes(p[2])
            PROVE  t \in day.shifts[s].start..(day.shifts[s].end - 1)
        <4>1. p[2] \in Flights
          BY <2>2
        <4>2. /\ Window(p[2]).start \in Int /\ Window(p[2]).end \in Int
              /\ day.shifts[s].start \in Int /\ day.shifts[s].end \in Int
          BY <2>1, <4>1, FlightsAreDerivable, DayTypes
        <4> QED
          BY <3>2, <3>4, <4>2 DEF Minutes, ShiftContains
      <3> QED
        BY <3>1, <3>2, <3>3, <3>4
    <2>5. \A f \in Flights : StaffCount(crews, f) <= Maximum(f)
      BY <2>1, <2>2, SolutionsAreLegal, CountsAgree
    <2> QED
      BY <2>3, <2>4, <2>5
  <1> QED
    BY <1>1, BuildInvariant, PTL


----------------------------------------------------------------------------
\* Sums over finite sets.

\* A family of subsets of a finite set has a least one: what induction over
\* the size of a set needs.
LEMMA LeastSubset ==
  ASSUME NEW S, IsFiniteSet(S), NEW family \in SUBSET SUBSET S, family # {}
  PROVE  \E T \in family : \A U \in family : U \subseteq T => U = T
  <1>1. family \subseteq FiniteSubsetsOf(S)
    BY FS_FiniteSubsetsOfFinite
  <1>2. \E T \in family : \A U \in family : <<U, T>> \notin StrictSubsetOrdering(S)
    BY <1>1, WFMin, FS_StrictSubsetOrderingWellFounded
  <1> QED
    BY <1>1, <1>2 DEF StrictSubsetOrdering, FiniteSubsetsOf

Pick(S) == CHOOSE x \in S : TRUE

\* "total" adds up "term" on every subset of S, the way MapThenSumSet does.
AddsUp(S, term, total) ==
  \A T \in SUBSET S :
      total[T] = IF T = {} THEN 0 ELSE term[Pick(T)] + total[T \ {Pick(T)}]

LEMMA PickIn == ASSUME NEW S, S # {} PROVE Pick(S) \in S
  BY DEF Pick

LEMMA TotalsAgree ==
  ASSUME NEW S, IsFiniteSet(S), NEW term, NEW one, NEW two,
         AddsUp(S, term, one), AddsUp(S, term, two)
  PROVE  \A T \in SUBSET S : one[T] = two[T]
  <1> DEFINE bad == {T \in SUBSET S : one[T] # two[T]}
  <1> SUFFICES ASSUME bad # {} PROVE FALSE
    OBVIOUS
  <1>0. bad \in SUBSET SUBSET S
    OBVIOUS
  <1>1. PICK T \in bad : \A U \in bad : U \subseteq T => U = T
    <2> HIDE DEF bad
    <2> QED
      BY <1>0, LeastSubset
  <1>2. T # {}
    BY <1>1 DEF AddsUp
  <1>3. Pick(T) \in T
    BY <1>2, PickIn
  <1>4. T \ {Pick(T)} \notin bad /\ T \ {Pick(T)} \in SUBSET S
    BY <1>1, <1>3
  <1> QED
    BY <1>1, <1>2, <1>4 DEF AddsUp

LEMMA TotalExists ==
  ASSUME NEW S, IsFiniteSet(S), NEW term
  PROVE  \E total : AddsUp(S, term, total)
  <1> DEFINE bad == {T \in SUBSET S : ~\E total : AddsUp(T, term, total)}
  <1> SUFFICES ASSUME bad # {} PROVE FALSE
    OBVIOUS
  <1>0. bad \in SUBSET SUBSET S
    OBVIOUS
  <1>1. PICK T \in bad : \A U \in bad : U \subseteq T => U = T
    <2> HIDE DEF bad
    <2> QED
      BY <1>0, LeastSubset
  <1> DEFINE sum(U) == (CHOOSE total : AddsUp(U, term, total))[U]
             found == [U \in SUBSET T |-> IF U = {} THEN 0 ELSE term[Pick(U)] + sum(U \ {Pick(U)})]
  <1>2. ASSUME NEW U \in SUBSET T, U # T PROVE \E t : AddsUp(U, term, t)
    BY <1>1, <1>2
  <1>3. ASSUME NEW U \in SUBSET T, U # T, U # {}
        PROVE  sum(U) = term[Pick(U)] + sum(U \ {Pick(U)})
    <2> DEFINE V == U \ {Pick(U)}
    <2>1. PICK t : t = (CHOOSE total : AddsUp(U, term, total)) /\ AddsUp(U, term, t)
      BY <1>2, <1>3
    <2>2. V \in SUBSET T /\ V # T /\ V \in SUBSET U
      BY <1>3
    <2>3. PICK v : v = (CHOOSE total : AddsUp(V, term, total)) /\ AddsUp(V, term, v)
      BY <1>2, <2>2
    <2>4. AddsUp(V, term, t)
      BY <2>1, <2>2 DEF AddsUp
    <2>5. IsFiniteSet(V)
      BY <2>2, FS_Subset
    <2>6. t[V] = v[V]
      BY <2>3, <2>4, <2>5, TotalsAgree
    <2>7. t[U] = term[Pick(U)] + t[V]
      BY <1>3, <2>1 DEF AddsUp
    <2> QED
      BY <2>1, <2>3, <2>6, <2>7
  <1>4. sum({}) = 0
    <2>1. \E t : AddsUp({}, term, t)
      <3>1. AddsUp({}, term, [U \in {{}} |-> 0])
        BY DEF AddsUp
      <3> QED
        BY <3>1
    <2>2. AddsUp({}, term, CHOOSE total : AddsUp({}, term, total))
      BY <2>1
    <2> QED
      BY <2>2 DEF AddsUp
  <1>5. ASSUME NEW U \in SUBSET T, U # T PROVE found[U] = sum(U)
    BY <1>3, <1>4, <1>5
  <1>6. ASSUME NEW U \in SUBSET T
        PROVE  found[U] = IF U = {} THEN 0 ELSE term[Pick(U)] + found[U \ {Pick(U)}]
    <2>1. CASE U = {}
      BY <2>1
    <2>2. CASE U # {}
      <3>1. U \ {Pick(U)} \in SUBSET T /\ U \ {Pick(U)} # T
        BY <2>2, PickIn
      <3>2. found[U \ {Pick(U)}] = sum(U \ {Pick(U)})
        BY <1>5, <3>1
      <3> QED
        BY <2>2, <3>2
    <2> QED
      BY <2>1, <2>2
  <1>7. AddsUp(T, term, found)
    BY <1>6 DEF AddsUp
  <1> QED
    BY <1>1, <1>7

\* The totals of positive terms are positive.
LEMMA PositiveTotal ==
  ASSUME NEW S, IsFiniteSet(S), NEW term, NEW total, AddsUp(S, term, total),
         \A x \in S : term[x] \in Nat \ {0}
  PROVE  total[S] \in Nat /\ (S # {} => total[S] > 0)
  <1> DEFINE positive(T) == total[T] \in Nat /\ (T # {} => total[T] > 0)
             bad == {T \in SUBSET S : ~positive(T)}
  <1> SUFFICES ASSUME bad # {} PROVE FALSE
    OBVIOUS
  <1>0. bad \in SUBSET SUBSET S
    OBVIOUS
  <1>1. PICK T \in bad : \A U \in bad : U \subseteq T => U = T
    <2> HIDE DEF bad
    <2> QED
      BY <1>0, LeastSubset
  <1>2. CASE T = {}
    <2>1. {} \in SUBSET S
      OBVIOUS
    <2>2. total[{}] = 0
      BY <2>1 DEF AddsUp
    <2> QED
      BY <1>1, <1>2, <2>2
  <1>3. CASE T # {}
    <2>1. Pick(T) \in T /\ T \in SUBSET S
      BY <1>1, <1>3, PickIn
    <2>2. positive(T \ {Pick(T)})
      BY <1>1, <2>1
    <2>3. total[T] = term[Pick(T)] + total[T \ {Pick(T)}]
      BY <1>3, <2>1 DEF AddsUp
    <2>4. term[Pick(T)] \in Nat \ {0}
      BY <2>1
    <2>5. T \ {Pick(T)} # {} => total[T \ {Pick(T)}] > 0
      BY <2>2
    <2>6. total[T] \in Nat /\ total[T] > 0
      BY <2>2, <2>3, <2>4
    <2> QED
      BY <1>1, <2>6
  <1> QED
    BY <1>2, <1>3

\* SumFunction adds up: the function it chooses exists on finite domains.
LEMMA SumAddsUp ==
  ASSUME NEW term, IsFiniteSet(DOMAIN term)
  PROVE  \E total : AddsUp(DOMAIN term, term, total) /\ SumFunction(term) = total[DOMAIN term]
  <1> DEFINE S == DOMAIN term
             step(t) == [T \in SUBSET S |->
                            IF T = {} THEN 0
                            ELSE term[CHOOSE x \in T : TRUE] + t[T \ {CHOOSE x \in T : TRUE}]]
             iter == CHOOSE t : t = step(t)
  <1>1. SumFunction(term) = iter[S]
    BY DEF SumFunction, SumFunctionOnSet, FoldFunctionOnSet, MapThenFoldSet
  <1>2. PICK some : AddsUp(S, term, some)
    BY TotalExists
  <1> DEFINE t == [T \in SUBSET S |-> some[T]]
  <1>3. t = step(t)
    <2> SUFFICES ASSUME NEW T \in SUBSET S PROVE t[T] = step(t)[T]
      OBVIOUS
    <2>1. CASE T = {}
      BY <1>2, <2>1 DEF AddsUp
    <2>2. CASE T # {}
      BY <1>2, <2>2 DEF AddsUp, Pick
    <2> QED
      BY <2>1, <2>2
  <1>4. iter = step(iter)
    <2> HIDE DEF step, t
    <2> QED
      BY <1>3
  <1>5. AddsUp(S, term, iter)
    <2> SUFFICES ASSUME NEW T \in SUBSET S
                 PROVE  iter[T] = IF T = {} THEN 0 ELSE term[Pick(T)] + iter[T \ {Pick(T)}]
      BY DEF AddsUp
    <2>1. iter[T] = step(iter)[T]
      BY <1>4
    <2> HIDE DEF iter
    <2> QED
      BY <2>1 DEF Pick
  <1> QED
    BY <1>1, <1>5

----------------------------------------------------------------------------
\* Sums and maxima of integers.

LEMMA IntegerTotal ==
  ASSUME NEW term, IsFiniteSet(DOMAIN term), \A x \in DOMAIN term : term[x] \in Int
  PROVE  SumFunction(term) \in Int
  <1> DEFINE S == DOMAIN term
  <1>1. PICK total : AddsUp(S, term, total) /\ SumFunction(term) = total[S]
    BY SumAddsUp
  <1> DEFINE bad == {T \in SUBSET S : total[T] \notin Int}
  <1>2. bad = {}
    <2> SUFFICES ASSUME bad # {} PROVE FALSE
      OBVIOUS
    <2>1. bad \in SUBSET SUBSET S
      OBVIOUS
    <2>2. PICK T \in bad : \A U \in bad : U \subseteq T => U = T
      <3> HIDE DEF bad
      <3> QED
        BY <2>1, LeastSubset
    <2>3. total[T] = IF T = {} THEN 0 ELSE term[Pick(T)] + total[T \ {Pick(T)}]
      BY <1>1, <2>2 DEF AddsUp
    <2>4. T # {}
      BY <2>2, <2>3
    <2>5. Pick(T) \in T /\ T \subseteq S
      BY <2>2, <2>4, PickIn
    <2>6. T \ {Pick(T)} \notin bad /\ T \ {Pick(T)} \in SUBSET S
      BY <2>2, <2>5
    <2> QED
      BY <2>2, <2>3, <2>4, <2>5, <2>6
  <1> QED
    BY <1>1, <1>2

\* Max finds the greatest of finitely many integers.
LEMMA MaxIsGreatest ==
  ASSUME NEW S, IsFiniteSet(S), S # {}, \A x \in S : x \in Int
  PROVE  Max(S) \in S /\ \A x \in S : Max(S) >= x
  <1> DEFINE family == {T \in SUBSET S : \E x \in T : \A y \in S \ T : x >= y}
  <1>1. family # {} /\ family \in SUBSET SUBSET S
    <2>1. S \in family
      OBVIOUS
    <2> QED
      BY <2>1
  <1>2. PICK T \in family : \A U \in family : U \subseteq T => U = T
    <2> HIDE DEF family
    <2> QED
      BY <1>1, LeastSubset
  <1>3. PICK x \in T : \A y \in S \ T : x >= y
    BY <1>2
  <1>4. ASSUME NEW y \in T, ~(x >= y) PROVE FALSE
    <2>1. \A z \in S \ (T \ {x}) : y >= z
      BY <1>2, <1>3, <1>4
    <2>2. T \ {x} \in family /\ y \in T \ {x}
      BY <1>2, <1>3, <1>4, <2>1
    <2> QED
      BY <1>2, <1>3, <2>2
  <1>5. x \in S /\ \A y \in S : x >= y
    BY <1>2, <1>3, <1>4
  <1> QED
    BY <1>5 DEF Max

LEMMA HighestIsInteger ==
  ASSUME NEW S, IsFiniteSet(S), \A x \in S : x \in Int
  PROVE  Highest(S) \in Int /\ \A x \in S : Highest(S) >= x
  <1>1. CASE S = {}
    BY <1>1 DEF Highest
  <1>2. CASE S # {}
    <2>1. Max(S) \in S /\ \A x \in S : Max(S) >= x
      BY <1>2, MaxIsGreatest
    <2> QED
      BY <1>2, <2>1 DEF Highest
  <1> QED
    BY <1>1, <1>2

\* Induction over the subsets of a finite set, the predicate being a family.
LEMMA GrowSubset ==
  ASSUME NEW S, IsFiniteSet(S), NEW good, {} \in good,
         \A T \in SUBSET S : \A x \in T : T \ {x} \in good => T \in good
  PROVE  S \in good
  <1> DEFINE bad == {T \in SUBSET S : T \notin good}
  <1> SUFFICES ASSUME bad # {} PROVE FALSE
    OBVIOUS
  <1>1. bad \in SUBSET SUBSET S
    OBVIOUS
  <1>2. PICK T \in bad : \A U \in bad : U \subseteq T => U = T
    <2> HIDE DEF bad
    <2> QED
      BY <1>1, LeastSubset
  <1>3. PICK x : x \in T
    BY <1>2
  <1>4. T \ {x} \notin bad /\ T \ {x} \in SUBSET S
    BY <1>2, <1>3
  <1> QED
    BY <1>2, <1>3, <1>4

SumOn(term, T) == SumFunction([x \in T |-> term[x]])

LEMMA SumOnSubset ==
  ASSUME NEW S, IsFiniteSet(S), NEW term, NEW total, AddsUp(S, term, total), NEW T \in SUBSET S
  PROVE  SumOn(term, T) = total[T]
  <1> DEFINE part == [x \in T |-> term[x]]
  <1>1. IsFiniteSet(T) /\ DOMAIN part = T
    BY FS_Subset
  <1>2. AddsUp(T, part, total)
    <2>1. \A U \in SUBSET T : U # {} => part[Pick(U)] = term[Pick(U)]
      BY PickIn
    <2> HIDE DEF part
    <2> QED
      BY <2>1 DEF AddsUp
  <1> HIDE DEF part
  <1>3. PICK other : AddsUp(T, part, other) /\ SumFunction(part) = other[T]
    BY <1>1, SumAddsUp
  <1>4. other[T] = total[T]
    BY <1>1, <1>2, <1>3, TotalsAgree
  <1> QED
    BY <1>3, <1>4 DEF SumOn, part

\* A sum of integers is an integer, and any of its terms can be taken out.
LEMMA SumOfIntegers ==
  ASSUME NEW S, IsFiniteSet(S), NEW term, \A x \in S : term[x] \in Int
  PROVE  /\ SumOn(term, S) \in Int
         /\ SumOn(term, {}) = 0
         /\ \A x \in S : SumOn(term, S) = term[x] + SumOn(term, S \ {x})
  <1>1. PICK total : AddsUp(S, term, total)
    BY TotalExists
  <1>2. \A T \in SUBSET S : SumOn(term, T) = total[T]
    BY <1>1, SumOnSubset
  <1> DEFINE good == {T \in SUBSET S : /\ total[T] \in Int
                                       /\ \A x \in T : total[T] = term[x] + total[T \ {x}]}
  <1>3. total[{}] = 0 /\ {} \in good
    <2>1. {} \in SUBSET S /\ total[{}] = 0
      BY <1>1 DEF AddsUp
    <2> QED
      BY <2>1
  <1> DEFINE bad == {T \in SUBSET S : T \notin good}
  <1>4. bad = {}
    <2> SUFFICES ASSUME bad # {} PROVE FALSE
      OBVIOUS
    <2>1. bad \in SUBSET SUBSET S
      OBVIOUS
    <2>2. PICK T \in bad : \A U \in bad : U \subseteq T => U = T
      <3> HIDE DEF bad
      <3> QED
        BY <2>1, LeastSubset
    <2>3. T # {} /\ T \in SUBSET S
      BY <1>3, <2>2
    <2> DEFINE p == Pick(T)
    <2>4. p \in T /\ total[T] = term[p] + total[T \ {p}]
      BY <1>1, <2>3, PickIn DEF AddsUp
    <2>5. \A U \in SUBSET T : U # T => U \in good
      BY <2>2
    <2>6. T \ {p} \in good /\ term[p] \in Int
      BY <2>3, <2>4, <2>5
    <2>7. total[T] \in Int
      BY <2>4, <2>6
    <2>8. ASSUME NEW x \in T, x # p PROVE total[T] = term[x] + total[T \ {x}]
      <3>1. T \ {x} \in good /\ p \in T \ {x} /\ x \in T \ {p} /\ term[x] \in Int
        BY <2>3, <2>4, <2>5, <2>8
      <3>2. total[T \ {x}] = term[p] + total[(T \ {x}) \ {p}]
        BY <3>1
      <3>3. total[T \ {p}] = term[x] + total[(T \ {p}) \ {x}]
        BY <2>6, <3>1
      <3> DEFINE rest == (T \ {x}) \ {p}
      <3>4. (T \ {p}) \ {x} = rest /\ rest \in good
        BY <2>3, <2>4, <2>5
      <3>5. total[rest] \in Int
        BY <3>4
      <3>6. total[T \ {p}] = term[x] + total[rest] /\ total[T \ {x}] = term[p] + total[rest]
        BY <3>2, <3>3, <3>4
      <3>7. total[T] = term[p] + (term[x] + total[rest])
        BY <2>4, <3>6
      <3>8. term[p] \in Int /\ term[x] \in Int
        BY <2>6, <3>1
      <3> HIDE DEF good, p, rest
      <3> QED
        BY <3>5, <3>6, <3>7, <3>8
    <2> QED
      BY <2>2, <2>3, <2>4, <2>7, <2>8
  <1>5. S \in good
    BY <1>4
  <1> QED
    BY <1>2, <1>3, <1>5

\* Terms that are zero may be left out.
LEMMA SumOfSupport ==
  ASSUME NEW S, IsFiniteSet(S), NEW term, \A x \in S : term[x] \in Int,
         NEW T \in SUBSET S, \A x \in S \ T : term[x] = 0
  PROVE  SumOn(term, S) = SumOn(term, T)
  <1> DEFINE good == {U \in SUBSET (S \ T) : SumOn(term, T \cup U) = SumOn(term, T)}
  <1>1. {} \in good
    <2>1. T \cup {} = T
      OBVIOUS
    <2> QED
      BY <2>1
  <1>2. ASSUME NEW U \in SUBSET (S \ T), NEW x \in U, U \ {x} \in good PROVE U \in good
    <2> DEFINE V == T \cup U
    <2>1. V \in SUBSET S /\ x \in V /\ V \ {x} = T \cup (U \ {x}) /\ term[x] = 0
      BY <1>2
    <2>2. IsFiniteSet(V) /\ \A y \in V : term[y] \in Int
      BY <2>1, FS_Subset
    <2>3. IsFiniteSet(V \ {x}) /\ \A y \in V \ {x} : term[y] \in Int
      BY <2>2, FS_Subset
    <2>4. SumOn(term, V) = term[x] + SumOn(term, V \ {x}) /\ SumOn(term, V \ {x}) \in Int
      <3> HIDE DEF V
      <3> QED
        BY <2>1, <2>2, <2>3, SumOfIntegers
    <2>5. SumOn(term, V) = SumOn(term, V \ {x})
      <3> HIDE DEF V
      <3> QED
        BY <2>1, <2>4
    <2> QED
      BY <1>2, <2>1, <2>5
  <1>3. IsFiniteSet(S \ T)
    BY FS_Subset
  <1>4. S \ T \in good
    <2> HIDE DEF good
    <2> QED
      BY <1>1, <1>2, <1>3, GrowSubset
  <1>5. T \cup (S \ T) = S
    OBVIOUS
  <1> QED
    BY <1>4, <1>5

LEMMA SumOfBounded ==
  ASSUME NEW S, IsFiniteSet(S), NEW term, NEW m \in Nat, \A x \in S : term[x] \in 0..m
  PROVE  SumOn(term, S) \in Nat /\ SumOn(term, S) <= Cardinality(S) * m
  <1> DEFINE good == {T \in SUBSET S : SumOn(term, T) \in Nat /\ SumOn(term, T) <= Cardinality(T) * m}
  <1>1. {} \in good
    <2>1. SumOn(term, {}) = 0 /\ Cardinality({}) = 0
      BY SumOfIntegers, FS_EmptySet
    <2> QED
      BY <2>1
  <1>2. ASSUME NEW T \in SUBSET S, NEW x \in T, T \ {x} \in good PROVE T \in good
    <2>1. IsFiniteSet(T) /\ \A y \in T : term[y] \in Int
      BY FS_Subset
    <2>2. SumOn(term, T) = term[x] + SumOn(term, T \ {x})
      BY <2>1, SumOfIntegers
    <2>3. Cardinality(T \ {x}) = Cardinality(T) - 1 /\ Cardinality(T) \in Nat
      BY <2>1, FS_RemoveElement, FS_CardinalityType
    <2>4. (Cardinality(T) - 1) * m = Cardinality(T) * m - m /\ Cardinality(T) * m \in Int
      BY <2>3
    <2>5. /\ SumOn(term, T \ {x}) \in Nat
          /\ SumOn(term, T \ {x}) <= (Cardinality(T) - 1) * m
      BY <1>2, <2>3
    <2>6. term[x] \in Nat /\ term[x] <= m
      OBVIOUS
    <2>7. SumOn(term, T) \in Nat /\ SumOn(term, T) <= Cardinality(T) * m
      BY <2>2, <2>4, <2>5, <2>6
    <2> QED
      BY <2>7
  <1>3. S \in good
    <2> HIDE DEF good
    <2> QED
      BY <1>1, <1>2, GrowSubset
  <1> QED
    BY <1>3

\* A sum of bits counts the ones.
LEMMA SumOfBits ==
  ASSUME NEW S, IsFiniteSet(S), NEW term, \A x \in S : term[x] \in 0..1
  PROVE  SumOn(term, S) = Cardinality({x \in S : term[x] = 1})
  <1> DEFINE ones(T) == {x \in T : term[x] = 1}
             good == {T \in SUBSET S : SumOn(term, T) = Cardinality(ones(T))}
  <1>1. {} \in good
    <2>1. SumOn(term, {}) = 0 /\ Cardinality({}) = 0 /\ ones({}) = {}
      BY SumOfIntegers, FS_EmptySet
    <2> QED
      BY <2>1
  <1>2. ASSUME NEW T \in SUBSET S, NEW x \in T, T \ {x} \in good PROVE T \in good
    <2>1. IsFiniteSet(T) /\ \A y \in T : term[y] \in Int
      BY FS_Subset
    <2>2. SumOn(term, T) = term[x] + Cardinality(ones(T \ {x}))
      BY <1>2, <2>1, SumOfIntegers
    <2>3. IsFiniteSet(ones(T)) /\ Cardinality(ones(T)) \in Nat
      BY <2>1, FS_Subset, FS_CardinalityType
    <2>4. CASE term[x] = 1
      <3>1. ones(T \ {x}) = ones(T) \ {x} /\ x \in ones(T)
        BY <2>4
      <3>2. Cardinality(ones(T) \ {x}) = Cardinality(ones(T)) - 1
        BY <2>3, <3>1, FS_RemoveElement
      <3>3. SumOn(term, T) = Cardinality(ones(T))
        <4>1. SumOn(term, T) = 1 + Cardinality(ones(T) \ {x})
          BY <2>2, <2>4, <3>1
        <4> HIDE DEF ones
        <4> QED
          BY <2>3, <3>2, <4>1
      <3> QED
        BY <3>3
    <2>5. CASE term[x] = 0
      <3>1. ones(T \ {x}) = ones(T)
        BY <2>5
      <3>2. SumOn(term, T) = Cardinality(ones(T))
        <4> HIDE DEF ones
        <4> QED
          BY <2>2, <2>3, <2>5, <3>1
      <3> QED
        BY <3>2
    <2> QED
      BY <2>4, <2>5
  <1>3. S \in good
    <2> HIDE DEF good
    <2> QED
      BY <1>1, <1>2, GrowSubset
  <1> QED
    BY <1>3

\* Pairs are counted row by row.
LEMMA SumOfRows ==
  ASSUME NEW P, NEW E, IsFiniteSet(P), IsFiniteSet(E), NEW R \in SUBSET (P \X E)
  PROVE  Cardinality(R) = SumOn([p \in P |-> Cardinality({e \in E : <<p, e>> \in R})], P)
  <1> DEFINE row(p) == {e \in E : <<p, e>> \in R}
             above(T) == {r \in R : r[1] \in T}
             term == [p \in P |-> Cardinality(row(p))]
             good == {T \in SUBSET P : Cardinality(above(T)) = SumOn(term, T)}
  <1>0. \A p \in P : IsFiniteSet(row(p)) /\ term[p] = Cardinality(row(p)) /\ term[p] \in Nat
    BY FS_Subset, FS_CardinalityType
  <1>1. {} \in good
    <2>1. SumOn(term, {}) = 0 /\ Cardinality({}) = 0 /\ above({}) = {}
      BY <1>0, SumOfIntegers, FS_EmptySet
    <2> QED
      BY <2>1
  <1>2. ASSUME NEW T \in SUBSET P, NEW x \in T, T \ {x} \in good PROVE T \in good
    <2>1. IsFiniteSet(T) /\ \A y \in T : term[y] \in Int
      BY <1>0, FS_Subset
    <2>2. SumOn(term, T) = term[x] + Cardinality(above(T \ {x}))
      <3>1. SumOn(term, T) = term[x] + SumOn(term, T \ {x})
        BY <2>1, SumOfIntegers
      <3> QED
        BY <1>2, <3>1
    <2> DEFINE here == {r \in R : r[1] = x}
               pair == [e \in row(x) |-> <<x, e>>]
    <2>3. pair \in Bijection(row(x), here)
      <3>1. pair \in [row(x) -> here]
        OBVIOUS
      <3>2. \A r \in here : r[2] \in row(x) /\ pair[r[2]] = r
        OBVIOUS
      <3>3. \A e, d \in row(x) : pair[e] = pair[d] => e = d
        OBVIOUS
      <3> HIDE DEF pair, here, row
      <3> QED
        BY <3>1, <3>2, <3>3 DEF Bijection, Injection, Surjection, IsInjective
    <2>4. IsFiniteSet(here) /\ Cardinality(here) = term[x]
      <3>1. ExistsBijection(row(x), here)
        BY <2>3 DEF ExistsBijection
      <3>2. x \in P
        OBVIOUS
      <3> HIDE DEF row, here, term
      <3> QED
        BY <1>0, <3>1, <3>2, FS_Bijection
    <2>5. IsFiniteSet(above(T \ {x}))
      <3>1. IsFiniteSet(P \X E) /\ above(T \ {x}) \in SUBSET (P \X E)
        BY FS_Product
      <3> HIDE DEF above
      <3> QED
        BY <3>1, FS_Subset
    <2>6. above(T) = here \cup above(T \ {x}) /\ here \cap above(T \ {x}) = {}
      OBVIOUS
    <2>7. Cardinality(above(T)) = Cardinality(here) + Cardinality(above(T \ {x}))
      <3>1. Cardinality(here) \in Nat /\ Cardinality(above(T \ {x})) \in Nat
        <4> HIDE DEF here, above
        <4> QED
          BY <2>4, <2>5, FS_CardinalityType
      <3> HIDE DEF here, above, term
      <3>2. Cardinality(above(T)) = Cardinality(here) + Cardinality(above(T \ {x}))
                                   - Cardinality(here \cap above(T \ {x}))
        BY <2>4, <2>5, <2>6, FS_Union
      <3>3. Cardinality(here \cap above(T \ {x})) = 0
        BY <2>6, FS_EmptySet
      <3> QED
        BY <3>1, <3>2, <3>3
    <2> HIDE DEF term, above, here
    <2> QED
      BY <2>2, <2>4, <2>7
  <1>3. P \in good
    <2> HIDE DEF good
    <2> QED
      BY <1>1, <1>2, GrowSubset
  <1>4. above(P) = R
    OBVIOUS
  <1> QED
    BY <1>3, <1>4

----------------------------------------------------------------------------
\* The order of work.

LEMMA WindowIsRecord ==
  ASSUME NEW f PROVE Window(f) = [start |-> Window(f).start, end |-> Window(f).end]
  BY DEF Window, WorkWindow

\* Precedes is a strict total order on the flights.
LEMMA WorkIsOrdered ==
  ASSUME ValidInput
  PROVE  /\ \A f \in Flights : ~Precedes(f, f)
         /\ \A f, g, h \in Flights : Precedes(f, g) /\ Precedes(g, h) => Precedes(f, h)
         /\ \A f, g \in Flights : f # g => Precedes(f, g) \/ Precedes(g, f)
  <1>1. \A f \in Flights : /\ Window(f).start \in Int /\ Window(f).end \in Int /\ f \in Int
                           /\ Window(f) = [start |-> Window(f).start, end |-> Window(f).end]
    BY FlightsAreDerivable, DayTypes, WindowIsRecord
  <1>2. \A f, g \in Flights :
          Precedes(f, g) <=> \/ Window(f).start < Window(g).start
                             \/ Window(f).start = Window(g).start /\ Window(f).end < Window(g).end
                             \/ /\ Window(f).start = Window(g).start
                                /\ Window(f).end = Window(g).end /\ f < g
    BY <1>1 DEF Precedes
  <1> QED
    BY <1>1, <1>2

\* Each rank is the rank of one flight: an itinerary holds the flights it orders.
LEMMA ItineraryHasRanks ==
  ASSUME ValidInput, NEW S \in SUBSET Flights, NEW i \in 1..Cardinality(S)
  PROVE  \E f \in S : Cardinality({g \in S : Precedes(g, f)}) = i - 1
  <1> DEFINE before(f) == {g \in S : Precedes(g, f)}
             n == Cardinality(S)
             rank == [f \in S |-> Cardinality(before(f))]
  <1>1. IsFiniteSet(S) /\ n \in Nat
    BY FiniteDay, FS_Subset, FS_CardinalityType
  <1>2. ASSUME NEW f \in S
        PROVE  /\ IsFiniteSet(before(f)) /\ rank[f] = Cardinality(before(f))
               /\ rank[f] \in 0..(n - 1)
    <2>1. before(f) \in SUBSET (S \ {f})
      BY WorkIsOrdered
    <2>2. IsFiniteSet(S \ {f}) /\ Cardinality(S \ {f}) = n - 1
      BY <1>1, FS_RemoveElement
    <2>3. /\ IsFiniteSet(before(f)) /\ Cardinality(before(f)) <= n - 1
          /\ Cardinality(before(f)) \in Nat
      BY <2>1, <2>2, FS_Subset, FS_CardinalityType
    <2> QED
      BY <1>1, <2>3
  <1>3. ASSUME NEW f \in S, NEW g \in S, Precedes(f, g) PROVE rank[f] # rank[g]
    <2>1. before(f) \in SUBSET before(g) /\ f \in before(g) /\ f \notin before(f)
      BY <1>3, WorkIsOrdered
    <2>2. before(f) # before(g)
      BY <2>1
    <2> QED
      BY <1>2, <2>1, <2>2, FS_Subset
  <1>4. rank \in Injection(S, 0..(n - 1))
    <2>1. rank \in [S -> 0..(n - 1)]
      BY <1>2
    <2>2. \A f, g \in S : rank[f] = rank[g] => f = g
      <3> HIDE DEF rank
      <3> QED
        BY <1>3, WorkIsOrdered
    <2> HIDE DEF rank, n
    <2> QED
      BY <2>1, <2>2 DEF Injection, IsInjective
  <1>5. IsFiniteSet(0..(n - 1)) /\ Cardinality(0..(n - 1)) = n
    <2>1. \A a, b \in Int : /\ IsFiniteSet(a..b)
                          /\ Cardinality(a..b) = IF a > b THEN 0 ELSE b - a + 1
      BY FS_Interval
    <2>2. 0 \in Int /\ n - 1 \in Int
      BY <1>1
    <2> HIDE DEF n
    <2> QED
      BY <1>1, <2>1, <2>2
  <1>6. rank \in Surjection(S, 0..(n - 1))
    <2> HIDE DEF rank
    <2> QED
      BY <1>4, <1>5, FS_Injection
  <1>7. \E f \in S : rank[f] = i - 1
    <2> HIDE DEF rank
    <2> QED
      BY <1>1, <1>6 DEF Surjection
  <1>8. \E f \in S : Cardinality(before(f)) = i - 1
    BY <1>7
  <1> QED
    BY <1>8

LEMMA ItineraryIsWorked ==
  ASSUME ValidInput, NEW S \in SUBSET Flights, NEW i \in 1..Cardinality(S)
  PROVE  InOrder(S)[i] \in S
  BY ItineraryHasRanks DEF InOrder

----------------------------------------------------------------------------
\* Days that pass validation have schedules.

\* An employee has one shift around a window, since two would overlap there.
LEMMA ShiftIsOne ==
  ASSUME ValidInput, NEW e \in Employees, NEW f \in Flights, NEW withLeads,
         EligibleShifts(e, Window(f), withLeads) # {}
  PROVE  ShiftIsUnique(e, f, withLeads)
  <1>1. PICK s \in Shifts : s \in EligibleShifts(e, Window(f), withLeads)
    BY DEF EligibleShifts, ShiftsOf
  <1>2. \A r \in EligibleShifts(e, Window(f), withLeads) : r = s
    <2> SUFFICES ASSUME NEW r \in EligibleShifts(e, Window(f), withLeads), r # s
                 PROVE  FALSE
      OBVIOUS
    <2>1. /\ r \in Shifts
          /\ day.shifts[r].employee = day.shifts[s].employee
          /\ ShiftContains(r, Window(f)) /\ ShiftContains(s, Window(f))
      BY <1>1 DEF EligibleShifts, ShiftsOf, Folded
    <2>2. ~Overlaps(day.shifts[r], day.shifts[s])
      BY <1>1, <2>1, ShiftsApart
    <2>3. /\ day.shifts[r].start \in Int /\ day.shifts[r].end \in Int
          /\ day.shifts[s].start \in Int /\ day.shifts[s].end \in Int
      BY <1>1, <2>1, DayTypes
    <2>4. /\ Window(f).start \in Int /\ Window(f).end \in Int
          /\ Window(f).start < Window(f).end
      BY FlightsAreDerivable
    <2> QED
      BY <2>1, <2>2, <2>3, <2>4 DEF Overlaps, ShiftContains
  <1>3. EligibleShifts(e, Window(f), withLeads) = {s}
    BY <1>1, <1>2
  <1> QED
    BY <1>3, FS_Singleton DEF ShiftIsUnique

LEMMA ShiftsOfPossible ==
  ASSUME ValidInput, candidates = LegalCandidates(FALSE),
         NEW e \in Employees, NEW f \in Possible(e)
  PROVE  f \in Flights /\ EligibleShifts(e, Window(f), FALSE) # {}
  <1>1. f \in Flights /\ (<<e, f>> \in candidates \/ <<e, f>> \in Fixed)
    BY DEF Possible, Fixed
  <1>2. CASE <<e, f>> \in candidates
    BY <1>1, <1>2, CandidatesAreLegal
  <1>3. CASE <<e, f>> \in Fixed
    BY <1>1, <1>3, FixedIsLegal
  <1> QED
    BY <1>1, <1>2, <1>3

\* In the ordinary pass every flight at hand lies in one shift.
LEMMA OrdinaryShiftsAreUnique ==
  ASSUME ValidInput, candidates = LegalCandidates(FALSE) PROVE ShiftsAreUnique
  <1> SUFFICES ASSUME NEW e \in Participants, NEW f \in Possible(e)
               PROVE  ShiftIsUnique(e, f, FALSE)
    BY DEF ShiftsAreUnique
  <1>1. e \in Employees
    BY DEF Participants, Represented
  <1> QED
    BY <1>1, ShiftsOfPossible, ShiftIsOne

LEMMA RepresentedWork ==
  ASSUME ValidInput, NEW e \in Represented(FALSE) PROVE ShiftMinutes(e, FALSE) > 0
  <1> DEFINE worked == AllowedShifts(e, FALSE)
             term == [s \in worked |-> ShiftLength(s)]
  <1>1. worked # {} /\ worked \subseteq Shifts
    BY DEF Represented, ShiftsOf, AllowedShifts
  <1>2. IsFiniteSet(worked)
    BY <1>1, FiniteDay, FS_Subset
  <1>3. \A s \in worked : term[s] \in Nat \ {0}
    <2>1. \A s \in Shifts : ShiftLength(s) \in Nat \ {0}
      BY ShiftsApart, DayTypes DEF ShiftLength
    <2> QED
      BY <1>1, <2>1
  <1>4. ShiftMinutes(e, FALSE) = SumFunction(term) /\ DOMAIN term = worked
    BY DEF ShiftMinutes
  <1> QED
    <2> HIDE DEF worked, term
    <2>1. PICK total : AddsUp(worked, term, total) /\ SumFunction(term) = total[worked]
      BY <1>2, <1>4, SumAddsUp
    <2> QED
      BY <1>1, <1>2, <1>3, <1>4, <2>1, PositiveTotal

\* Fixed work alone keeps to the maximum of every flight.
LEMMA FixedStaffFits ==
  ASSUME ValidInput, NEW f \in Flights PROVE Staff(Fixed, f) <= Maximum(f)
  <1> DEFINE records == {a \in Records : FixedFlight(a) = f}
             crew == Crew(Fixed, f)
             resolved == {a \in records : FixedEmployee(a) \in crew}
             name == [a \in resolved |-> FixedEmployee(a)]
  <1>1. /\ IsFiniteSet(records) /\ Cardinality(records) \in Nat
        /\ IsFiniteSet(resolved) /\ Cardinality(resolved) \in Nat
        /\ Cardinality(resolved) <= Cardinality(records)
    <2>1. records \subseteq DOMAIN day.fixed /\ resolved \subseteq records
      BY DEF Records
    <2> HIDE DEF records, resolved
    <2>2. IsFiniteSet(records)
      BY <2>1, FiniteDay, FS_Subset
    <2> QED
      BY <2>1, <2>2, FS_Subset, FS_CardinalityType
  <1>2. name \in Surjection(resolved, crew)
    <2>1. ASSUME NEW e \in crew PROVE \E a \in resolved : name[a] = e
      <3>1. <<e, f>> \in Fixed
        BY DEF Crew
      <3>2. PICK a \in DOMAIN day.fixed : FixedEmployee(a) = e /\ FixedFlight(a) = f
        BY <3>1, FixedHasRecord
      <3>3. a \in resolved
        BY <3>2, FixedRecordsResolved
      <3> QED
        BY <3>2, <3>3
    <2>2. name \in [resolved -> crew]
      OBVIOUS
    <2> QED
      BY <2>1, <2>2 DEF Surjection
  <1>3. IsFiniteSet(crew) /\ Cardinality(crew) <= Cardinality(resolved)
    <2> HIDE DEF records, crew, name, resolved
    <2> QED
      BY <1>1, <1>2, FS_Surjection
  <1>4. Cardinality(crew) \in Nat
    <2> HIDE DEF crew
    <2> QED
      BY <1>3, FS_CardinalityType
  <1>5. Maximum(f) \in Int
    BY DEF ValidInput, Configurations, Maximum, MaximumStaff
  <1>6. Cardinality(records) <= Maximum(f)
    <2>1. ValidStaffing /\ FixedIssues = {}
      BY ValidSettings DEF ValidInput, Issues, DayIssues
    <2>2. ~Overstaffed
      BY <2>1, NoIssue DEF FixedIssues
    <2>3. f \in ValidFlights
      BY FlightsAreDerivable DEF ValidFlights
    <2>4. ~(Cardinality(records) > Maximum(f))
      BY <2>2, <2>3 DEF Overstaffed
    <2> QED
      BY <1>1, <1>5, <2>4
  <1> QED
    BY <1>1, <1>3, <1>4, <1>5, <1>6 DEF Staff

(* A day that passes validation has a schedule, the one of its fixed work, and
   building its model raises only over a fixed assignment whose employee is
   spelled otherwise than in the employee record. *)
THEOREM SchedulesExist == Spec => []ValidDaysHaveSchedules
  <1>1. BuildOK => ValidDaysHaveSchedules
    <2> SUFFICES ASSUME BuildOK PROVE ValidDaysHaveSchedules
      OBVIOUS
    <2>1. ASSUME phase = "RAISED" PROVE \E a \in DOMAIN day.fixed : ~SpelledAlike(a)
      <3>1. ValidInput /\ candidates = LegalCandidates(FALSE) /\ BuildRaises
        BY <2>1 DEF BuildOK, ValidInput
      <3>2. ShiftsAreUnique
        BY <3>1, OrdinaryShiftsAreUnique
      <3>3. MinutesArePositive
        BY <3>1, RepresentedWork DEF MinutesArePositive, Participants
      <3>4. ~LookupsSucceed
        BY <3>1, <3>2, <3>3 DEF BuildRaises
      <3> QED
        BY <3>4 DEF LookupsSucceed, SpelledAlike, Folded
    <2>2. ASSUME phase = "MODEL" PROVE Solves({})
      <3>1. ValidInput
        BY <2>2 DEF BuildOK, ValidInput
      <3>2. StaffWithinMaximum({})
        <4>1. {} \cup Fixed = Fixed
          OBVIOUS
        <4> QED
          BY <3>1, <4>1, FixedStaffFits DEF StaffWithinMaximum
      <3> QED
        BY <3>2 DEF Solves, OverlapsRespected
    <2> QED
      BY <2>1, <2>2 DEF ValidDaysHaveSchedules
  <1> QED
    BY <1>1, BuildInvariant, PTL
----------------------------------------------------------------------------
\* The linear encodings leave each indicator the value it stands for.

LEMMA BitValues ==
  /\ \A b \in BOOLEAN : Bit(b) \in 0..1 /\ (Bit(b) = 1 <=> b) /\ (Bit(b) = 0 <=> ~b)
  /\ \A i \in 0..1 : i = 0 \/ i = 1
  /\ \A x : The({x}) = x
  BY DEF Bit, The

LEMMA ThresholdExact ==
  ASSUME NEW v \in Int, NEW t \in Int PROVE ThresholdValues(v, t) = {Bit(v >= t)}
  BY DEF ThresholdValues, Bit

LEMMA EqualExact ==
  ASSUME NEW v \in Int, NEW t \in Int PROVE EqualValues(v, t) = {Bit(v = t)}
  BY DEF EqualValues, Bit

LEMMA AnyExact ==
  ASSUME NEW total \in Nat PROVE AnyValues(total) = {Bit(total # 0)}
  BY DEF AnyValues, Bit

LEMMA AndExact ==
  ASSUME NEW a \in BOOLEAN, NEW b \in BOOLEAN
  PROVE  AndValues(Bit(a), Bit(b)) = {Bit(a /\ b)}
  BY DEF AndValues, Bit

LEMMA BelowMinimumExact ==
  ASSUME NEW met \in BOOLEAN, NEW covered \in BOOLEAN
  PROVE  BelowMinimumValues(Bit(met), Bit(covered)) = {Bit(~met /\ covered)}
  BY DEF BelowMinimumValues, Bit

LEMMA GapExact ==
  ASSUME NEW a \in BOOLEAN, NEW b \in BOOLEAN, NEW between \in Nat
  PROVE  GapValues(Bit(a), Bit(b), between) = {Bit(a /\ b /\ between = 0)}
  <1>1. \A i \in 0..1 : i = 0 \/ i = 1
    OBVIOUS
  <1>2. CASE a /\ b /\ between = 0
    BY <1>1, <1>2 DEF GapValues, Bit
  <1>3. CASE a /\ b /\ between # 0
    BY <1>1, <1>3 DEF GapValues, Bit
  <1>4. CASE ~a \/ ~b
    BY <1>1, <1>4 DEF GapValues, Bit
  <1> QED
    BY <1>2, <1>3, <1>4

----------------------------------------------------------------------------
\* Staffing.

LEMMA StaffingTypes ==
  ASSUME ValidInput, NEW f \in Flights
  PROVE  Minimum \in Int /\ Preferred(f) \in Int /\ Maximum(f) = Preferred(f)
  BY DEF ValidInput, Configurations, Minimum, Preferred, Maximum, MaximumStaff

LEMMA CoverageExact ==
  ASSUME ValidInput, NEW c \in SUBSET (Employees \X Flights), NEW f \in Flights, NEW q
  PROVE  CoveredValues(c, f, q) = {Bit(HasQualification(c, f, q))}
  <1> DEFINE S == Qualified(Crew(c, f), q)
  <1>1. IsFiniteSet(S) /\ Cardinality(S) \in Nat /\ (Cardinality(S) = 0 <=> S = {})
    <2>1. IsFiniteSet(Crew(c, f)) /\ S \in SUBSET Crew(c, f)
      BY CountsAgree DEF Qualified
    <2> HIDE DEF S
    <2> QED
      BY <2>1, FS_Subset, FS_CardinalityType, FS_EmptySet
  <1>2. S # {} <=> HasQualification(c, f, q)
    <2>1. ASSUME NEW e \in S PROVE HasQualification(c, f, q)
      <3>1. <<e, f>> \in c /\ q \in day.employees[e].quals
        BY DEF Qualified, Crew
      <3> QED
        BY <3>1 DEF HasQualification
    <2>2. ASSUME NEW p \in c, p[2] = f, q \in day.employees[p[1]].quals PROVE p[1] \in S
      <3>1. p[1] \in Employees /\ p = <<p[1], f>>
        BY <2>2
      <3> QED
        BY <2>2, <3>1 DEF Qualified, Crew
    <2> HIDE DEF S
    <2> QED
      BY <2>1, <2>2 DEF HasQualification
  <1>3. CoveredValues(c, f, q) = {Bit(Cardinality(S) # 0)}
    BY <1>1, AnyExact DEF CoveredValues
  <1> HIDE DEF S
  <1> QED
    BY <1>1, <1>2, <1>3 DEF Bit

LEMMA StaffingExact ==
  ASSUME ValidInput, NEW c \in SUBSET (Employees \X Flights),
         \A f \in Flights : Staff(c, f) <= Maximum(f)
  PROVE  StaffingAgrees(c)
  <1> SUFFICES ASSUME NEW f \in Flights
               PROVE  /\ MinimumMetValues(c, f) = {Bit(MeetsMinimum(c, f))}
                      /\ PreferredMetValues(c, f) = {Bit(StaffCount(c, f) >= Preferred(f))}
                      /\ PreferredShortfall(c, f) = Highest({0, Preferred(f) - StaffCount(c, f)})
                      /\ EqualValues(Staff(c, f), 3) = {Bit(StaffCount(c, f) = 3)}
                      /\ \A q \in Qualifications :
                            LET met == MeetsMinimum(c, f)
                                covered == HasQualification(c, f, q)
                            IN  /\ CoveredValues(c, f, q) = {Bit(covered)}
                                /\ CoverageValues(c, f, q) = {Bit(met /\ covered)}
                                /\ PartialValues(c, f, q) = {Bit(~met /\ covered)}
    BY DEF StaffingAgrees
  <1>1. /\ StaffCount(c, f) = Staff(c, f) /\ Staff(c, f) \in Nat
        /\ Minimum \in Int /\ Preferred(f) \in Int /\ Staff(c, f) <= Preferred(f)
    BY CountsAgree, StaffingTypes
  <1>2. MinimumMetValues(c, f) = {Bit(MeetsMinimum(c, f))}
    BY <1>1, ThresholdExact DEF MinimumMetValues, MeetsMinimum
  <1>3. PreferredMetValues(c, f) = {Bit(StaffCount(c, f) >= Preferred(f))}
    BY <1>1, ThresholdExact DEF PreferredMetValues
  <1>4. PreferredShortfall(c, f) = Highest({0, Preferred(f) - StaffCount(c, f)})
    <2> DEFINE spare == Preferred(f) - Staff(c, f)
    <2>1. spare \in Nat
      BY <1>1
    <2>2. Highest({0, spare}) = spare
      <3> HIDE DEF spare
      <3>1. {0, spare} # {} /\ \E x \in {0, spare} : \A y \in {0, spare} : x >= y
        BY <2>1
      <3>2. Max({0, spare}) \in {0, spare} /\ \A y \in {0, spare} : Max({0, spare}) >= y
        BY <3>1 DEF Max
      <3> QED
        BY <2>1, <3>2 DEF Highest
    <2> QED
      BY <1>1, <2>2 DEF PreferredShortfall
  <1>5. EqualValues(Staff(c, f), 3) = {Bit(StaffCount(c, f) = 3)}
    BY <1>1, EqualExact
  <1>6. ASSUME NEW q \in Qualifications
        PROVE  /\ CoveredValues(c, f, q) = {Bit(HasQualification(c, f, q))}
               /\ CoverageValues(c, f, q) = {Bit(MeetsMinimum(c, f) /\ HasQualification(c, f, q))}
               /\ PartialValues(c, f, q) = {Bit(~MeetsMinimum(c, f) /\ HasQualification(c, f, q))}
    <2>1. MinimumMet(c, f) = Bit(MeetsMinimum(c, f)) /\ MeetsMinimum(c, f) \in BOOLEAN
      BY <1>1, <1>2 DEF MinimumMet, The, MeetsMinimum
    <2>2. CoveredValues(c, f, q) = {Bit(HasQualification(c, f, q))}
      BY CoverageExact
    <2>3. /\ Covered(c, f, q) = Bit(HasQualification(c, f, q))
          /\ HasQualification(c, f, q) \in BOOLEAN
      BY <2>2 DEF Covered, The, HasQualification
    <2> QED
      BY <2>1, <2>2, <2>3, AndExact, BelowMinimumExact DEF CoverageValues, PartialValues
  <1> QED
    BY <1>2, <1>3, <1>4, <1>5, <1>6
----------------------------------------------------------------------------
\* Workload.

\* Nobody works a flight that the model does not offer.
LEMMA AssignedIsPossible ==
  ASSUME ValidInput, NEW c \in Solutions, NEW e \in Employees
  PROVE  /\ Assigned(c, e) \subseteq Possible(e) /\ Possible(e) \subseteq Flights
         /\ IsFiniteSet(Possible(e)) /\ IsFiniteSet(Assigned(c, e))
  <1>1. c \subseteq candidates \cup Fixed
    BY DEF Solutions
  <1>2. Assigned(c, e) \subseteq Possible(e) /\ Possible(e) \subseteq Flights
    BY <1>1 DEF Assigned, Possible, Fixed
  <1> QED
    BY <1>2, FiniteDay, FS_Subset

LEMMA FactorsAreNatural ==
  ASSUME ValidInput
  PROVE  /\ config.scale \in Nat /\ ExpressUnits \in Nat /\ ThreeUnits \in Nat
         /\ WorkloadBound \in Nat /\ WorkloadBound <= MaxSolverInteger
         /\ PairCount * WorkloadBound <= MaxSolverInteger
  <1>1. /\ config.scale \in Int /\ config.expressFactor \in Int /\ config.threeFactor \in Int
        /\ config.scale > 0
    BY ValidSettings DEF ValidInput, Configurations, PositiveSettings
  <1>2. FactorIssues = {} /\ ValidFactors
    <2>1. ConfigIssues = {}
      BY DEF ValidInput, Issues
    <2>2. FactorIssues = {}
      BY <2>1 DEF ConfigIssues
    <2>3. ~(config.scale > 0 /\ FactorIssues = {} /\ ~ValidFactors)
      BY <2>1, NoIssue DEF ConfigIssues
    <2> QED
      BY <1>1, <2>2, <2>3
  <1>3. config.expressFactor \in 1..100 /\ ~(config.threeFactor < 100)
    BY <1>2, NoIssue DEF FactorIssues
  <1>4. \A h \in Nat : ScaledFactor(h) \in Nat
    <2> TAKE h \in Nat
    <2>1. h * config.scale \in Nat
      BY <1>1
    <2> DEFINE product == h * config.scale
    <2>2. product \div 100 \in Nat
      <3> HIDE DEF product
      <3> QED
        BY <2>1 DEF product
    <2> QED
      BY <2>2 DEF ScaledFactor
  <1>5. ExpressUnits \in Nat /\ ThreeUnits \in Nat
    <2>1. config.expressFactor \in Nat /\ config.threeFactor \in Nat
      BY <1>1, <1>3
    <2> QED
      BY <1>4, <2>1 DEF ExpressUnits, ThreeUnits
  <1>6. ~(WorkloadBound > MaxSolverInteger) /\ ~(PairCount * WorkloadBound > MaxSolverInteger)
    <2>1. WorkloadIssues = {}
      BY DEF ValidInput, Issues, DayIssues
    <2> QED
      BY <1>2, <2>1, NoIssue DEF WorkloadIssues
  <1>7. MaximumAssignmentUnits \in Nat
    <2>1. Larger(config.scale, ExpressUnits) \in Nat /\ Larger(config.scale, ThreeUnits) \in Nat
      BY <1>1, <1>5 DEF Larger
    <2> QED
      BY <2>1 DEF MaximumAssignmentUnits
  <1>8. WorkloadBound \in Nat
    BY <1>7, DayTypes DEF WorkloadBound
  <1>9. PairCount \in Int
    <2> DEFINE n == Len(day.employees)
               twice == n * (n - 1)
    <2>1. n \in Nat
      BY DayTypes
    <2>2. twice \in Int
      BY <2>1
    <2>3. twice \div 2 \in Int
      <3> HIDE DEF twice
      <3> QED
        BY <2>2
    <2> QED
      BY <2>3 DEF PairCount
  <1>10. PairCount * WorkloadBound \in Int
    BY <1>8, <1>9
  <1> QED
    BY <1>1, <1>5, <1>6, <1>8, <1>10, SolverAssumption

LEMMA ProductsAreBounded ==
  ASSUME NEW a \in Nat, NEW b \in Nat, NEW m \in Nat, NEW n \in Nat, a <= m, b <= n
  PROVE  a * b \in Nat /\ a * b <= m * n
  <1>1. /\ a * b \in Nat /\ a * n \in Nat /\ m * n \in Nat
        /\ a * (n - b) \in Nat /\ (m - a) * n \in Nat
    <2>1. n - b \in Nat /\ m - a \in Nat
      OBVIOUS
    <2> QED
      BY <2>1
  <1>2. a * (n - b) = a * n - a * b /\ (m - a) * n = m * n - a * n
    OBVIOUS
  <1> QED
    BY <1>1, <1>2

LEMMA UnitsOfFlight ==
  ASSUME ValidInput, NEW c, NEW f
  PROVE  AssignmentUnits(c, f) \in 0..MaximumAssignmentUnits /\ MaximumAssignmentUnits \in Nat
  <1> DEFINE kind == IF Express(f) THEN ExpressUnits ELSE config.scale
             size == IF StaffCount(c, f) = 3 THEN ThreeUnits ELSE config.scale
             kindBound == Larger(config.scale, ExpressUnits)
             sizeBound == Larger(config.scale, ThreeUnits)
  <1>1. /\ kind \in Nat /\ size \in Nat /\ kindBound \in Nat /\ sizeBound \in Nat
        /\ kind <= kindBound /\ size <= sizeBound
    BY FactorsAreNatural DEF Larger
  <1>2. AssignmentUnits(c, f) = kind * size /\ MaximumAssignmentUnits = kindBound * sizeBound
    BY DEF AssignmentUnits, MaximumAssignmentUnits
  <1>3. kindBound * sizeBound \in Nat
    BY <1>1
  <1> HIDE DEF kind, size, kindBound, sizeBound
  <1>4. kind * size \in Nat /\ kind * size <= kindBound * sizeBound
    BY <1>1, ProductsAreBounded
  <1> QED
    BY <1>2, <1>3, <1>4

\* What an employee's assignment contributes in the model is what the result
\* counts for it, and nothing when it is not taken.
LEMMA ContributionExact ==
  ASSUME ValidInput, NEW c \in SUBSET (Employees \X Flights), NEW e \in Employees, NEW f \in Flights
  PROVE  Contribution(c, e, f) = IF f \in Assigned(c, e) THEN AssignmentUnits(c, f) ELSE 0
  <1> DEFINE three == StaffCount(c, f) = 3
             assigned == <<e, f>> \in c
  <1>1. StaffCount(c, f) = Staff(c, f) /\ Staff(c, f) \in Nat
    BY CountsAgree
  <1>2. The(EqualValues(Staff(c, f), 3)) = Bit(three) /\ three \in BOOLEAN
    <2>1. EqualValues(Staff(c, f), 3) = {Bit(Staff(c, f) = 3)}
      BY <1>1, EqualExact
    <2> QED
      BY <1>1, <2>1, BitValues
  <1>3. Value(c, e, f) = Bit(assigned) /\ assigned \in BOOLEAN
    BY DEF Value
  <1>4. The(AndValues(Bit(assigned), Bit(three))) = Bit(assigned /\ three)
    BY <1>2, <1>3, AndExact, BitValues
  <1>5. Contribution(c, e, f) =
          BaseUnits(f) * Bit(assigned)
          + (ThreeUnitsOf(f) - BaseUnits(f)) * Bit(assigned /\ three)
    BY <1>2, <1>3, <1>4 DEF Contribution
  <1>6. f \in Assigned(c, e) <=> assigned
    BY DEF Assigned
  <1>7. BaseUnits(f) \in Int /\ ThreeUnitsOf(f) \in Int
    <2>1. config.scale \in Nat /\ ExpressUnits \in Nat /\ ThreeUnits \in Nat
      BY FactorsAreNatural
    <2> QED
      BY <2>1 DEF BaseUnits, ThreeUnitsOf
  <1>8. AssignmentUnits(c, f) = IF three THEN ThreeUnitsOf(f) ELSE BaseUnits(f)
    BY DEF AssignmentUnits, ThreeUnitsOf, BaseUnits
  <1> HIDE DEF three, assigned
  <1>9. CASE ~assigned
    BY <1>5, <1>6, <1>7, <1>9 DEF Bit
  <1>10. CASE assigned /\ three
    BY <1>5, <1>6, <1>7, <1>8, <1>10 DEF Bit
  <1>11. CASE assigned /\ ~three
    BY <1>5, <1>6, <1>7, <1>8, <1>11 DEF Bit
  <1> QED
    BY <1>2, <1>3, <1>9, <1>10, <1>11

LEMMA WorkloadExact ==
  ASSUME ValidInput, NEW c \in Solutions, c \in SUBSET (Employees \X Flights),
         NEW e \in Employees
  PROVE  Workload(c, e) = Units(c, e) /\ Units(c, e) \in 0..WorkloadBound
  <1> DEFINE P == Possible(e)
             A == Assigned(c, e)
             term == [f \in P |-> Contribution(c, e, f)]
             units == [f \in A |-> AssignmentUnits(c, f)]
             m == MaximumAssignmentUnits
  <1>1. A \in SUBSET P /\ P \subseteq Flights /\ IsFiniteSet(P) /\ IsFiniteSet(A)
    BY AssignedIsPossible
  <1>2. m \in Nat /\ \A f \in A : units[f] \in 0..m
    BY UnitsOfFlight
  <1>3. \A f \in A : term[f] = units[f]
    BY <1>1, ContributionExact
  <1>4. \A f \in P \ A : term[f] = 0
    BY <1>1, ContributionExact
  <1>5. \A f \in P : term[f] \in Int
    <2> HIDE DEF term, units, A, P, m
    <2>1. \A f \in A : term[f] \in Int
      BY <1>2, <1>3
    <2>2. \A f \in P \ A : term[f] \in Int
      BY <1>4
    <2> QED
      BY <2>1, <2>2
  <1>6. SumOn(term, P) = SumOn(term, A)
    <2> HIDE DEF term, P, A
    <2> QED
      BY <1>1, <1>4, <1>5, SumOfSupport
  <1>7. SumOn(term, P) = Workload(c, e)
    <2>1. [f \in P |-> term[f]] = [f \in P |-> Contribution(c, e, f)]
      OBVIOUS
    <2> QED
      BY <2>1 DEF SumOn, Workload
  <1>8. SumOn(term, A) = Units(c, e) /\ SumOn(units, A) = Units(c, e)
    <2>1. [f \in A |-> term[f]] = [f \in A |-> AssignmentUnits(c, f)]
      BY <1>3
    <2>2. [f \in A |-> units[f]] = [f \in A |-> AssignmentUnits(c, f)]
      OBVIOUS
    <2> QED
      BY <2>1, <2>2 DEF SumOn, Units
  <1>9. SumOn(units, A) \in Nat /\ SumOn(units, A) <= Cardinality(A) * m
    <2> HIDE DEF units, A, m
    <2> QED
      BY <1>1, <1>2, SumOfBounded
  <1>10. Cardinality(A) \in Nat /\ Cardinality(A) <= Len(day.flights) /\ Len(day.flights) \in Nat
    <2>1. Cardinality(Flights) = Len(day.flights) /\ Len(day.flights) \in Nat
      <3>1. \A n \in Nat : Cardinality(1..n) = n
        BY FS_Interval
      <3> QED
        BY <3>1, DayTypes
    <2> HIDE DEF A, P
    <2> QED
      BY <1>1, <2>1, FiniteDay, FS_Subset, FS_CardinalityType
  <1>11. Cardinality(A) * m <= WorkloadBound /\ Cardinality(A) * m \in Nat /\ WorkloadBound \in Nat
    <2> HIDE DEF A, m
    <2>1. Cardinality(A) * m \in Nat /\ Cardinality(A) * m <= Len(day.flights) * m
      BY <1>2, <1>10, ProductsAreBounded
    <2> QED
      BY <2>1, FactorsAreNatural DEF WorkloadBound, m
  <1>12. Workload(c, e) = Units(c, e)
    BY <1>6, <1>7, <1>8
  <1>13. Units(c, e) \in Nat /\ Units(c, e) <= Cardinality(A) * m
    BY <1>8, <1>9
  <1> DEFINE bound == Cardinality(A) * m
  <1> HIDE DEF A, m, bound
  <1>14. Units(c, e) \in Nat /\ Units(c, e) <= bound /\ bound <= WorkloadBound
         /\ bound \in Nat /\ WorkloadBound \in Nat
    BY <1>11, <1>13 DEF bound
  <1> QED
    BY <1>12, <1>14
----------------------------------------------------------------------------
\* Continuity.

LEMMA ContinuityExact ==
  ASSUME ValidInput, NEW c \in Solutions
  PROVE  ContinuityAgrees(c)
  <1> DEFINE P == ContinuityPairs
             E == Participants
             both(t) == <<t[2], t[1][1]>> \in c /\ <<t[2], t[1][2]>> \in c
             term == [t \in Retentions |->
                        The(AndValues(Value(c, t[2], t[1][1]), Value(c, t[2], t[1][2])))]
             R == {t \in P \X E : both(t)}
  <1>1. /\ IsFiniteSet(P) /\ IsFiniteSet(E)
        /\ P \subseteq Flights \X Flights /\ E \subseteq Employees
    <2>1. P \subseteq Flights \X Flights /\ E \subseteq Employees
      BY DEF ContinuityPairs, Participants, Represented
    <2>2. IsFiniteSet(Flights \X Flights)
      BY FiniteDay, FS_Product
    <2> HIDE DEF P, E
    <2> QED
      BY <2>1, <2>2, FiniteDay, FS_Subset
  <1>2. IsFiniteSet(P \X E) /\ IsFiniteSet(Retentions)
    <2>1. Retentions \subseteq P \X E
      BY DEF Retentions
    <2> HIDE DEF P, E
    <2> QED
      BY <1>1, <2>1, FS_Product, FS_Subset
  <1>3. \A t \in Retentions : term[t] = Bit(both(t))
    <2> TAKE t \in Retentions
    <2> DEFINE first == <<t[2], t[1][1]>> \in c
               second == <<t[2], t[1][2]>> \in c
    <2>1. AndValues(Bit(first), Bit(second)) = {Bit(first /\ second)}
      <3>1. first \in BOOLEAN /\ second \in BOOLEAN
        OBVIOUS
      <3> HIDE DEF first, second
      <3> QED
        BY <3>1, AndExact
    <2>2. term[t] = The(AndValues(Bit(first), Bit(second)))
      BY DEF Value
    <2> HIDE DEF first, second
    <2>3. term[t] = Bit(first /\ second)
      BY <2>1, <2>2, BitValues
    <2> QED
      BY <2>3 DEF first, second
  <1>4. \A t \in R : t \in Retentions
    <2> TAKE t \in R
    <2>1. /\ t \in P \X E /\ <<t[2], t[1][1]>> \in c /\ <<t[2], t[1][2]>> \in c
          /\ t[2] \in Employees /\ t[1][1] \in Flights /\ t[1][2] \in Flights
      BY <1>1
    <2>2. t[1][1] \in Assigned(c, t[2]) /\ t[1][2] \in Assigned(c, t[2])
      BY <2>1 DEF Assigned
    <2>3. t[1][1] \in Possible(t[2]) /\ t[1][2] \in Possible(t[2])
      BY <2>1, <2>2, AssignedIsPossible
    <2> QED
      BY <2>1, <2>3 DEF Retentions
  <1>5. \A t \in Retentions : term[t] \in 0..1 /\ (term[t] = 1 <=> both(t))
    <2>1. \A t \in Retentions : both(t) \in BOOLEAN
      OBVIOUS
    <2> HIDE DEF term, both
    <2> QED
      BY <1>3, <2>1, BitValues
  <1>6. {t \in Retentions : term[t] = 1} = R
    <2>1. \A t \in Retentions : t \in P \X E
      BY DEF Retentions
    <2>2. \A t \in R : both(t)
      OBVIOUS
    <2>3. \A t \in P \X E : both(t) => t \in R
      OBVIOUS
    <2> HIDE DEF term, both, R, P, E
    <2> QED
      BY <1>4, <1>5, <2>1, <2>2, <2>3
  <1>7. Retained(c) = Cardinality(R)
    <2>1. SumOn(term, Retentions) = Retained(c)
      <3>1. [t \in Retentions |-> term[t]] =
              [t \in Retentions |->
                 The(AndValues(Value(c, t[2], t[1][1]), Value(c, t[2], t[1][2])))]
        OBVIOUS
      <3> QED
        BY <3>1 DEF SumOn, Retained
    <2>2. SumOn(term, Retentions) = Cardinality({t \in Retentions : term[t] = 1})
      <3> HIDE DEF term
      <3> QED
        BY <1>2, <1>5, SumOfBits
    <2> QED
      BY <1>6, <2>1, <2>2
  <1>8. Cardinality(R) = SumOn([p \in P |-> Cardinality({e \in E : <<p, e>> \in R})], P)
    <2>1. R \in SUBSET (P \X E)
      OBVIOUS
    <2> HIDE DEF R, P, E
    <2> QED
      BY <1>1, <2>1, SumOfRows
  <1>9. \A p \in P : {e \in E : <<p, e>> \in R} = RetainedEmployees(c, p)
    <2> TAKE p \in P
    <2>1. \A e \in E : <<p, e>> \in R <=> <<e, p[1]>> \in c /\ <<e, p[2]>> \in c
      OBVIOUS
    <2>2. \A e \in E : {<<e, p[1]>>, <<e, p[2]>>} \subseteq c
                          <=> <<e, p[1]>> \in c /\ <<e, p[2]>> \in c
      OBVIOUS
    <2> HIDE DEF R
    <2> QED
      BY <2>1, <2>2 DEF RetainedEmployees
  <1>10. SumOn([p \in P |-> Cardinality({e \in E : <<p, e>> \in R})], P)
           = SumFunction([p \in P |-> Cardinality(RetainedEmployees(c, p))])
    <2>1. [p \in P |-> [q \in P |-> Cardinality({e \in E : <<q, e>> \in R})][p]]
            = [p \in P |-> Cardinality(RetainedEmployees(c, p))]
      <3> HIDE DEF R, E, P
      <3> QED
        BY <1>9
    <2> QED
      BY <2>1 DEF SumOn
  <1> HIDE DEF R, P, E, term
  <1> QED
    BY <1>7, <1>8, <1>10 DEF ContinuityAgrees, P

----------------------------------------------------------------------------
\* The pairs of employees.

LEMMA PairsAreCounted ==
  ASSUME NEW n \in Nat
  PROVE  /\ IsFiniteSet(OrderedPairs(1..n)) /\ Cardinality(OrderedPairs(1..n)) \in Nat
         /\ Cardinality(OrderedPairs(1..n)) = (n * (n - 1)) \div 2
  <1> DEFINE S == 1..n
             up == {p \in S \X S : p[1] < p[2]}
             down == {p \in S \X S : p[2] < p[1]}
             same == {p \in S \X S : p[1] = p[2]}
             turn == [p \in up |-> <<p[2], p[1]>>]
             twice == [x \in S |-> <<x, x>>]
  <1>1. IsFiniteSet(S) /\ Cardinality(S) = n
    BY FS_Interval
  <1>2. IsFiniteSet(S \X S) /\ Cardinality(S \X S) = n * n
    BY <1>1, FS_Product
  <1>3. /\ IsFiniteSet(up) /\ IsFiniteSet(down) /\ IsFiniteSet(same)
        /\ Cardinality(up) \in Nat /\ Cardinality(down) \in Nat /\ Cardinality(same) \in Nat
    <2>1. up \subseteq S \X S /\ down \subseteq S \X S /\ same \subseteq S \X S
      OBVIOUS
    <2> HIDE DEF up, down, same, S
    <2> QED
      BY <1>2, <2>1, FS_Subset, FS_CardinalityType
  <1>4. Cardinality(down) = Cardinality(up)
    <2>1. turn \in Bijection(up, down)
      <3>1. turn \in [up -> down]
        OBVIOUS
      <3>2. \A p, q \in up : turn[p] = turn[q] => p = q
        OBVIOUS
      <3>3. \A q \in down : <<q[2], q[1]>> \in up /\ turn[<<q[2], q[1]>>] = q
        OBVIOUS
      <3> HIDE DEF turn, up, down
      <3>4. turn \in Injection(up, down)
        BY <3>1, <3>2 DEF Injection, IsInjective
      <3>5. turn \in Surjection(up, down)
        BY <3>1, <3>3 DEF Surjection
      <3> QED
        BY <3>4, <3>5 DEF Bijection
    <2>2. ExistsBijection(up, down)
      BY <2>1 DEF ExistsBijection
    <2> HIDE DEF turn, up, down
    <2> QED
      BY <1>3, <2>2, FS_Bijection
  <1>5. Cardinality(same) = n
    <2>1. twice \in Bijection(S, same)
      <3>1. twice \in [S -> same]
        OBVIOUS
      <3>2. \A x, y \in S : twice[x] = twice[y] => x = y
        OBVIOUS
      <3>3. \A q \in same : q[1] \in S /\ twice[q[1]] = q
        OBVIOUS
      <3> HIDE DEF twice, same, S
      <3>4. twice \in Injection(S, same)
        BY <3>1, <3>2 DEF Injection, IsInjective
      <3>5. twice \in Surjection(S, same)
        BY <3>1, <3>3 DEF Surjection
      <3> QED
        BY <3>4, <3>5 DEF Bijection
    <2>2. ExistsBijection(S, same)
      BY <2>1 DEF ExistsBijection
    <2> HIDE DEF twice, same, S
    <2> QED
      BY <1>1, <2>2, FS_Bijection
  <1>6. Cardinality(up) + Cardinality(down) + Cardinality(same) = n * n
    <2>1. /\ up \cap down = {} /\ (up \cup down) \cap same = {}
          /\ (up \cup down) \cup same = S \X S
      OBVIOUS
    <2> DEFINE both == up \cup down
    <2> HIDE DEF up, down, same, S
    <2>2. IsFiniteSet(both) /\ Cardinality(both) = Cardinality(up) + Cardinality(down)
      <3>1. Cardinality(up \cap down) = 0
        BY <2>1, FS_EmptySet
      <3>2. /\ IsFiniteSet(up \cup down)
            /\ Cardinality(up \cup down)
                 = Cardinality(up) + Cardinality(down) - Cardinality(up \cap down)
        BY <1>3, FS_Union
      <3> QED
        BY <1>3, <3>1, <3>2 DEF both
    <2>3. Cardinality(both \cup same) = Cardinality(both) + Cardinality(same)
      <3>1. Cardinality(both \cap same) = 0
        BY <2>1, FS_EmptySet DEF both
      <3>2. IsFiniteSet(both) /\ IsFiniteSet(same) /\ Cardinality(both) \in Nat
        BY <1>3, <2>2
      <3>3. Cardinality(both \cup same)
              = Cardinality(both) + Cardinality(same) - Cardinality(both \cap same)
        BY <3>2, FS_Union
      <3> QED
        BY <1>3, <3>1, <3>2, <3>3
    <2> QED
      BY <1>2, <2>1, <2>2, <2>3
  <1>7. OrderedPairs(S) = up
    BY DEF OrderedPairs
  <1> DEFINE k == Cardinality(up)
             square == n * n
             product == n * (n - 1)
  <1>8. product = square - n /\ square \in Nat /\ product \in Int
    OBVIOUS
  <1>9. k + k + n = square /\ k \in Nat
    BY <1>3, <1>4, <1>5, <1>6
  <1>10. product \div 2 = k
    <2> HIDE DEF k, square, product
    <2>1. product = 2 * k
      BY <1>8, <1>9
    <2> QED
      BY <1>9, <2>1
  <1> HIDE DEF up
  <1> QED
    BY <1>3, <1>7, <1>10

LEMMA PairDistancesFit ==
  ASSUME ValidInput, NEW v \in [Participants -> 0..WorkloadBound]
  PROVE  PairDistances(v) <= MaxSolverInteger
  <1> DEFINE O == OrderedPairs(Participants)
             all == OrderedPairs(Employees)
             term == [p \in O |-> Distance(v[p[1]], v[p[2]])]
  <1>0. WorkloadBound \in Nat
    BY FactorsAreNatural
  <1>1. IsFiniteSet(all) /\ Cardinality(all) = PairCount /\ Cardinality(all) \in Nat
    BY DayTypes, PairsAreCounted DEF PairCount
  <1>2. IsFiniteSet(O) /\ Cardinality(O) \in Nat /\ Cardinality(O) <= Cardinality(all)
    <2>1. O \subseteq all
      <3>1. Participants \subseteq Employees
        BY DEF Participants, Represented
      <3> QED
        BY <3>1 DEF OrderedPairs
    <2> HIDE DEF O, all
    <2> QED
      BY <1>1, <2>1, FS_Subset, FS_CardinalityType
  <1>3. \A p \in O : term[p] \in 0..WorkloadBound
    <2> TAKE p \in O
    <2>1. v[p[1]] \in 0..WorkloadBound /\ v[p[2]] \in 0..WorkloadBound
      BY DEF OrderedPairs
    <2>2. term[p] = Distance(v[p[1]], v[p[2]])
      OBVIOUS
    <2> HIDE DEF term
    <2> QED
      BY <1>0, <2>1, <2>2 DEF Distance
  <1>4. SumOn(term, O) \in Nat /\ SumOn(term, O) <= Cardinality(O) * WorkloadBound
    <2> HIDE DEF term, O
    <2> QED
      BY <1>0, <1>2, <1>3, SumOfBounded
  <1>5. PairDistances(v) = SumOn(term, O)
    <2>1. DOMAIN v = Participants
      OBVIOUS
    <2>2. [p \in O |-> term[p]] = [p \in O |-> Distance(v[p[1]], v[p[2]])]
      OBVIOUS
    <2> QED
      BY <2>1, <2>2 DEF PairDistances, SumOn
  <1>6. /\ Cardinality(O) * WorkloadBound <= PairCount * WorkloadBound
        /\ Cardinality(O) * WorkloadBound \in Nat /\ PairCount * WorkloadBound \in Nat
    <2> HIDE DEF O, all
    <2>1. PairCount \in Nat /\ Cardinality(O) <= PairCount
      BY <1>1, <1>2
    <2> QED
      BY <1>0, <1>2, <2>1, ProductsAreBounded
  <1>7. PairCount * WorkloadBound <= MaxSolverInteger /\ MaxSolverInteger \in Nat
    BY FactorsAreNatural, SolverAssumption
  <1> DEFINE few == Cardinality(O) * WorkloadBound
             many == PairCount * WorkloadBound
             sum == SumOn(term, O)
  <1>8. sum <= few /\ few <= many /\ many <= MaxSolverInteger
        /\ sum \in Nat /\ few \in Nat /\ many \in Nat /\ MaxSolverInteger \in Nat
    BY <1>4, <1>6, <1>7
  <1>9. sum <= MaxSolverInteger
    <2> HIDE DEF sum, few, many
    <2> QED
      BY <1>8
  <1> QED
    BY <1>5, <1>9

(* Staffing, qualification, workload and continuity: what the variables of the
   model are left with is what the result counts again from the crews, and the
   sums of workload differences the solver forms stay within its integers, for
   every valid day and every solution (_build_model, _build_result,
   _validate_workload_bounds). *)
THEOREM FiguresExact == Spec => []FiguresAgree
  <1>1. BuildOK => FiguresAgree
    <2> SUFFICES ASSUME BuildOK, phase = "SOLUTION"
                 PROVE  /\ StaffingAgrees(crews) /\ WorkloadsAgree(crews) /\ ContinuityAgrees(crews)
                        /\ PairDistances([e \in Participants |-> Units(crews, e)])
                               <= MaxSolverInteger
      BY DEF FiguresAgree
    <2>1. ValidInput /\ crews \in Solutions /\ candidates \subseteq LegalCandidates(FALSE)
      BY DEF BuildOK, ValidInput
    <2>2. /\ crews \in SUBSET (Employees \X Flights)
          /\ \A f \in Flights : Staff(crews, f) <= Maximum(f)
      BY <2>1, SolutionsAreLegal
    <2>3. StaffingAgrees(crews)
      BY <2>1, <2>2, StaffingExact
    <2>4. \A e \in Participants : /\ Workload(crews, e) = Units(crews, e)
                                  /\ Units(crews, e) \in 0..WorkloadBound
      <3>1. Participants \subseteq Employees
        BY DEF Participants, Represented
      <3> QED
        BY <2>1, <2>2, <3>1, WorkloadExact
    <2>5. WorkloadsAgree(crews)
      <3>1. WorkloadBound \in Nat
        BY <2>1, FactorsAreNatural
      <3> QED
        BY <2>4, <3>1 DEF WorkloadsAgree
    <2>6. ContinuityAgrees(crews)
      BY <2>1, ContinuityExact
    <2>7. PairDistances([e \in Participants |-> Units(crews, e)]) <= MaxSolverInteger
      BY <2>1, <2>4, PairDistancesFit
    <2> QED
      BY <2>3, <2>5, <2>6, <2>7
  <1> QED
    BY <1>1, BuildInvariant, PTL
----------------------------------------------------------------------------
\* The order of work, counted.

\* Between two flights of a set lie as many of its flights as their ranks say.
LEMMA RanksCount ==
  ASSUME ValidInput, NEW S \in SUBSET Flights, NEW f \in S, NEW g \in S, Precedes(f, g)
  PROVE  LET before(h) == {k \in S : Precedes(k, h)}
             between == {h \in S : Precedes(f, h) /\ Precedes(h, g)}
         IN  /\ Cardinality(before(f)) \in Nat /\ Cardinality(before(g)) \in Nat
             /\ Cardinality(between) \in Nat /\ IsFiniteSet(between)
             /\ Cardinality(before(g)) = Cardinality(before(f)) + 1 + Cardinality(between)
  <1> DEFINE before(h) == {k \in S : Precedes(k, h)}
             between == {h \in S : Precedes(f, h) /\ Precedes(h, g)}
             low == before(f)
             upto == low \cup {f}
  <1>1. /\ IsFiniteSet(low) /\ IsFiniteSet(between) /\ IsFiniteSet(before(g))
        /\ Cardinality(low) \in Nat /\ Cardinality(between) \in Nat
        /\ Cardinality(before(g)) \in Nat
    <2>1. IsFiniteSet(S)
      BY FiniteDay, FS_Subset
    <2>2. low \in SUBSET S /\ between \in SUBSET S /\ before(g) \in SUBSET S
      OBVIOUS
    <2> HIDE DEF low, between, before
    <2> QED
      BY <2>1, <2>2, FS_Subset, FS_CardinalityType
  <1>2. /\ f \notin low /\ upto \cap between = {} /\ upto \cup between = before(g)
    <2>1. f \notin low /\ \A h \in between : h \notin upto
      BY WorkIsOrdered
    <2>2. \A h \in S : h \in before(g) <=> h \in upto \/ h \in between
      BY WorkIsOrdered
    <2>3. upto \in SUBSET S /\ between \in SUBSET S /\ before(g) \in SUBSET S
      OBVIOUS
    <2> HIDE DEF low, between, before
    <2> QED
      BY <2>1, <2>2, <2>3
  <1> HIDE DEF low, between, before
  <1>3. IsFiniteSet(upto) /\ Cardinality(upto) = Cardinality(low) + 1
    BY <1>1, <1>2, FS_AddElement
  <1>4. /\ Cardinality(upto \cup between)
             = Cardinality(upto) + Cardinality(between) - Cardinality(upto \cap between)
        /\ Cardinality(upto \cap between) = 0
    <2>1. Cardinality(upto \cap between) = 0
      BY <1>2, FS_EmptySet
    <2> HIDE DEF upto
    <2> QED
      BY <1>1, <1>3, <2>1, FS_Union
  <1>5. Cardinality(before(g)) = Cardinality(low) + 1 + Cardinality(between)
    <2>1. Cardinality(upto \cup between) = Cardinality(before(g))
      BY <1>2
    <2> HIDE DEF upto
    <2> QED
      BY <1>1, <1>3, <1>4, <2>1
  <1> QED
    BY <1>1, <1>5 DEF low, between, before

\* An itinerary is the whole of its flights, each once, in the order of work,
\* with nothing between neighbours.
LEMMA ItineraryIsSorted ==
  ASSUME ValidInput, NEW S \in SUBSET Flights
  PROVE  LET w == InOrder(S)
             n == Cardinality(S)
         IN  /\ n \in Nat /\ IsFiniteSet(S)
             /\ w \in [1..n -> S] /\ Len(w) = n
             /\ \A f \in S : \E i \in 1..n : w[i] = f
             /\ \A i, j \in 1..n : Precedes(w[i], w[j]) <=> i < j
             /\ \A i, j \in 1..n : w[i] = w[j] => i = j
             /\ \A i, j \in 1..n :
                   i < j => (j = i + 1 <=>
                      Cardinality({h \in S : Precedes(w[i], h) /\ Precedes(h, w[j])}) = 0)
  <1> DEFINE w == InOrder(S)
             n == Cardinality(S)
             rank(f) == Cardinality({g \in S : Precedes(g, f)})
             middle(f, g) == Cardinality({h \in S : Precedes(f, h) /\ Precedes(h, g)})
  <1>1. n \in Nat /\ IsFiniteSet(S)
    BY FiniteDay, FS_Subset, FS_CardinalityType
  <1>2. w \in [1..n -> S]
    <2>1. w = [i \in 1..n |-> w[i]]
      <3> DEFINE pick(i) == CHOOSE f \in S : rank(f) = i - 1
      <3>1. w = [i \in 1..n |-> pick(i)]
        BY DEF InOrder
      <3> HIDE DEF w, n, pick
      <3> QED
        BY <3>1
    <2>2. \A i \in 1..n : w[i] \in S
      BY ItineraryIsWorked
    <2> HIDE DEF w, n
    <2> QED
      BY <2>1, <2>2
  <1>3. Len(w) = n
    BY <1>1, <1>2
  <1>4. \A f \in S : rank(f) \in 0..(n - 1)
    <2> TAKE f \in S
    <2> DEFINE low == {g \in S : Precedes(g, f)}
    <2>1. low \in SUBSET (S \ {f})
      BY WorkIsOrdered
    <2>2. IsFiniteSet(S \ {f}) /\ Cardinality(S \ {f}) = n - 1
      BY <1>1, FS_RemoveElement
    <2> HIDE DEF low, n
    <2>3. Cardinality(low) <= n - 1 /\ Cardinality(low) \in Nat
      BY <2>1, <2>2, FS_Subset, FS_CardinalityType
    <2>4. Cardinality(low) \in 0..(n - 1)
      BY <1>1, <2>3
    <2> QED
      BY <2>4 DEF low
  <1>5. \A f, g \in S : Precedes(f, g) =>
          /\ middle(f, g) \in Nat
          /\ rank(g) = rank(f) + 1 + middle(f, g)
    BY RanksCount
  <1>6. \A f, g \in S : rank(f) \in Nat /\ (rank(f) = rank(g) => f = g)
    <2>1. \A f \in S : rank(f) \in Nat
      <3> HIDE DEF rank, n
      <3> QED
        BY <1>1, <1>4
    <2>2. \A f, g \in S : f # g => Precedes(f, g) \/ Precedes(g, f)
      BY WorkIsOrdered
    <2> HIDE DEF rank, middle
    <2> QED
      BY <1>5, <2>1, <2>2
  <1>7. \A i \in 1..n : rank(w[i]) = i - 1
    <2> TAKE i \in 1..n
    <2>1. \E f \in S : rank(f) = i - 1
      BY ItineraryHasRanks
    <2>2. w[i] = CHOOSE f \in S : rank(f) = i - 1
      BY DEF InOrder
    <2> HIDE DEF rank, w
    <2> QED
      BY <2>1, <2>2
  <1>8. ASSUME NEW f \in S PROVE \E i \in 1..n : w[i] = f
    <2> DEFINE i == rank(f) + 1
    <2>1. i \in 1..n /\ rank(f) = i - 1
      <3> HIDE DEF rank, n
      <3> QED
        BY <1>1, <1>4
    <2>2. w[i] \in S /\ rank(w[i]) = i - 1
      <3> HIDE DEF rank, n, i, w
      <3> QED
        BY <1>2, <1>7, <2>1
    <2>3. w[i] = f
      <3> HIDE DEF rank, i, w
      <3> QED
        BY <1>6, <2>1, <2>2
    <2> QED
      BY <2>1, <2>3
  <1>9. ASSUME NEW i \in 1..n, NEW j \in 1..n
        PROVE  /\ Precedes(w[i], w[j]) <=> i < j
               /\ w[i] = w[j] => i = j
               /\ i < j => (j = i + 1 <=> middle(w[i], w[j]) = 0)
    <2>1. /\ w[i] \in S /\ w[j] \in S /\ rank(w[i]) = i - 1 /\ rank(w[j]) = j - 1
          /\ i \in Nat /\ j \in Nat
      <3> HIDE DEF rank, w, n
      <3> QED
        BY <1>1, <1>2, <1>7
    <2>2. /\ ~Precedes(w[i], w[i])
          /\ w[i] # w[j] => Precedes(w[i], w[j]) \/ Precedes(w[j], w[i])
      <3> HIDE DEF w
      <3> QED
        BY <2>1, WorkIsOrdered
    <2> HIDE DEF rank, w, n, middle
    <2>3. Precedes(w[i], w[j]) => middle(w[i], w[j]) \in Nat /\ j - 1 = i + middle(w[i], w[j])
      BY <1>5, <2>1
    <2>4. Precedes(w[j], w[i]) => middle(w[j], w[i]) \in Nat /\ i - 1 = j + middle(w[j], w[i])
      BY <1>5, <2>1
    <2>5. w[i] = w[j] => i = j
      BY <2>1
    <2>6. Precedes(w[i], w[j]) => i < j
      BY <2>1, <2>3
    <2>7. i < j => Precedes(w[i], w[j])
      BY <2>1, <2>2, <2>4
    <2>8. i < j => (j = i + 1 <=> middle(w[i], w[j]) = 0)
      BY <2>1, <2>3, <2>7
    <2> QED
      BY <2>5, <2>6, <2>7, <2>8
  <1> QED
    BY <1>1, <1>2, <1>3, <1>8, <1>9
----------------------------------------------------------------------------
\* Breaks.

\* The pairs of flights around a rest that the model looks for are those that
\* the scan of an itinerary accepts.
LEMMA RestsAgree ==
  ASSUME ValidInput, NEW e \in Employees, NEW f \in Possible(e), NEW g \in Possible(e),
         Precedes(f, g)
  PROVE  <<f, g>> \in BreakGaps(e) <=> /\ Gap(f, g) >= config.requiredBreak
                                       /\ SpanInOneShift(e, f, g, leads)
  <1> DEFINE span == [start |-> Window(f).start, end |-> Window(g).end]
  <1>1. f \in Flights /\ g \in Flights
    BY DEF Possible
  <1>2. config.requiredBreak \in Int /\ config.requiredBreak > 0
    BY ValidSettings DEF PositiveSettings, ValidInput, Configurations
  <1>3. <<f, g>> \in BreakGaps(e) <=>
          Gap(f, g) >= config.requiredBreak /\ EligibleShifts(e, span, leads) # {}
    BY DEF BreakGaps
  <1>4. Gap(f, g) >= config.requiredBreak => span.start < span.end
    BY <1>1, <1>2, FlightsAreDerivable DEF Gap
  <1>5. ASSUME span.start < span.end
        PROVE  EligibleShifts(e, span, leads) # {} <=> SpanInOneShift(e, f, g, leads)
    <2>1. \A s \in ShiftsOf(e) : s \in EligibleShifts(e, span, leads) <=>
            /\ day.employees[e].enabled
            /\ RoleAllowed(day.shifts[s].role, leads)
            /\ day.shifts[s].start <= Window(f).start
            /\ Window(g).end <= day.shifts[s].end
      BY <1>5 DEF EligibleShifts, ShiftContains
    <2>2. EligibleShifts(e, span, leads) \subseteq ShiftsOf(e)
      BY DEF EligibleShifts
    <2> HIDE DEF span
    <2> QED
      BY <2>1, <2>2 DEF SpanInOneShift
  <1> HIDE DEF span
  <1> QED
    BY <1>3, <1>4, <1>5

\* Neighbours in the order of work of a set of flights.
Adjacent(S, f, g) ==
  /\ f \in S /\ g \in S
  /\ Cardinality({h \in S : Precedes(f, h) /\ Precedes(h, g)}) = 0

\* The variable of a gap is 1 exactly for neighbours of the itinerary.
LEMMA NeighboursAgree ==
  ASSUME ValidInput, NEW c, NEW e \in Employees, NEW among \in SUBSET Flights,
         NEW S, S = {f \in among : <<e, f>> \in c},
         NEW f \in among, NEW g \in among
  PROVE  GapValues(Value(c, e, f), Value(c, e, g), Between(c, e, among, <<f, g>>))
           = {Bit(Adjacent(S, f, g))}
  <1> DEFINE first == <<e, f>> \in c
             second == <<e, g>> \in c
             between == Between(c, e, among, <<f, g>>)
  <1>1. {h \in among : Precedes(f, h) /\ Precedes(h, g) /\ <<e, h>> \in c}
          = {h \in S : Precedes(f, h) /\ Precedes(h, g)}
    OBVIOUS
  <1>2. between = Cardinality({h \in S : Precedes(f, h) /\ Precedes(h, g)})
    BY <1>1 DEF Between
  <1>3. between \in Nat
    <2>1. {h \in S : Precedes(f, h) /\ Precedes(h, g)} \in SUBSET Flights
      OBVIOUS
    <2> HIDE DEF between
    <2> QED
      BY <1>2, <2>1, FiniteDay, FS_Subset, FS_CardinalityType
  <1>4. (f \in S <=> first) /\ (g \in S <=> second)
    OBVIOUS
  <1>5. GapValues(Bit(first), Bit(second), between) = {Bit(first /\ second /\ between = 0)}
    <2>1. first \in BOOLEAN /\ second \in BOOLEAN
      OBVIOUS
    <2> HIDE DEF first, second, between
    <2> QED
      BY <1>3, <2>1, GapExact
  <1>6. Value(c, e, f) = Bit(first) /\ Value(c, e, g) = Bit(second)
    BY DEF Value
  <1> HIDE DEF first, second, between
  <1>7. (first /\ second /\ between = 0) <=> Adjacent(S, f, g)
    BY <1>2, <1>4 DEF Adjacent
  <1> QED
    BY <1>5, <1>6, <1>7 DEF between, Bit

LEMMA BreaksExact ==
  ASSUME ValidInput, NEW c \in Solutions, NEW e \in Employees
  PROVE  LET status == BreakStatus(c, e, leads)
         IN  /\ EvaluableValues(c, e) = {Bit(status \in {"SATISFIED", "UNSATISFIED"})}
             /\ AchievedValues(c, e) = {Bit(status = "SATISFIED")}
             /\ UnsatisfiedValues(c, e) = {Bit(status = "UNSATISFIED")}
  <1> DEFINE A == Assigned(c, e)
             n == Cardinality(A)
             w == Itinerary(c, e)
             rests(i) == /\ Gap(w[i], w[i + 1]) >= config.requiredBreak
                         /\ SpanInOneShift(e, w[i], w[i + 1], leads)
             rested == \E i \in 1..(n - 1) : rests(i)
             next(p) == Adjacent(A, p[1], p[2])
             term == [p \in BreakGaps(e) |-> The(BreakGapValues(c, e, p))]
             status == BreakStatus(c, e, leads)
  <1>1. A \in SUBSET Possible(e) /\ A \in SUBSET Flights /\ Possible(e) \in SUBSET Flights
    BY AssignedIsPossible
  <1>2. /\ n \in Nat /\ w \in [1..n -> A] /\ Len(w) = n
        /\ \A f \in A : \E i \in 1..n : w[i] = f
        /\ \A i, j \in 1..n : Precedes(w[i], w[j]) <=> i < j
        /\ \A i, j \in 1..n :
              i < j => (j = i + 1 <=>
                 Cardinality({h \in A : Precedes(w[i], h) /\ Precedes(h, w[j])}) = 0)
    <2> HIDE DEF A
    <2> QED
      BY <1>1, ItineraryIsSorted DEF Itinerary, A
  <1>3. \A p \in BreakGaps(e) : term[p] = Bit(next(p)) /\ p = <<p[1], p[2]>>
    <2> TAKE p \in BreakGaps(e)
    <2>1. /\ p[1] \in Possible(e) /\ p[2] \in Possible(e) /\ p = <<p[1], p[2]>>
      BY DEF BreakGaps
    <2>2. A = {f \in Possible(e) : <<e, f>> \in c}
      BY <1>1 DEF Assigned
    <2>3. BreakGapValues(c, e, p) = {Bit(next(p))}
      <3> HIDE DEF A
      <3>1. GapValues(Value(c, e, p[1]), Value(c, e, p[2]),
                      Between(c, e, Possible(e), <<p[1], p[2]>>)) = {Bit(next(p))}
        BY <1>1, <2>1, <2>2, NeighboursAgree
      <3> HIDE DEF next
      <3> QED
        BY <2>1, <3>1 DEF BreakGapValues
    <2>4. term[p] = The(BreakGapValues(c, e, p))
      OBVIOUS
    <2> HIDE DEF term, next
    <2> QED
      BY <2>1, <2>3, <2>4, BitValues
  <1>4. rested <=> \E p \in BreakGaps(e) : next(p)
    <2>1. ASSUME NEW i \in 1..(n - 1), rests(i) PROVE \E p \in BreakGaps(e) : next(p)
      <3>1. i \in 1..n /\ i + 1 \in 1..n /\ i < i + 1
        BY <1>2
      <3>2. w[i] \in A /\ w[i + 1] \in A /\ Precedes(w[i], w[i + 1])
        BY <1>2, <3>1
      <3>3. Cardinality({h \in A : Precedes(w[i], h) /\ Precedes(h, w[i + 1])}) = 0
        BY <1>2, <3>1
      <3>4. <<w[i], w[i + 1]>> \in BreakGaps(e)
        <4> HIDE DEF w, A
        <4> QED
          BY <1>1, <2>1, <3>2, RestsAgree
      <3>5. next(<<w[i], w[i + 1]>>)
        BY <3>2, <3>3 DEF Adjacent
      <3> QED
        BY <3>4, <3>5
    <2>2. ASSUME NEW p \in BreakGaps(e), next(p) PROVE rested
      <3>1. p[1] \in Possible(e) /\ p[2] \in Possible(e) /\ Precedes(p[1], p[2])
        BY DEF BreakGaps
      <3>2. PICK i \in 1..n, j \in 1..n : w[i] = p[1] /\ w[j] = p[2]
        BY <1>2, <2>2 DEF Adjacent
      <3>3. j = i + 1
        BY <1>2, <2>2, <3>1, <3>2 DEF Adjacent
      <3>4. i \in 1..(n - 1)
        BY <1>2, <3>3
      <3>5. rests(i)
        <4>1. p = <<p[1], p[2]>>
          BY <1>3
        <4> HIDE DEF w
        <4> QED
          BY <2>2, <3>1, <3>2, <3>3, <4>1, RestsAgree
      <3> QED
        BY <3>4, <3>5
    <2> HIDE DEF next, rests
    <2> QED
      BY <2>1, <2>2
  <1>5. AchievedValues(c, e) = {Bit(rested)}
    <2>1. IsFiniteSet(BreakGaps(e))
      <3>1. IsFiniteSet(Possible(e) \X Possible(e))
        BY AssignedIsPossible, FS_Product
      <3>2. BreakGaps(e) \subseteq Possible(e) \X Possible(e)
        BY DEF BreakGaps
      <3> QED
        BY <3>1, <3>2, FS_Subset
    <2>2. \A p \in BreakGaps(e) : term[p] \in 0..1 /\ (term[p] = 1 <=> next(p))
      <3>1. \A p \in BreakGaps(e) : next(p) \in BOOLEAN
        BY DEF Adjacent
      <3> HIDE DEF term, next
      <3> QED
        BY <1>3, <3>1, BitValues
    <2> DEFINE ones == {p \in BreakGaps(e) : term[p] = 1}
    <2>3. SumOn(term, BreakGaps(e)) = Cardinality(ones)
      <3> HIDE DEF term
      <3> QED
        BY <2>1, <2>2, SumOfBits
    <2>4. SumOn(term, BreakGaps(e))
            = SumFunction([p \in BreakGaps(e) |-> The(BreakGapValues(c, e, p))])
      <3>1. [p \in BreakGaps(e) |-> term[p]]
              = [p \in BreakGaps(e) |-> The(BreakGapValues(c, e, p))]
        OBVIOUS
      <3> QED
        BY <3>1 DEF SumOn
    <2>5. AchievedValues(c, e) = AnyValues(Cardinality(ones))
      BY <2>3, <2>4 DEF AchievedValues
    <2>6. Cardinality(ones) \in Nat /\ (Cardinality(ones) # 0 <=> rested)
      <3>1. ones # {} <=> rested
        <4> HIDE DEF term, next, rested
        <4> QED
          BY <1>4, <2>2
      <3>2. ones \subseteq BreakGaps(e)
        OBVIOUS
      <3> HIDE DEF ones, rested
      <3> QED
        BY <2>1, <3>1, <3>2, FS_Subset, FS_CardinalityType, FS_EmptySet
    <2> HIDE DEF ones, rested
    <2>7. AchievedValues(c, e) = {Bit(Cardinality(ones) # 0)}
      BY <2>5, <2>6, AnyExact
    <2> QED
      BY <2>6, <2>7 DEF Bit
  <1>6. EvaluableValues(c, e) = {Bit(n >= 2)}
    <2> HIDE DEF n
    <2> QED
      BY <1>2, ThresholdExact DEF EvaluableValues, n, A
  <1>7. /\ (status = "SATISFIED") <=> n >= 2 /\ rested
        /\ (status = "UNSATISFIED") <=> n >= 2 /\ ~rested
    <2>1. Len(w) = n
      BY <1>2
    <2>2. status = IF n = 0 /\ \E s \in ShiftsOf(e) : day.shifts[s].role = "RAMP_LEAD"
                   THEN "NOT_APPLICABLE"
                   ELSE IF n < 2 THEN "NOT_EVALUABLE"
                   ELSE IF rested THEN "SATISFIED" ELSE "UNSATISFIED"
      BY <2>1 DEF BreakStatus
    <2> HIDE DEF n, status, rested
    <2> QED
      BY <1>2, <2>2
  <1>8. rested => n >= 2
    <2>1. \A i \in 1..(n - 1) : n >= 2
      BY <1>2
    <2> QED
      BY <2>1
  <1>9. (status \in {"SATISFIED", "UNSATISFIED"}) <=> n >= 2
    <2> HIDE DEF n, status, rested
    <2> QED
      BY <1>7
  <1>10. UnsatisfiedValues(c, e) = {Bit(n >= 2 /\ ~rested)}
    <2>1. The(EvaluableValues(c, e)) = Bit(n >= 2) /\ The(AchievedValues(c, e)) = Bit(rested)
      <3> HIDE DEF n, rested
      <3> QED
        BY <1>5, <1>6, BitValues
    <2> DEFINE evaluable == n >= 2
    <2>2. evaluable \in BOOLEAN /\ rested \in BOOLEAN
      BY <1>2
    <2>3. UnsatisfiedValues(c, e) =
            {i \in 0..1 : /\ i <= Bit(evaluable) /\ i + Bit(rested) <= 1
                          /\ i >= Bit(evaluable) - Bit(rested)}
      BY <2>1 DEF UnsatisfiedValues
    <2> HIDE DEF evaluable, rested
    <2>4. UnsatisfiedValues(c, e) = {Bit(evaluable /\ ~rested)}
      BY <2>2, <2>3 DEF Bit
    <2> QED
      BY <2>4 DEF evaluable
  <1> HIDE DEF n, status, rested
  <1>11. /\ EvaluableValues(c, e) = {Bit(status \in {"SATISFIED", "UNSATISFIED"})}
         /\ AchievedValues(c, e) = {Bit(status = "SATISFIED")}
         /\ UnsatisfiedValues(c, e) = {Bit(status = "UNSATISFIED")}
    BY <1>5, <1>6, <1>7, <1>8, <1>9, <1>10 DEF Bit
  <1> QED
    BY <1>11 DEF status
----------------------------------------------------------------------------
\* Streaks.

\* The runs of a sequence of n flights of which those at T continue a run: the
\* length at a position, counted from the last position that starts one.
Continues(T, n, r) == \A i \in 1..n : r[i] = IF i \in T THEN r[i - 1] + 1 ELSE 1
CountedRuns(T, n) == [i \in 1..n |-> i - Max({j \in 1..i : j \notin T}) + 1]

LEMMA RunsAreCounted ==
  ASSUME NEW n \in Nat, NEW T \in SUBSET (2..n)
  PROVE  /\ CountedRuns(T, n) \in [1..n -> 1..n]
         /\ Continues(T, n, CountedRuns(T, n))
  <1> DEFINE starts(i) == {j \in 1..i : j \notin T}
             r == CountedRuns(T, n)
  <1>1. ASSUME NEW i \in 1..n
        PROVE  /\ Max(starts(i)) \in starts(i) /\ \A j \in starts(i) : Max(starts(i)) >= j
               /\ Max(starts(i)) \in 1..i
    <2>1. 1 \in starts(i) /\ starts(i) \subseteq 1..i
      OBVIOUS
    <2>2. IsFiniteSet(1..i)
      BY FS_Interval
    <2> HIDE DEF starts
    <2> QED
      BY <2>1, <2>2, FS_Subset, MaxIsGreatest
  <1>2. \A i \in 1..n : r[i] = i - Max(starts(i)) + 1
    BY DEF CountedRuns
  <1>3. ASSUME NEW i \in 1..n PROVE r[i] \in 1..n
    <2> HIDE DEF starts, r
    <2> QED
      BY <1>1, <1>2
  <1>4. ASSUME NEW i \in 1..n, i \notin T PROVE r[i] = 1
    <2>1. i \in starts(i)
      BY <1>4
    <2> HIDE DEF starts, r
    <2> QED
      BY <1>1, <1>2, <2>1
  <1>5. ASSUME NEW i \in 1..n, i \in T PROVE r[i] = r[i - 1] + 1
    <2>1. i - 1 \in 1..n
      BY <1>5
    <2>2. starts(i) = starts(i - 1)
      BY <1>5
    <2> HIDE DEF starts, r
    <2> QED
      BY <1>1, <1>2, <2>1, <2>2
  <1>6. r \in [1..n -> 1..n]
    <2>1. r = [i \in 1..n |-> r[i]]
      BY DEF CountedRuns
    <2> HIDE DEF r
    <2> QED
      BY <1>3, <2>1
  <1>7. Continues(T, n, r)
    <2> HIDE DEF r
    <2> QED
      BY <1>4, <1>5 DEF Continues
  <1> QED
    BY <1>6, <1>7

LEMMA RunsAreDetermined ==
  ASSUME NEW n \in Nat, NEW T \in SUBSET (2..n), NEW q, Continues(T, n, q)
  PROVE  \A i \in 1..n : q[i] = CountedRuns(T, n)[i]
  <1> DEFINE r == CountedRuns(T, n)
             bad == {-i : i \in {j \in 1..n : q[j] # r[j]}}
  <1>1. r \in [1..n -> 1..n] /\ Continues(T, n, r)
    BY RunsAreCounted
  <1> SUFFICES ASSUME bad # {} PROVE FALSE
    OBVIOUS
  <1>2. bad \subseteq (-n)..(-1) /\ IsFiniteSet((-n)..(-1))
    <2>1. \A a, b \in Int : IsFiniteSet(a..b)
      BY FS_Interval
    <2>2. -n \in Int /\ -1 \in Int
      OBVIOUS
    <2>3. bad \subseteq (-n)..(-1)
      OBVIOUS
    <2> QED
      BY <2>1, <2>2, <2>3
  <1>3. Max(bad) \in bad /\ \A x \in bad : Max(bad) >= x
    <2>1. IsFiniteSet(bad) /\ \A x \in bad : x \in Int
      <3>1. \A x \in bad : x \in Int
        OBVIOUS
      <3> HIDE DEF bad
      <3> QED
        BY <1>2, <3>1, FS_Subset
    <2> HIDE DEF bad
    <2> QED
      BY <2>1, MaxIsGreatest
  <1>4. PICK i \in 1..n : q[i] # r[i] /\ \A j \in 1..n : q[j] # r[j] => i <= j
    <2>1. PICK i \in 1..n : q[i] # r[i] /\ Max(bad) = -i
      BY <1>3
    <2>2. \A j \in 1..n : q[j] # r[j] => -j \in bad
      OBVIOUS
    <2> HIDE DEF bad, r
    <2>3. \A j \in 1..n : q[j] # r[j] => -i >= -j
      BY <1>3, <2>1, <2>2
    <2> QED
      BY <2>1, <2>3
  <1> HIDE DEF bad, r
  <1>5. i \in T
    BY <1>1, <1>4 DEF Continues
  <1>6. i - 1 \in 1..n /\ q[i - 1] = r[i - 1]
    <2>1. i - 1 \in 1..n
      BY <1>5
    <2> QED
      BY <1>4, <2>1
  <1> QED
    BY <1>1, <1>4, <1>5, <1>6 DEF Continues

\* Where the flights at hand lie in one shift each, it is the same shift
\* whether leads are allowed or not.
LEMMA SameShift ==
  ASSUME ValidInput, ShiftsAreUnique, NEW e \in Participants, NEW f \in Possible(e),
         NEW withLeads \in BOOLEAN
  PROVE  ShiftOf(e, f, withLeads) = ShiftOf(e, f, FALSE)
  <1> DEFINE without == EligibleShifts(e, Window(f), FALSE)
             allowed == EligibleShifts(e, Window(f), withLeads)
  <1>1. e \in Employees /\ f \in Flights
    BY DEF Participants, Represented, Possible
  <1>2. Cardinality(without) = 1
    BY DEF ShiftsAreUnique, ShiftIsUnique
  <1>3. without \subseteq allowed /\ allowed \subseteq Shifts
    BY DEF EligibleShifts, RoleAllowed, ShiftsOf
  <1>4. IsFiniteSet(without) /\ IsFiniteSet(allowed)
    <2> HIDE DEF without, allowed
    <2> QED
      BY <1>3, FiniteDay, FS_Subset
  <1>5. without # {}
    <2> HIDE DEF without
    <2> QED
      BY <1>2, FS_EmptySet
  <1>6. Cardinality(allowed) = 1
    <2>1. allowed # {}
      BY <1>3, <1>5
    <2> QED
      BY <1>1, <2>1, ShiftIsOne DEF ShiftIsUnique
  <1>7. without = allowed
    <2> HIDE DEF without, allowed
    <2> QED
      BY <1>2, <1>3, <1>4, <1>6, FS_Subset
  <1> QED
    BY <1>7 DEF ShiftOf

\* The flights of one shift, and where one continues the streak of the one before.
InShift(c, e, shift) == {f \in Assigned(c, e) : ShiftOf(e, f, FALSE) = shift}
ShiftMates(c, e, f) == InShift(c, e, ShiftOf(e, f, FALSE))
Continued(w, n) == {i \in 2..n : Gap(w[i - 1], w[i]) < config.reset}

LEMMA ShiftMatesAreWorked ==
  ASSUME ValidInput, NEW c \in Solutions, NEW e \in Employees, NEW f \in Assigned(c, e)
  PROVE  /\ f \in ShiftMates(c, e, f) /\ ShiftMates(c, e, f) \in SUBSET Flights
         /\ ShiftMates(c, e, f) \in SUBSET Assigned(c, e)
         /\ ShiftMates(c, e, f) = {g \in Group(e, f) : <<e, g>> \in c}
         /\ Group(e, f) \in SUBSET Possible(e) /\ Possible(e) \in SUBSET Flights
         /\ \A g \in ShiftMates(c, e, f) : ShiftMates(c, e, g) = ShiftMates(c, e, f)
  <1>1. Assigned(c, e) \subseteq Possible(e) /\ Possible(e) \subseteq Flights
    BY AssignedIsPossible
  <1>2. \A g : g \in Assigned(c, e) <=> g \in Possible(e) /\ <<e, g>> \in c
    BY <1>1 DEF Assigned
  <1> QED
    BY <1>1, <1>2 DEF ShiftMates, InShift, Group

LEMMA ContinuedRange ==
  ASSUME NEW w, NEW n \in Nat PROVE Continued(w, n) \in SUBSET (2..n)
  BY DEF Continued

LEMMA RunsAgree ==
  ASSUME ValidInput, ShiftsAreUnique, NEW c \in Solutions, NEW e \in Participants,
         NEW f \in Assigned(c, e), NEW withLeads \in BOOLEAN
  PROVE  LET w == InOrder(ShiftMates(c, e, f))
             n == Cardinality(ShiftMates(c, e, f))
         IN  \A i \in 1..n :
                w[i] = f => RunAt(c, e, f, withLeads) = CountedRuns(Continued(w, n), n)[i]
  <1> DEFINE S == ShiftMates(c, e, f)
             w == InOrder(S)
             n == Cardinality(S)
             T == Continued(w, n)
             r == CountedRuns(T, n)
             shift == ShiftOf(e, f, withLeads)
             worked == InOrder({g \in Assigned(c, e) : ShiftOf(e, g, withLeads) = shift})
             step(run) == [i \in 1..Len(worked) |->
                             IF i = 1 \/ Gap(worked[i - 1], worked[i]) >= config.reset
                             THEN 1 ELSE run[i - 1] + 1]
             iter == CHOOSE run : run = step(run)
  <1>1. e \in Employees /\ Assigned(c, e) \subseteq Possible(e)
    BY AssignedIsPossible DEF Participants, Represented
  <1>2. /\ S \in SUBSET Flights /\ f \in S
    BY <1>1, ShiftMatesAreWorked
  <1>3. worked = w
    <2>1. \A g \in Assigned(c, e) : ShiftOf(e, g, withLeads) = ShiftOf(e, g, FALSE)
      BY <1>1, SameShift
    <2>2. {g \in Assigned(c, e) : ShiftOf(e, g, withLeads) = shift} = S
      BY <2>1 DEF ShiftMates, InShift
    <2> HIDE DEF S
    <2> QED
      BY <2>2
  <1>4. /\ n \in Nat /\ w \in [1..n -> S] /\ Len(w) = n
        /\ \A i, j \in 1..n : w[i] = w[j] => i = j
    <2> HIDE DEF S
    <2> QED
      BY <1>2, ItineraryIsSorted
  <1>5. T \in SUBSET (2..n) /\ r \in [1..n -> 1..n] /\ Continues(T, n, r)
    <2>1. T \in SUBSET (2..n)
      BY <1>4, ContinuedRange
    <2> HIDE DEF T, n
    <2> QED
      BY <1>4, <2>1, RunsAreCounted
  <1>6. \A i \in 1..n : i \in T <=> ~(i = 1 \/ Gap(w[i - 1], w[i]) >= config.reset)
    <2> TAKE i \in 1..n
    <2>1. i = 1 => i \notin T
      BY <1>5
    <2>2. ASSUME i # 1 PROVE i \in 2..n /\ Gap(w[i - 1], w[i]) \in Int /\ config.reset \in Int
      <3>1. i \in 1..n /\ i - 1 \in 1..n /\ i \in 2..n
        BY <1>4, <2>2
      <3>2. w[i] \in Flights /\ w[i - 1] \in Flights
        <4> HIDE DEF w, S, n
        <4> QED
          BY <1>2, <1>4, <3>1
      <3>3. Gap(w[i - 1], w[i]) \in Int
        <4> HIDE DEF w
        <4> QED
          BY <3>2, FlightsAreDerivable DEF Gap
      <3> QED
        BY <3>1, <3>3 DEF ValidInput, Configurations
    <2> HIDE DEF w, n
    <2> QED
      BY <2>1, <2>2 DEF Continued
  <1>7. \A run : run = step(run) => Continues(T, n, run)
    <2> TAKE run
    <2>1. Len(worked) = n
      BY <1>3, <1>4
    <2>2. \A i \in 1..n : step(run)[i] = IF i \in T THEN run[i - 1] + 1 ELSE 1
      <3> HIDE DEF worked, w, T, n
      <3> QED
        BY <1>3, <1>6, <2>1
    <2> HIDE DEF step, T, n
    <2> QED
      BY <2>2 DEF Continues
  <1>8. r = step(r)
    <2>1. Len(worked) = n
      BY <1>3, <1>4
    <2>2. \A i \in 1..n : step(r)[i] = r[i]
      <3> HIDE DEF worked, w, T, n, r
      <3> QED
        BY <1>3, <1>5, <1>6, <2>1 DEF Continues
    <2>3. step(r) = [i \in 1..n |-> step(r)[i]]
      <3> HIDE DEF worked, n, r
      <3> QED
        BY <2>1
    <2> HIDE DEF step, n, r
    <2> QED
      BY <1>5, <2>2, <2>3
  <1>9. iter = step(iter)
    <2> HIDE DEF step, r
    <2> QED
      BY <1>8
  <1>10. \A i \in 1..n : iter[i] = r[i]
    <2>1. Continues(T, n, iter)
      <3> HIDE DEF iter, step, T, n
      <3> QED
        BY <1>7, <1>9
    <2> HIDE DEF iter, T, n
    <2> QED
      BY <1>4, <1>5, <2>1, RunsAreDetermined DEF r
  <1>11. RunAt(c, e, f, withLeads) =
           [g \in Range(worked) |-> iter[CHOOSE i \in 1..Len(worked) : worked[i] = g]][f]
    BY DEF RunAt, Runs, Assigned
  <1> SUFFICES ASSUME NEW i \in 1..n, w[i] = f PROVE RunAt(c, e, f, withLeads) = r[i]
    OBVIOUS
  <1>12. f \in Range(w)
    <2> HIDE DEF w, n, S
    <2> QED
      BY <1>4 DEF Range
  <1>13. (CHOOSE k \in 1..n : w[k] = f) = i
    <2> HIDE DEF w, n, S
    <2> QED
      BY <1>4
  <1> HIDE DEF worked, iter, w, n, r
  <1>14. RunAt(c, e, f, withLeads) = iter[i]
    BY <1>3, <1>4, <1>11, <1>12, <1>13
  <1> QED
    BY <1>10, <1>14

LEMMA ArcsExact ==
  ASSUME ValidInput, NEW c \in Solutions, NEW e \in Employees, NEW p \in Arcs(e)
  PROVE  /\ ArcValues(c, e, p)
              = {Bit(Adjacent({g \in Group(e, p[2]) : <<e, g>> \in c}, p[1], p[2]))}
         /\ p = <<p[1], p[2]>> /\ p[1] \in Possible(e) /\ p[2] \in Possible(e)
         /\ p[1] \in Group(e, p[2]) /\ Precedes(p[1], p[2]) /\ Gap(p[1], p[2]) < config.reset
  <1>1. /\ p = <<p[1], p[2]>> /\ p[1] \in Possible(e) /\ p[2] \in Possible(e)
        /\ p[1] \in Group(e, p[2]) /\ Precedes(p[1], p[2]) /\ Gap(p[1], p[2]) < config.reset
    BY DEF Arcs
  <1>2. p[2] \in Group(e, p[2]) /\ Group(e, p[2]) \in SUBSET Flights
    BY <1>1 DEF Group, Possible
  <1> DEFINE S == {g \in Group(e, p[2]) : <<e, g>> \in c}
  <1>3. S = {g \in Group(e, p[2]) : <<e, g>> \in c}
    OBVIOUS
  <1> HIDE DEF S
  <1>4. GapValues(Value(c, e, p[1]), Value(c, e, p[2]),
                  Between(c, e, Group(e, p[2]), <<p[1], p[2]>>)) = {Bit(Adjacent(S, p[1], p[2]))}
    BY <1>1, <1>2, <1>3, NeighboursAgree
  <1>5. ArcValues(c, e, p) = {Bit(Adjacent(S, p[1], p[2]))}
    BY <1>1, <1>4 DEF ArcValues
  <1> QED
    BY <1>1, <1>5 DEF S

\* The active arcs into a flight: none, or one from its neighbour before it.
LEMMA IncomingArcs ==
  ASSUME ValidInput, NEW c \in Solutions, NEW e \in Employees
  PROVE  /\ \A p \in ActiveArcs(c, e) : p[1] \in Assigned(c, e) /\ p[2] \in Assigned(c, e)
         /\ \A f \in Assigned(c, e) :
              LET w == InOrder(ShiftMates(c, e, f))
                  n == Cardinality(ShiftMates(c, e, f))
              IN  \A i \in 1..n : w[i] = f =>
                    {p \in ActiveArcs(c, e) : p[2] = f}
                      = IF i \in Continued(w, n) THEN {<<w[i - 1], f>>} ELSE {}
  <1>1. \A p : p \in ActiveArcs(c, e) <=>
          /\ p \in Arcs(e)
          /\ Adjacent({g \in Group(e, p[2]) : <<e, g>> \in c}, p[1], p[2])
    <2>1. \A p \in Arcs(e) : The(ArcValues(c, e, p)) = 1 <=>
            Adjacent({g \in Group(e, p[2]) : <<e, g>> \in c}, p[1], p[2])
      <3> TAKE p \in Arcs(e)
      <3> DEFINE adjacent == Adjacent({g \in Group(e, p[2]) : <<e, g>> \in c}, p[1], p[2])
      <3>1. ArcValues(c, e, p) = {Bit(adjacent)} /\ adjacent \in BOOLEAN
        BY ArcsExact DEF Adjacent
      <3> HIDE DEF adjacent
      <3>2. The(ArcValues(c, e, p)) = 1 <=> adjacent
        BY <3>1, BitValues
      <3> QED
        BY <3>2 DEF adjacent
    <2> QED
      BY <2>1 DEF ActiveArcs
  <1>2. ASSUME NEW p \in ActiveArcs(c, e)
        PROVE  p[1] \in Assigned(c, e) /\ p[2] \in Assigned(c, e)
    <2>1. /\ <<e, p[1]>> \in c /\ <<e, p[2]>> \in c
          /\ p[1] \in Group(e, p[2]) /\ p[2] \in Group(e, p[2])
      BY <1>1 DEF Adjacent
    <2> QED
      BY <2>1 DEF Group, Possible, Assigned
  <1>3. ASSUME NEW f \in Assigned(c, e), NEW i \in 1..Cardinality(ShiftMates(c, e, f)),
               InOrder(ShiftMates(c, e, f))[i] = f
        PROVE  LET w == InOrder(ShiftMates(c, e, f))
                   n == Cardinality(ShiftMates(c, e, f))
               IN  {p \in ActiveArcs(c, e) : p[2] = f}
                     = IF i \in Continued(w, n) THEN {<<w[i - 1], f>>} ELSE {}
    <2> DEFINE S == ShiftMates(c, e, f)
               w == InOrder(S)
               n == Cardinality(S)
    <2>1. /\ f \in S /\ S \in SUBSET Flights /\ S = {g \in Group(e, f) : <<e, g>> \in c}
          /\ Group(e, f) \in SUBSET Possible(e)
          /\ Assigned(c, e) \subseteq Possible(e)
      BY ShiftMatesAreWorked, AssignedIsPossible
    <2>2. /\ n \in Nat /\ w \in [1..n -> S]
          /\ \A g \in S : \E k \in 1..n : w[k] = g
          /\ \A j, k \in 1..n : Precedes(w[j], w[k]) <=> j < k
          /\ \A j, k \in 1..n : w[j] = w[k] => j = k
          /\ \A j, k \in 1..n :
                j < k => (k = j + 1 <=>
                  Cardinality({h \in S : Precedes(w[j], h) /\ Precedes(h, w[k])}) = 0)
      <3> HIDE DEF S
      <3> QED
        BY <2>1, ItineraryIsSorted
    <2>3. i \in 1..n /\ w[i] = f
      BY <1>3
    <2> HIDE DEF w, n
    <2>4. ASSUME NEW p \in ActiveArcs(c, e), p[2] = f
          PROVE  i \in Continued(w, n) /\ p = <<w[i - 1], f>>
      <3>1. /\ p = <<p[1], f>> /\ Precedes(p[1], f) /\ Gap(p[1], f) < config.reset
            /\ Adjacent(S, p[1], f)
        <4>1. p \in Arcs(e)
          BY <1>1
        <4> QED
          BY <1>1, <2>1, <2>4, <4>1, ArcsExact
      <3>2. PICK k \in 1..n : w[k] = p[1]
        BY <2>2, <3>1 DEF Adjacent
      <3>3. k < i /\ i = k + 1
        <4>1. Precedes(w[k], w[i])
          BY <2>3, <3>1, <3>2
        <4>2. k < i
          BY <2>2, <2>3, <4>1
        <4>3. Cardinality({h \in S : Precedes(w[k], h) /\ Precedes(h, w[i])}) = 0
          BY <2>3, <3>1, <3>2 DEF Adjacent
        <4> QED
          BY <2>2, <2>3, <4>2, <4>3
      <3>4. i - 1 = k /\ i \in 2..n
        BY <2>2, <2>3, <3>3
      <3> QED
        BY <2>3, <3>1, <3>2, <3>4 DEF Continued
    <2>5. ASSUME i \in Continued(w, n)
          PROVE  <<w[i - 1], f>> \in ActiveArcs(c, e)
      <3>1. i - 1 \in 1..n /\ i - 1 < i /\ i = (i - 1) + 1 /\ Gap(w[i - 1], f) < config.reset
        BY <2>2, <2>3, <2>5 DEF Continued
      <3> DEFINE k == i - 1
      <3>2. k \in 1..n /\ k < i /\ i = k + 1 /\ Gap(w[k], f) < config.reset
        BY <3>1
      <3> HIDE DEF k
      <3>3. w[k] \in S /\ Precedes(w[k], f)
        BY <2>2, <2>3, <3>2
      <3>4. Adjacent(S, w[k], f)
        <4>1. Cardinality({h \in S : Precedes(w[k], h) /\ Precedes(h, w[i])}) = 0
          BY <2>2, <2>3, <3>2
        <4> QED
          BY <2>1, <2>3, <3>3, <4>1 DEF Adjacent
      <3>5. <<w[k], f>> \in Arcs(e)
        BY <2>1, <3>2, <3>3 DEF Arcs
      <3>6. <<w[k], f>> \in ActiveArcs(c, e)
        BY <1>1, <2>1, <3>4, <3>5
      <3> QED
        BY <3>6 DEF k
    <2> HIDE DEF S
    <2>6. {p \in ActiveArcs(c, e) : p[2] = f}
            = IF i \in Continued(w, n) THEN {<<w[i - 1], f>>} ELSE {}
      BY <2>4, <2>5
    <2> QED
      BY <2>6 DEF w, n, S
  <1> QED
    BY <1>2, <1>3

LEMMA StreaksExact ==
  ASSUME ValidInput, ShiftsAreUnique, NEW c \in Solutions, NEW e \in Participants,
         NEW withLeads \in BOOLEAN
  PROVE  /\ \A p \in Arcs(e) : Cardinality(ArcValues(c, e, p)) = 1
         /\ RunLengthValues(c, e) = {[f \in Possible(e) |-> RunAt(c, e, f, withLeads)]}
         /\ \A f \in Possible(e) : RunAt(c, e, f, withLeads) \in 0..Cardinality(Group(e, f))
  <1> DEFINE P == Possible(e)
             A == Assigned(c, e)
             arcs == ActiveArcs(c, e)
             incoming(f) == {p \in arcs : p[2] = f}
             present(f) == Value(c, e, f)
             starts(f) == StartValues(present(f), incoming(f)) = {1}
             streak == [f \in P |-> RunAt(c, e, f, withLeads)]
             S(f) == ShiftMates(c, e, f)
             w(f) == InOrder(S(f))
             n(f) == Cardinality(S(f))
             T(f) == Continued(w(f), n(f))
             r(f) == CountedRuns(T(f), n(f))
  <1>0. {0} # {1}
    <2>1. 0 \in {0} /\ 0 \notin {1}
      OBVIOUS
    <2> QED
      BY <2>1
  <1>1. e \in Employees /\ A \in SUBSET P /\ P \in SUBSET Flights /\ IsFiniteSet(P)
    BY AssignedIsPossible DEF Participants, Represented
  <1>2. ASSUME NEW p \in Arcs(e) PROVE Cardinality(ArcValues(c, e, p)) = 1
    <2>1. \E b : ArcValues(c, e, p) = {b}
      <3> DEFINE b == Bit(Adjacent({g \in Group(e, p[2]) : <<e, g>> \in c}, p[1], p[2]))
      <3>1. ArcValues(c, e, p) = {b}
        BY <1>1, ArcsExact
      <3> HIDE DEF b
      <3> QED
        BY <3>1
    <2> QED
      BY <2>1, FS_Singleton
  \* A flight that is worked, at its place i in its shift.
  <1>3. ASSUME NEW f \in A
        PROVE  /\ n(f) \in Nat /\ w(f) \in [1..n(f) -> S(f)] /\ S(f) \in SUBSET A
               /\ n(f) <= Cardinality(Group(e, f))
               /\ T(f) \in SUBSET (2..n(f))
               /\ r(f) \in [1..n(f) -> 1..n(f)] /\ Continues(T(f), n(f), r(f))
               /\ \E i \in 1..n(f) : w(f)[i] = f
    <2>1. S(f) \in SUBSET Flights /\ f \in S(f) /\ S(f) \in SUBSET A
          /\ S(f) \in SUBSET Group(e, f) /\ Group(e, f) \in SUBSET P
      <3>1. S(f) = {g \in Group(e, f) : <<e, g>> \in c}
        BY <1>1, ShiftMatesAreWorked
      <3>2. S(f) \in SUBSET Flights /\ f \in S(f) /\ S(f) \in SUBSET A
            /\ Group(e, f) \in SUBSET P
        BY <1>1, ShiftMatesAreWorked
      <3> HIDE DEF S, A, P
      <3> QED
        BY <3>1, <3>2
    <2>2. /\ n(f) \in Nat /\ w(f) \in [1..n(f) -> S(f)]
          /\ \E i \in 1..n(f) : w(f)[i] = f
      BY <2>1, ItineraryIsSorted
    <2>3. n(f) <= Cardinality(Group(e, f))
      <3>1. IsFiniteSet(Group(e, f))
        BY <1>1, <2>1, FS_Subset
      <3> QED
        BY <2>1, <3>1, FS_Subset
    <2>4. T(f) \in SUBSET (2..n(f))
      BY <2>2, ContinuedRange
    <2>5. r(f) \in [1..n(f) -> 1..n(f)] /\ Continues(T(f), n(f), r(f))
      <3> DEFINE t == T(f)
                 m == n(f)
      <3>1. m \in Nat /\ t \in SUBSET (2..m)
        BY <2>2, <2>4
      <3> HIDE DEF t, m
      <3>2. CountedRuns(t, m) \in [1..m -> 1..m] /\ Continues(t, m, CountedRuns(t, m))
        BY <3>1, RunsAreCounted
      <3> QED
        BY <3>2 DEF t, m
    <2> QED
      BY <2>1, <2>2, <2>3, <2>4, <2>5
  <1>4. ASSUME NEW f \in A, NEW i \in 1..n(f), w(f)[i] = f
        PROVE  /\ streak[f] = r(f)[i]
               /\ incoming(f) = IF i \in T(f) THEN {<<w(f)[i - 1], f>>} ELSE {}
    <2>1. RunAt(c, e, f, withLeads) = r(f)[i]
      BY <1>4, RunsAgree
    <2>2. incoming(f) = IF i \in T(f) THEN {<<w(f)[i - 1], f>>} ELSE {}
      BY <1>1, <1>4, IncomingArcs
    <2>3. f \in P
      BY <1>1
    <2> QED
      BY <2>1, <2>2, <2>3
  <1>5. ASSUME NEW f \in A, NEW i \in 1..n(f), w(f)[i] = f, i \in T(f)
        PROVE  /\ i - 1 \in 1..n(f) /\ w(f)[i - 1] \in A
               /\ streak[w(f)[i - 1]] = r(f)[i - 1]
               /\ streak[f] = streak[w(f)[i - 1]] + 1
    <2> DEFINE g == w(f)[i - 1]
    <2>1. i - 1 \in 1..n(f)
      BY <1>3, <1>5
    <2>2. g \in S(f) /\ g \in A
      BY <1>3, <2>1
    <2>3. S(g) = S(f)
      BY <1>1, <2>2, ShiftMatesAreWorked
    <2>4. streak[g] = r(f)[i - 1]
      <3>1. w(g) = w(f) /\ n(g) = n(f) /\ r(g) = r(f)
        BY <2>3
      <3>2. i - 1 \in 1..n(g) /\ w(g)[i - 1] = g
        BY <2>1, <3>1
      <3>3. streak[g] = r(g)[i - 1]
        <4> HIDE DEF streak, g, w, n, r, S
        <4> QED
          BY <1>4, <2>2, <3>2
      <3> QED
        BY <3>1, <3>3
    <2>5. r(f)[i] = r(f)[i - 1] + 1
      <3> HIDE DEF r, n, T
      <3> QED
        BY <1>3, <1>5 DEF Continues
    <2>6. streak[f] = r(f)[i]
      BY <1>4, <1>5
    <2> QED
      BY <2>1, <2>2, <2>4, <2>5, <2>6
  <1>6. ASSUME NEW f \in A, NEW i \in 1..n(f), w(f)[i] = f
        PROVE  /\ starts(f) <=> i \notin T(f)
               /\ i \notin T(f) => streak[f] = 1
    <2>1. present(f) = 1
      BY DEF Value, Bit, Assigned
    <2>2. CASE i \in T(f)
      <3>1. Cardinality(incoming(f)) = 1
        <4>1. \E p : incoming(f) = {p}
          BY <1>4, <1>6, <2>2
        <4> HIDE DEF incoming
        <4> QED
          BY <4>1, FS_Singleton
      <3>2. StartValues(present(f), incoming(f)) = {0}
        <4> HIDE DEF incoming, present
        <4> QED
          BY <2>1, <3>1 DEF StartValues
      <3>3. ~starts(f)
        <4> HIDE DEF incoming, present
        <4> QED
          BY <1>0, <3>2
      <3> HIDE DEF starts, T
      <3> QED
        BY <2>2, <3>3
    <2>3. CASE i \notin T(f)
      <3>1. Cardinality(incoming(f)) = 0
        <4>1. incoming(f) = {}
          BY <1>4, <1>6, <2>3
        <4> HIDE DEF incoming
        <4> QED
          BY <4>1, FS_EmptySet
      <3>2. StartValues(present(f), incoming(f)) = {1}
        <4> HIDE DEF incoming, present
        <4> QED
          BY <2>1, <3>1 DEF StartValues
      <3>3. r(f)[i] = 1
        <4> HIDE DEF r, n, T
        <4> QED
          BY <1>3, <1>6, <2>3 DEF Continues
      <3>4. streak[f] = r(f)[i]
        BY <1>4, <1>6
      <3> QED
        BY <2>3, <3>2, <3>3, <3>4
    <2> QED
      BY <2>2, <2>3
  <1>7. ASSUME NEW f \in P, f \notin A
        PROVE  /\ incoming(f) = {} /\ streak[f] = 0 /\ ~starts(f) /\ <<e, f>> \notin c
    <2>1. incoming(f) = {}
      BY <1>1, <1>7, IncomingArcs
    <2>2. <<e, f>> \notin c
      BY <1>1, <1>7 DEF Assigned
    <2>3. present(f) = 0 /\ streak[f] = 0
      BY <2>2 DEF Value, Bit, RunAt
    <2>4. StartValues(present(f), incoming(f)) = {0}
      <3>1. Cardinality(incoming(f)) = 0
        <4> HIDE DEF incoming
        <4> QED
          BY <2>1, FS_EmptySet
      <3> HIDE DEF incoming, present
      <3> QED
        BY <2>3, <3>1 DEF StartValues
    <2> HIDE DEF present, incoming
    <2>5. ~starts(f)
      BY <1>0, <2>4
    <2> QED
      BY <2>1, <2>2, <2>3, <2>5
  <1>8. ASSUME NEW f \in P
        PROVE  /\ streak[f] \in 0..Cardinality(Group(e, f))
               /\ Cardinality(Group(e, f)) \in Nat
               /\ Cardinality(Group(e, f)) <= Cardinality(P) /\ Cardinality(P) \in Nat
    <2>1. IsFiniteSet(Group(e, f)) /\ Cardinality(Group(e, f)) \in Nat
          /\ Cardinality(Group(e, f)) <= Cardinality(P) /\ Cardinality(P) \in Nat
      <3>1. Group(e, f) \in SUBSET P
        BY DEF Group
      <3> HIDE DEF P
      <3> QED
        BY <1>1, <3>1, FS_Subset, FS_CardinalityType
    <2>2. CASE f \in A
      <3>1. PICK i \in 1..n(f) : w(f)[i] = f
        BY <1>3, <2>2
      <3>2. streak[f] = r(f)[i]
        BY <1>4, <2>2, <3>1
      <3> HIDE DEF r, n, w, T, S, streak
      <3>3. r(f)[i] \in 1..n(f) /\ n(f) \in Nat /\ n(f) <= Cardinality(Group(e, f))
        BY <1>3, <2>2
      <3> QED
        BY <2>1, <3>2, <3>3
    <2>3. CASE f \notin A
      <3> HIDE DEF streak, incoming, starts
      <3>1. streak[f] = 0
        BY <1>7, <2>3
      <3> QED
        BY <2>1, <3>1
    <2> QED
      BY <2>1, <2>2, <2>3
  <1> DEFINE good(run) == \A f \in P :
                 /\ <<e, f>> \notin c => run[f] = 0
                 /\ starts(f) => run[f] = 1
                 /\ \A p \in incoming(f) : run[f] = run[p[1]] + 1
                 /\ run[f] <= Cardinality(Group(e, f))
  <1>9. RunLengthValues(c, e) = {run \in [P -> 0..Cardinality(P)] : good(run)}
    <2>1. RunLengthValues(c, e) = RunsAlong(c, e, arcs)
      BY DEF RunLengthValues
    <2>2. RunsAlong(c, e, arcs) = {run \in [P -> 0..Cardinality(P)] : good(run)}
      <3>1. \A run \in [P -> 0..Cardinality(P)] : DOMAIN run = P
        OBVIOUS
      <3> HIDE DEF arcs
      <3> QED
        BY <3>1 DEF RunsAlong
    <2> QED
      BY <2>1, <2>2
  <1>10. streak \in [P -> 0..Cardinality(P)]
    <2>1. \A f \in P : streak[f] \in 0..Cardinality(P)
      <3> HIDE DEF streak, P
      <3> QED
        BY <1>8
    <2>2. streak = [f \in P |-> streak[f]]
      OBVIOUS
    <2> HIDE DEF streak
    <2> QED
      BY <2>1, <2>2
  <1>11. good(streak)
    <2> SUFFICES ASSUME NEW f \in P
                 PROVE  /\ <<e, f>> \notin c => streak[f] = 0
                        /\ starts(f) => streak[f] = 1
                        /\ \A p \in incoming(f) : streak[f] = streak[p[1]] + 1
                        /\ streak[f] <= Cardinality(Group(e, f))
      OBVIOUS
    <2>1. streak[f] <= Cardinality(Group(e, f))
      <3> HIDE DEF streak
      <3> QED
        BY <1>8
    <2>2. CASE f \notin A
      <3> HIDE DEF streak, incoming, starts
      <3> QED
        BY <1>7, <2>1, <2>2
    <2>3. CASE f \in A
      <3>1. PICK i \in 1..n(f) : w(f)[i] = f
        BY <1>3, <2>3
      <3>2. <<e, f>> \in c
        BY <2>3 DEF Assigned
      <3>3. starts(f) => streak[f] = 1
        <4> HIDE DEF streak, starts, w, n, T
        <4> QED
          BY <1>6, <2>3, <3>1
      <3>4. ASSUME NEW p \in incoming(f) PROVE streak[f] = streak[p[1]] + 1
        <4>1. i \in T(f) /\ p = <<w(f)[i - 1], f>>
          <5> HIDE DEF incoming, streak, w, n, T
          <5> QED
            BY <1>4, <2>3, <3>1, <3>4
        <4>2. streak[f] = streak[w(f)[i - 1]] + 1
          <5> HIDE DEF incoming, streak, w, n, T, r
          <5> QED
            BY <1>5, <2>3, <3>1, <4>1
        <4> QED
          BY <4>1, <4>2
      <3> HIDE DEF streak, incoming, starts
      <3> QED
        BY <2>1, <3>2, <3>3, <3>4
    <2> QED
      BY <2>2, <2>3
  <1>12. ASSUME NEW run \in [P -> 0..Cardinality(P)], good(run) PROVE run = streak
    <2>1. ASSUME NEW f \in A PROVE run[f] = streak[f]
      <3> DEFINE q == [i \in 1..n(f) |-> run[w(f)[i]]]
      <3>1. ASSUME NEW i \in 1..n(f)
            PROVE  q[i] = IF i \in T(f) THEN q[i - 1] + 1 ELSE 1
        <4> DEFINE g == w(f)[i]
        <4>1. g \in S(f) /\ g \in A /\ g \in P /\ q[i] = run[g]
          BY <1>1, <1>3
        <4>2. S(g) = S(f)
          BY <1>1, <4>1, ShiftMatesAreWorked
        <4>3. w(g) = w(f) /\ n(g) = n(f) /\ T(g) = T(f)
          BY <4>2
        <4>4. i \in 1..n(g) /\ w(g)[i] = g
          BY <4>3
        <4>5. CASE i \notin T(f)
          <5>1. starts(g)
            <6> HIDE DEF starts, streak, w, n, T, g, S
            <6> QED
              BY <1>6, <4>1, <4>3, <4>4, <4>5
          <5>2. run[g] = 1
            <6> HIDE DEF starts, g, incoming, P
            <6> QED
              BY <1>12, <4>1, <5>1
          <5> QED
            BY <4>1, <4>5, <5>2
        <4>6. CASE i \in T(f)
          <5>1. incoming(g) = {<<w(f)[i - 1], g>>}
            <6> HIDE DEF incoming, streak, w, n, T, g, S, r
            <6> QED
              BY <1>4, <4>1, <4>3, <4>4, <4>6
          <5>2. run[g] = run[w(f)[i - 1]] + 1
            <6> DEFINE before == w(f)[i - 1]
            <6>1. <<before, g>> \in incoming(g)
              BY <5>1
            <6> HIDE DEF starts, g, incoming, P, before
            <6>2. run[g] = run[<<before, g>>[1]] + 1
              BY <1>12, <4>1, <6>1
            <6> QED
              BY <6>2 DEF before
          <5>3. i - 1 \in 1..n(f)
            <6> HIDE DEF T, n
            <6> QED
              BY <1>3, <4>6
          <5>4. q[i - 1] = run[w(f)[i - 1]]
            <6> HIDE DEF w, n
            <6> QED
              BY <5>3
          <5> QED
            BY <4>1, <4>6, <5>2, <5>4
        <4> QED
          BY <4>5, <4>6
      <3>2. Continues(T(f), n(f), q)
        <4> HIDE DEF q, T, n
        <4> QED
          BY <3>1 DEF Continues
      <3>3. \A i \in 1..n(f) : q[i] = r(f)[i]
        <4> DEFINE t == T(f)
                   m == n(f)
        <4>1. m \in Nat /\ t \in SUBSET (2..m) /\ Continues(t, m, q)
          <5> HIDE DEF q, T, n
          <5> QED
            BY <1>3, <3>2
        <4> HIDE DEF q, t, m
        <4>2. \A i \in 1..m : q[i] = CountedRuns(t, m)[i]
          BY <4>1, RunsAreDetermined
        <4> QED
          BY <4>2 DEF t, m
      <3>4. PICK i \in 1..n(f) : w(f)[i] = f
        BY <1>3
      <3>5. q[i] = run[f]
        <4> HIDE DEF w, n
        <4> QED
          BY <3>4
      <3>6. streak[f] = r(f)[i]
        BY <1>4, <3>4
      <3> HIDE DEF q, r, n, streak, w
      <3> QED
        BY <3>3, <3>5, <3>6
    <2>2. ASSUME NEW f \in P, f \notin A PROVE run[f] = streak[f]
      <3> HIDE DEF streak, incoming, starts
      <3> QED
        BY <1>7, <1>12, <2>2
    <2>3. \A f \in P : run[f] = streak[f]
      <3> HIDE DEF streak, P, A
      <3> QED
        BY <2>1, <2>2
    <2> HIDE DEF streak, P, good
    <2> QED
      BY <1>10, <2>3
  <1>13. RunLengthValues(c, e) = {streak}
    <2> HIDE DEF streak, good
    <2> QED
      BY <1>9, <1>10, <1>11, <1>12
  <1>14. \A f \in P : RunAt(c, e, f, withLeads) \in 0..Cardinality(Group(e, f))
    <2>1. \A f \in P : streak[f] = RunAt(c, e, f, withLeads)
      OBVIOUS
    <2> HIDE DEF streak, P
    <2> QED
      BY <1>8, <2>1
  <1> QED
    BY <1>2, <1>13, <1>14


(* Breaks and streaks: the indicators, the arcs between neighbours and the run
   lengths of the model are left exactly what scanning an itinerary gives, for
   every valid day and every solution (_add_break_model,
   _add_consecutive_streak_model, _derive_consecutive_streaks, _build_result). *)
THEOREM ScansExact == Spec => []ScansAgree
  <1>1. BuildOK => ScansAgree
    <2> SUFFICES ASSUME BuildOK, phase = "SOLUTION"
                 PROVE  BreaksAgree(crews) /\ StreaksAgree(crews)
      BY DEF ScansAgree
    <2>1. ValidInput /\ crews \in Solutions /\ leads = FALSE
      BY DEF BuildOK, ValidInput
    <2>2. ShiftsAreUnique
      BY OrdinaryShiftsAreUnique DEF BuildOK, ValidInput
    <2>3. BreaksAgree(crews)
      <3>1. Represented(leads) \subseteq Employees
        BY DEF Represented
      <3> QED
        BY <2>1, <3>1, BreaksExact DEF BreaksAgree
    <2>4. StreaksAgree(crews)
      <3>1. leads \in BOOLEAN
        BY <2>1
      <3>2. ASSUME NEW e \in Participants
            PROVE  /\ \A p \in Arcs(e) : Cardinality(ArcValues(crews, e, p)) = 1
                   /\ RunLengthValues(crews, e)
                        = {[f \in Possible(e) |-> RunAt(crews, e, f, leads)]}
        BY <2>1, <2>2, <3>1, StreaksExact
      <3> QED
        BY <3>2 DEF StreaksAgree
    <2> QED
      BY <2>3, <2>4
  <1> QED
    BY <1>1, BuildInvariant, PTL
====
