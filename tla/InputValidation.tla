---------------------------- MODULE InputValidation ----------------------------
(***************************************************************************)
(* validation.py: the issues of a configuration and of one operational     *)
(* day.  An issue is its code; paths and messages are left out, and so are *)
(* the checks of Python types (isinstance, time-zone awareness), which the *)
(* typed records of this model cannot fail.  Factors are hundredths.       *)
(***************************************************************************)
EXTENDS ScheduleRules

CONSTANT MaxSolverInteger   \* MAX_CP_SAT_INTEGER, 2^63 - 1 in the code
ASSUME SolverAssumption == MaxSolverInteger \in Nat

When(condition, code) == IF condition THEN {code} ELSE {}

PositiveSettings ==
    {"preparation", "offload", "departureWork", "minimumStaff", "normalStaff",
     "heavyStaff", "requiredBreak", "reset", "horizon", "scale"}

\* scaled_workload_factors: both factors at the configured scale.
Representable(hundredths) == (hundredths * config.scale) % 100 = 0
ScaledFactor(hundredths) == (hundredths * config.scale) \div 100
ExpressUnits == ScaledFactor(config.expressFactor)
ThreeUnits == ScaledFactor(config.threeFactor)

Larger(a, b) == IF a >= b THEN a ELSE b
MaximumAssignmentUnits ==
    Larger(config.scale, ExpressUnits) * Larger(config.scale, ThreeUnits)

FactorIssues ==
    When(config.expressFactor \notin 1..100, "INVALID_EXPRESS_WORKLOAD_FACTOR")
    \cup When(config.threeFactor < 100, "INVALID_THREE_PERSON_MULTIPLIER")
    \cup When(config.scale > 0 /\ config.expressFactor \in 1..100
                /\ ~Representable(config.expressFactor),
              "UNREPRESENTABLE_EXPRESS_WORKLOAD_FACTOR")
    \cup When(config.scale > 0 /\ config.threeFactor >= 100
                /\ ~Representable(config.threeFactor),
              "UNREPRESENTABLE_THREE_PERSON_WORKLOAD_MULTIPLIER")

ValidFactors ==
    /\ config.scale > 0
    /\ FactorIssues = {}
    /\ MaximumAssignmentUnits <= MaxSolverInteger

ValidTiming ==
    \A setting \in {"preparation", "offload", "departureWork"} : config[setting] > 0

ValidStaffing ==
    /\ config.minimumStaff > 0
    /\ config.minimumStaff <= config.normalStaff
    /\ config.normalStaff <= config.heavyStaff

ConfigIssues ==
    When(\E setting \in PositiveSettings : config[setting] <= 0,
         "INVALID_POSITIVE_INTEGER")
    \cup When(config.minimumStaff > config.normalStaff, "INVALID_NORMAL_STAFFING_LEVELS")
    \cup When(config.minimumStaff > config.heavyStaff, "INVALID_HEAVY_STAFFING_LEVELS")
    \cup When(config.heavyStaff < config.normalStaff, "INVALID_STAFFING_RELATIONSHIP")
    \cup When(config.expressThreshold < 0, "INVALID_EXPRESS_THRESHOLD")
    \cup FactorIssues
    \cup When(config.scale > 0 /\ FactorIssues = {} /\ ~ValidFactors,
              "WORKLOAD_INTEGER_RANGE_EXCEEDED")

----------------------------------------------------------------------------
\* Employees and shifts.

EmployeeName(e) == Normalized(day.employees[e].id)
Known(id) == \E e \in Employees : EmployeeName(e) = Normalized(id)

EmployeeIssues(e) ==
    When(EmployeeName(e) = "", "INVALID_EMPLOYEE_ID")
    \cup When(EmployeeName(e) # "" /\ \E d \in 1..(e - 1) : EmployeeName(d) = EmployeeName(e),
              "DUPLICATE_EMPLOYEE_ID")

ValidEmployees == {e \in Employees : EmployeeIssues(e) = {}}

ShiftIssues(s) ==
    When(~Known(day.shifts[s].employee), "UNKNOWN_SHIFT_EMPLOYEE")
    \cup When(ShiftLength(s) <= 0, "INVALID_EMPLOYEE_SHIFT")

ValidShifts == {s \in Shifts : ShiftIssues(s) = {}}

\* A duplicate (same bounds and role) overlaps too and is reported under its
\* own code; both refuse the day, and the model has one code for the two.
MutantCollides(s, r) == day.shifts[s] = day.shifts[r]
Collides(s, r) ==
    /\ Normalized(day.shifts[s].employee) = Normalized(day.shifts[r].employee)
    /\ Overlaps(day.shifts[s], day.shifts[r])

CollisionIssues ==
    UNION {When(\E r \in ValidShifts \ {s} : Collides(s, r), "OVERLAPPING_EMPLOYEE_SHIFTS") :
             s \in ValidShifts}

----------------------------------------------------------------------------
\* Flights.

Complete(flight, d) == flight[d].number >= 0 /\ flight[d].time # Absent
Empty(flight, d) == flight[d].number = Absent /\ flight[d].time = Absent
BothComplete(flight) == \A d \in Directions : Complete(flight, d)

SideIssues(f, d) ==
    LET side == day.flights[f][d]
    IN  When(side.number = Malformed, "MALFORMED_FLIGHT_NUMBER")
        \cup When(side.number = Absent /\ side.time # Absent, "TIME_WITHOUT_FLIGHT_NUMBER")
        \cup When(side.number # Absent /\ side.time = Absent, "FLIGHT_NUMBER_WITHOUT_TIME")
        \cup When(/\ Complete(day.flights[f], d)
                  /\ \E g \in 1..(f - 1) :
                        Complete(day.flights[g], d) /\ day.flights[g][d].number = side.number,
                  "DUPLICATE_FLIGHT_NUMBER")

TurnIssues(flight) ==
    When(flight.departure.time <= flight.arrival.time, "INVALID_TURN_TIMES")
    \cup When(IsExpress(flight.arrival.number) # IsExpress(flight.departure.number),
              "MIXED_TURN_SERVICE_CATEGORY")

Derivable(flight) ==
    /\ \E d \in Directions : Complete(flight, d)
    /\ \A d \in Directions : Complete(flight, d) \/ Empty(flight, d)
    /\ BothComplete(flight) => flight.departure.time > flight.arrival.time
    /\ ValidTiming

FlightIssues(f) ==
    LET flight == day.flights[f]
    IN  When(\A d \in Directions : Empty(flight, d), "MISSING_FLIGHT_SIDES")
        \cup (UNION {SideIssues(f, d) : d \in Directions})
        \cup (IF BothComplete(flight) THEN TurnIssues(flight) ELSE {})
        \cup When(Derivable(flight) /\ WorkWindow(flight).start >= WorkWindow(flight).end,
                  "INVALID_DERIVED_WORK_WINDOW")

ValidFlights == {f \in Flights : FlightIssues(f) = {}}

----------------------------------------------------------------------------
\* Fixed assignments.  A record enters the later checks when its employee and
\* its flight are found and no earlier record has the same pair.

FlightsLike(flight) == {f \in Flights : day.flights[f] = flight}
SamePair(a, b) ==
    /\ Normalized(day.fixed[a].employee) = Normalized(day.fixed[b].employee)
    /\ day.fixed[a].flight = day.fixed[b].flight

Resolved(a) == Known(day.fixed[a].employee) /\ FlightsLike(day.fixed[a].flight) # {}
Records ==
    {a \in DOMAIN day.fixed :
        Resolved(a) /\ \A b \in 1..(a - 1) : Resolved(b) => ~SamePair(a, b)}

FixedEmployee(a) ==
    CHOOSE e \in Employees :
        /\ EmployeeName(e) = Normalized(day.fixed[a].employee)
        /\ \A d \in 1..(e - 1) : EmployeeName(d) # EmployeeName(e)
FixedFlight(a) ==
    CHOOSE f \in FlightsLike(day.fixed[a].flight) :
        \A g \in FlightsLike(day.fixed[a].flight) : f <= g

Overstaffed ==
    \E f \in ValidFlights :
        Cardinality({a \in Records : FixedFlight(a) = f}) > Maximum(f)

\* The records whose eligibility and overlaps are calculated.
Comparable ==
    {a \in Records : FixedEmployee(a) \in ValidEmployees /\ FixedFlight(a) \in ValidFlights}

FixedIssues ==
    When(\E a \in DOMAIN day.fixed : ~Known(day.fixed[a].employee),
         "UNKNOWN_FIXED_ASSIGNMENT_EMPLOYEE")
    \cup When(\E a \in DOMAIN day.fixed : FlightsLike(day.fixed[a].flight) = {},
              "UNKNOWN_FIXED_ASSIGNMENT_FLIGHT")
    \cup When(\E a \in DOMAIN day.fixed : Resolved(a) /\ a \notin Records,
              "DUPLICATE_FIXED_ASSIGNMENT")
    \cup When(ValidStaffing /\ Overstaffed, "FIXED_ASSIGNMENTS_EXCEED_MAXIMUM_STAFFING")
    \cup (IF ValidTiming /\ config.expressThreshold >= 0
          THEN When(\E a \in Comparable :
                        Reason(FixedEmployee(a), FixedFlight(a), FALSE, {}) # "ELIGIBLE",
                    "ILLEGAL_FIXED_ASSIGNMENT")
               \cup When(\E a, b \in Comparable :
                            /\ a # b
                            /\ FixedEmployee(a) = FixedEmployee(b)
                            /\ Overlaps(Window(FixedFlight(a)), Window(FixedFlight(b))),
                         "OVERLAPPING_FIXED_ASSIGNMENTS")
          ELSE {})

\* _validate_workload_integer_bounds: the domains of the workload variables.
WorkloadBound == Len(day.flights) * MaximumAssignmentUnits
PairCount == (Len(day.employees) * (Len(day.employees) - 1)) \div 2

WorkloadIssues ==
    When(/\ ValidFactors
         /\ \/ WorkloadBound > MaxSolverInteger
            \/ PairCount * WorkloadBound > MaxSolverInteger,
         "WORKLOAD_INTEGER_RANGE_EXCEEDED")

DayIssues ==
    (UNION {EmployeeIssues(e) : e \in Employees})
    \cup (UNION {ShiftIssues(s) : s \in Shifts})
    \cup CollisionIssues
    \cup (UNION {FlightIssues(f) : f \in Flights})
    \cup FixedIssues
    \cup WorkloadIssues

\* validate_or_raise
Issues == ConfigIssues \cup DayIssues
=============================================================================
