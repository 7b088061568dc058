----------------------------- MODULE ScheduleRules -----------------------------
(***************************************************************************)
(* The rules of one operational day, as the optimizer package states them: *)
(* half-open work windows, staffing levels, the roles that may work, which *)
(* shift contains a window and which employee may be given which flight.   *)
(*                                                                         *)
(* Time is a number of time units (the instances use ten minutes).  Flight *)
(* numbers, employee names and qualifications keep only what the rules     *)
(* compare.  An employee identifier is a pair <<name, spacing>>: the two   *)
(* conversions of the code, strip/casefold and split/join/casefold, differ *)
(* only in whether they keep the white space inside a name.                *)
(***************************************************************************)
EXTENDS Integers, FiniteSets, Sequences

VARIABLES
    day,       \* the OperationalDay: employees, shifts, flights, fixed
    config     \* the OptimizerConfig

Absent == -1
Malformed == -2
Directions == {"arrival", "departure"}

Qualifications == {"PUSH", "CLOSE_OUT"}
Roles ==
    {"RAMP_AGENT", "RAMP_LEAD", "POSSIBLE_RAMP_SUPPORT", "TRAINEE", "NON_RAMP", "UNKNOWN"}
Identifiers == STRING \X Nat
Sides == [number : Nat \cup {Absent, Malformed}, time : Nat \cup {Absent}]
FlightRecords == [arrival : Sides, departure : Sides, heavy : BOOLEAN]
EmployeeRecords == [id : Identifiers, enabled : BOOLEAN, quals : SUBSET Qualifications]
ShiftRecords == [employee : Identifiers, start : Int, end : Int, role : Roles]
AssignmentRecords == [employee : Identifiers, flight : FlightRecords]
OperationalDays ==
    [employees : Seq(EmployeeRecords), shifts : Seq(ShiftRecords),
     flights : Seq(FlightRecords), fixed : Seq(AssignmentRecords)]

Configurations ==
    [preparation : Int, offload : Int, departureWork : Int,
     minimumStaff : Int, normalStaff : Int, heavyStaff : Int,
     requiredBreak : Int, reset : Int, horizon : Int,
     expressThreshold : Int, expressFactor : Int, threeFactor : Int, scale : Int,
     allowLeads : BOOLEAN, allowTrainees : BOOLEAN, allowSupport : BOOLEAN]

Employees == DOMAIN day.employees
Shifts == DOMAIN day.shifts
Flights == DOMAIN day.flights

Overlaps(first, second) ==
    /\ first.start < second.end
    /\ second.start < first.end

----------------------------------------------------------------------------
\* Flights: sides, work windows, service category, staffing levels.

Supplied(flight, direction) == flight[direction].number # Absent

FlightType(flight) ==
    IF \A d \in Directions : Supplied(flight, d) THEN "TURN"
    ELSE IF Supplied(flight, "arrival") THEN "ARRIVAL_ONLY" ELSE "DEPARTURE_ONLY"

WorkWindow(flight) ==
    LET arrival == flight.arrival.time
        departure == flight.departure.time
    IN  CASE FlightType(flight) = "ARRIVAL_ONLY" ->
                [start |-> arrival - config.preparation, end |-> arrival + config.offload]
          [] FlightType(flight) = "DEPARTURE_ONLY" ->
                [start |-> departure - config.departureWork, end |-> departure]
          [] OTHER -> [start |-> arrival - config.preparation, end |-> departure]

Window(f) == WorkWindow(day.flights[f])
Gap(f, g) == Window(g).start - Window(f).end

IsExpress(number) == number > config.expressThreshold
Express(f) ==
    \E d \in Directions :
        Supplied(day.flights[f], d) /\ IsExpress(day.flights[f][d].number)

NeedsQualifications(f) == FlightType(day.flights[f]) # "ARRIVAL_ONLY"

\* The order of work: by start, then end, then position in the day.
Precedes(f, g) ==
    LET a == Window(f)
        b == Window(g)
    IN  \/ a.start < b.start
        \/ a.start = b.start /\ a.end < b.end
        \/ a = b /\ f < g

MaximumStaff(flight) == IF flight.heavy THEN config.heavyStaff ELSE config.normalStaff
Minimum == config.minimumStaff
Preferred(f) == MaximumStaff(day.flights[f])
Maximum(f) == MaximumStaff(day.flights[f])

----------------------------------------------------------------------------
\* Identifiers, roles and shifts.

Folded(id) == id
Normalized(id) == id[1]

ShiftsOf(e) ==
    {s \in Shifts : Folded(day.shifts[s].employee) = Folded(day.employees[e].id)}

RoleAllowed(role, leads) ==
    \/ role = "RAMP_AGENT"
    \/ role = "RAMP_LEAD" /\ leads
    \/ role = "TRAINEE" /\ config.allowTrainees
    \/ role = "POSSIBLE_RAMP_SUPPORT" /\ config.allowSupport

ShiftContains(s, window) ==
    day.shifts[s].start <= window.start /\ window.end <= day.shifts[s].end

EligibleShifts(e, window, leads) ==
    {s \in ShiftsOf(e) :
        /\ day.employees[e].enabled
        /\ window.start < window.end
        /\ RoleAllowed(day.shifts[s].role, leads)
        /\ ShiftContains(s, window)}

Represented(leads) ==
    {e \in Employees :
        /\ day.employees[e].enabled
        /\ \E s \in ShiftsOf(e) : RoleAllowed(day.shifts[s].role, leads)}

ShiftLength(s) == day.shifts[s].end - day.shifts[s].start

UsesLeadShift(e, f) ==
    \E s \in ShiftsOf(e) : day.shifts[s].role = "RAMP_LEAD" /\ ShiftContains(s, Window(f))

----------------------------------------------------------------------------
\* Fixed assignments, eligibility and candidates.

FixedTo(e, flight) ==
    \E a \in DOMAIN day.fixed :
        /\ Folded(day.fixed[a].employee) = Folded(day.employees[e].id)
        /\ day.fixed[a].flight = flight

Fixed == {p \in Employees \X Flights : FixedTo(p[1], day.flights[p[2]])}

MutantReason(e, f, leads, fixed) ==
    IF ~day.employees[e].enabled THEN "EMPLOYEE_DISABLED"
    ELSE IF EligibleShifts(e, Window(f), leads) = {} THEN "OUTSIDE_SHIFT" ELSE "ELIGIBLE"

\* assess_employee_flight_eligibility: the first reason that applies, in the
\* order of the code.
Reason(e, f, leads, fixed) ==
    IF ~day.employees[e].enabled THEN "EMPLOYEE_DISABLED"
    ELSE IF ShiftsOf(e) = {} THEN "NO_EMPLOYEE_SHIFT"
    ELSE IF \A s \in ShiftsOf(e) : ~RoleAllowed(day.shifts[s].role, leads)
         THEN "INELIGIBLE_OPERATIONAL_ROLE"
    ELSE IF EligibleShifts(e, Window(f), leads) = {} THEN "OUTSIDE_SHIFT"
    ELSE IF \E a \in fixed :
              /\ a.employee = Folded(day.employees[e].id)
              /\ a.flight # day.flights[f]
              /\ Overlaps(Window(f), WorkWindow(a.flight))
         THEN "OVERLAPS_FIXED_ASSIGNMENT" ELSE "ELIGIBLE"

FixedRecords ==
    {[day.fixed[a] EXCEPT !.employee = Folded(@)] : a \in DOMAIN day.fixed}

LegalCandidates(leads) ==
    {p \in Employees \X Flights :
        /\ Reason(p[1], p[2], leads, FixedRecords) = "ELIGIBLE"
        /\ ~FixedTo(p[1], day.flights[p[2]])}
=============================================================================
