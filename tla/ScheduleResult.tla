---------------------------- MODULE ScheduleResult ----------------------------
(***************************************************************************)
(* What the optimizer publishes: _build_result derives every figure of a   *)
(* schedule again from its crews, without the variables of the CP-SAT      *)
(* model, and asserts that the two agree; the adoption of the emergency    *)
(* pass, the readiness of the schedule and its warnings are decided on     *)
(* these figures.                                                          *)
(***************************************************************************)
EXTENDS SolverModel

----------------------------------------------------------------------------
\* Flights.

StaffCount(crews, f) == Cardinality({p \in crews : p[2] = f})
MeetsMinimum(crews, f) == StaffCount(crews, f) >= Minimum
MissingStaff(crews, f) == Highest({0, Minimum - StaffCount(crews, f)})
HasQualification(crews, f, q) == \E p \in crews : p[2] = f /\ q \in day.employees[p[1]].quals

----------------------------------------------------------------------------
\* Employees.

\* The flights of an employee in the order of work: each at its rank.
InOrder(flights) ==
    [i \in 1..Cardinality(flights) |->
        CHOOSE f \in flights : Cardinality({g \in flights : Precedes(g, f)}) = i - 1]
Itinerary(crews, e) == InOrder(Assigned(crews, e))

SpanInOneShift(e, f, g, withLeads) ==
    \E s \in ShiftsOf(e) :
        /\ day.employees[e].enabled
        /\ RoleAllowed(day.shifts[s].role, withLeads)
        /\ day.shifts[s].start <= Window(f).start
        /\ Window(g).end <= day.shifts[s].end

BreakStatus(crews, e, withLeads) ==
    LET worked == Itinerary(crews, e)
        rests(i) == /\ Gap(worked[i], worked[i + 1]) >= config.requiredBreak
                    /\ SpanInOneShift(e, worked[i], worked[i + 1], withLeads)
    IN  IF Len(worked) = 0 /\ \E s \in ShiftsOf(e) : day.shifts[s].role = "RAMP_LEAD"
        THEN "NOT_APPLICABLE"
        ELSE IF Len(worked) < 2 THEN "NOT_EVALUABLE"
        ELSE IF \E i \in 1..(Len(worked) - 1) : rests(i) THEN "SATISFIED" ELSE "UNSATISFIED"

\* _derive_consecutive_streaks: the run ending at each flight of one shift.
Runs(crews, e, shift, withLeads) ==
    LET worked == InOrder({f \in Assigned(crews, e) : ShiftOf(e, f, withLeads) = shift})
        run[i \in 1..Len(worked)] ==
            IF i = 1 \/ Gap(worked[i - 1], worked[i]) >= config.reset
            THEN 1 ELSE run[i - 1] + 1
    IN  [f \in Range(worked) |-> run[CHOOSE i \in 1..Len(worked) : worked[i] = f]]

RunAt(crews, e, f, withLeads) ==
    IF <<e, f>> \notin crews THEN 0
    ELSE Runs(crews, e, ShiftOf(e, f, withLeads), withLeads)[f]

AssignmentUnits(crews, f) ==
    (IF Express(f) THEN ExpressUnits ELSE config.scale)
        * (IF StaffCount(crews, f) = 3 THEN ThreeUnits ELSE config.scale)

Units(crews, e) == SumFunction([f \in Assigned(crews, e) |-> AssignmentUnits(crews, f)])

RetainedEmployees(crews, p) == {e \in Participants : {<<e, p[1]>>, <<e, p[2]>>} \subseteq crews}

----------------------------------------------------------------------------
\* The assertions of _build_result, by the part of the model they compare.

BreaksAgree(crews) ==
    \A e \in Represented(leads) :
        LET status == BreakStatus(crews, e, leads)
        IN  /\ EvaluableValues(crews, e) = {Bit(status \in {"SATISFIED", "UNSATISFIED"})}
            /\ AchievedValues(crews, e) = {Bit(status = "SATISFIED")}
            /\ UnsatisfiedValues(crews, e) = {Bit(status = "UNSATISFIED")}

StreaksAgree(crews) ==
    \A e \in Participants :
        /\ \A p \in Arcs(e) : Cardinality(ArcValues(crews, e, p)) = 1
        /\ RunLengthValues(crews, e) =
               {[f \in Possible(e) |-> RunAt(crews, e, f, leads)]}

StaffingAgrees(crews) ==
    \A f \in Flights :
        /\ MinimumMetValues(crews, f) = {Bit(MeetsMinimum(crews, f))}
        /\ PreferredMetValues(crews, f) = {Bit(StaffCount(crews, f) >= Preferred(f))}
        /\ PreferredShortfall(crews, f) = Highest({0, Preferred(f) - StaffCount(crews, f)})
        /\ EqualValues(Staff(crews, f), 3) = {Bit(StaffCount(crews, f) = 3)}
        /\ \A q \in Qualifications :
              LET met == MeetsMinimum(crews, f)
                  covered == HasQualification(crews, f, q)
              IN  /\ CoveredValues(crews, f, q) = {Bit(covered)}
                  /\ CoverageValues(crews, f, q) = {Bit(met /\ covered)}
                  /\ PartialValues(crews, f, q) = {Bit(~met /\ covered)}

WorkloadsAgree(crews) ==
    \A e \in Participants :
        /\ Workload(crews, e) = Units(crews, e)
        /\ Units(crews, e) <= WorkloadBound

ContinuityAgrees(crews) ==
    Retained(crews) =
        SumFunction([p \in ContinuityPairs |-> Cardinality(RetainedEmployees(crews, p))])

\* What building the model asserts: every lookup by identifier succeeds, and
\* every flight a participant may work lies in exactly one eligible shift.
LookupsSucceed ==
    \A a \in DOMAIN day.fixed :
        \E e \in Employees : Folded(day.employees[e].id) = Folded(day.fixed[a].employee)
ShiftsAreUnique == \A e \in Participants : \A f \in Possible(e) : ShiftIsUnique(e, f, FALSE)
MinutesArePositive == \A e \in Participants : ShiftMinutes(e, FALSE) > 0
BuildRaises == ~(LookupsSucceed /\ ShiftsAreUnique /\ MinutesArePositive)

----------------------------------------------------------------------------
\* Needs, the critical score and the reasons of emergency leads.

Lacks(crews, f) ==
    (IF MeetsMinimum(crews, f) THEN {} ELSE {"MINIMUM"})
    \cup {q \in Qualifications :
            /\ NeedsQualifications(f)
            /\ MeetsMinimum(crews, f)
            /\ ~HasQualification(crews, f, q)}
CriticalNeeds(crews) == {f \in Flights : Lacks(crews, f) # {}}

\* _unresolved_flight_needs also counts what a crew below minimum lacks.
UnresolvedNeeds(crews) ==
    {f \in Flights :
        \/ ~MeetsMinimum(crews, f)
        \/ NeedsQualifications(f) /\ \E q \in Qualifications : ~HasQualification(crews, f, q)}

UnsatisfiedBreaks(crews, withLeads) ==
    {e \in Represented(withLeads) : BreakStatus(crews, e, withLeads) = "UNSATISFIED"}

CriticalScore(crews, withLeads) ==
    LET required == {f \in Flights : NeedsQualifications(f) /\ MeetsMinimum(crews, f)}
        covers(f) == {q \in Qualifications : HasQualification(crews, f, q)}
    IN  << Cardinality({f \in Flights : MeetsMinimum(crews, f)}),
           Cardinality({f \in required : covers(f) = Qualifications}),
           SumFunction([f \in required |-> Cardinality(covers(f))]),
           -SumFunction([f \in Flights |-> MissingStaff(crews, f)]),
           -Highest({MissingStaff(crews, f) : f \in Flights}),
           -Cardinality(UnsatisfiedBreaks(crews, withLeads)) >>

\* Python's order of tuples.
Below(a, b) ==
    \E i \in DOMAIN a : a[i] < b[i] /\ \A j \in 1..(i - 1) : a[j] = b[j]

LeadAssignments(crews) == {p \in crews : UsesLeadShift(p[1], p[2])}

\* _derive_emergency_lead_assignments
LeadReasons(crews, ordinary, e, f) ==
    (IF ~MeetsMinimum(ordinary, f) /\ StaffCount(crews, f) <= Minimum
     THEN {"MINIMUM_STAFFING"} ELSE {})
    \cup {q \in day.employees[e].quals :
            /\ MeetsMinimum(crews, f)
            /\ NeedsQualifications(f)
            /\ ~(MeetsMinimum(ordinary, f) /\ HasQualification(ordinary, f, q))
            /\ ~HasQualification(crews \ {<<e, f>>}, f, q)}

ReportedLeads(crews, ordinary) ==
    {p \in LeadAssignments(crews) : LeadReasons(crews, ordinary, p[1], p[2]) # {}}
=============================================================================
