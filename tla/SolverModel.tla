----------------------------- MODULE SolverModel -----------------------------
(***************************************************************************)
(* The model the optimizer hands to CP-SAT for one pass (_build_model).    *)
(*                                                                         *)
(* A decision is a candidate pair <<employee, flight>>; "crews" is a set of*)
(* pairs, the fixed ones and the decisions taken.  Every other variable of *)
(* the CP-SAT model is tied to the decisions by linear constraints: the    *)
(* operators named ...Values are the set of values those constraints leave *)
(* to the variable, and the model is exact when it is a singleton.         *)
(***************************************************************************)
EXTENDS InputValidation, FiniteSetsExt, SequencesExt

VARIABLES
    leads,        \* include_leads: this is the emergency pass
    candidates    \* the pairs that have a decision variable

The(S) == CHOOSE value \in S : TRUE
Bit(condition) == IF condition THEN 1 ELSE 0
Highest(S) == IF S = {} THEN 0 ELSE Max(S)
Lowest(S) == IF S = {} THEN 0 ELSE Min(S)
Distance(a, b) == IF a >= b THEN a - b ELSE b - a
OrderedPairs(S) == {p \in S \X S : p[1] < p[2]}
PairDistances(v) ==
    SumFunction([p \in OrderedPairs(DOMAIN v) |-> Distance(v[p[1]], v[p[2]])])
Spread(v) == Highest(Range(v)) - Lowest(Range(v))

----------------------------------------------------------------------------
\* Linear encodings of the Boolean indicators.

AndValues(a, b) == {i \in 0..1 : i <= a /\ i <= b /\ i >= a + b - 1}
AnyValues(total) == {i \in 0..1 : (i = 1 => total >= 1) /\ (i = 0 => total = 0)}
ThresholdValues(value, threshold) ==
    {i \in 0..1 : (i = 1 => value >= threshold) /\ (i = 0 => value <= threshold - 1)}
EqualValues(value, target) ==
    {i \in 0..1 : (i = 1 => value = target) /\ (i = 0 => value # target)}
MutantBelowMinimumValues(met, covered) == {i \in 0..1 : i <= covered /\ i + met <= 1}
BelowMinimumValues(met, covered) ==
    {i \in 0..1 : i <= covered /\ i + met <= 1 /\ i >= covered - met}
MutantGapValues(earlier, later, between) ==
    {i \in 0..1 : i <= earlier /\ i <= later /\ i >= earlier + later - 1}
GapValues(earlier, later, between) ==
    {i \in 0..1 :
        /\ i <= earlier /\ i <= later
        /\ i = 1 => between = 0
        /\ i >= earlier + later - 1 - between}

----------------------------------------------------------------------------
\* Decisions, crews and staffing.

LeadDecisions == {p \in candidates : UsesLeadShift(p[1], p[2])}
Possible(e) == {f \in Flights : <<e, f>> \in candidates \/ FixedTo(e, day.flights[f])}
Assigned(crews, e) == {f \in Flights : <<e, f>> \in crews}
Crew(crews, f) == {e \in Employees : <<e, f>> \in crews}
Staff(crews, f) == Cardinality(Crew(crews, f))
Value(crews, e, f) == Bit(<<e, f>> \in crews)

Qualified(S, q) == {e \in S : q \in day.employees[e].quals}

MinimumMetValues(crews, f) == ThresholdValues(Staff(crews, f), Minimum)
PreferredMetValues(crews, f) == ThresholdValues(Staff(crews, f), Preferred(f))
CoveredValues(crews, f, q) == AnyValues(Cardinality(Qualified(Crew(crews, f), q)))

MinimumMet(crews, f) == The(MinimumMetValues(crews, f))
PreferredMet(crews, f) == The(PreferredMetValues(crews, f))
Covered(crews, f, q) == The(CoveredValues(crews, f, q))
Shortfall(crews, f) == Highest({Minimum - Staff(crews, f), 0})
PreferredShortfall(crews, f) == Preferred(f) - Staff(crews, f)

\* Push and close-out coverage count only from the minimum crew on; below it
\* they are the partial coverage of a later stage.
CompliantValues(crews, f) ==
    AndValues(MinimumMet(crews, f),
              The(AndValues(Covered(crews, f, "PUSH"), Covered(crews, f, "CLOSE_OUT"))))
CoverageValues(crews, f, q) == AndValues(MinimumMet(crews, f), Covered(crews, f, q))
PartialValues(crews, f, q) == BelowMinimumValues(MinimumMet(crews, f), Covered(crews, f, q))

Requirements == {f \in Flights : NeedsQualifications(f)} \X Qualifications

----------------------------------------------------------------------------
\* Between-assignment breaks.

MutantBreakGaps(e) ==
    {p \in Possible(e) \X Possible(e) :
        /\ Precedes(p[1], p[2])
        /\ Gap(p[1], p[2]) >= config.requiredBreak
        /\ EligibleShifts(e, [start |-> Window(p[1]).start, end |-> Window(p[2]).end],
                          FALSE) # {}}
BreakGaps(e) ==
    {p \in Possible(e) \X Possible(e) :
        /\ Precedes(p[1], p[2])
        /\ Gap(p[1], p[2]) >= config.requiredBreak
        /\ EligibleShifts(e, [start |-> Window(p[1]).start, end |-> Window(p[2]).end],
                          leads) # {}}

\* The assignments of "among" that lie strictly between two flights, as the
\* difference of two prefix counts.
Between(crews, e, among, p) ==
    Cardinality({f \in among : Precedes(p[1], f) /\ Precedes(f, p[2]) /\ <<e, f>> \in crews})

BreakGapValues(crews, e, p) ==
    GapValues(Value(crews, e, p[1]), Value(crews, e, p[2]),
              Between(crews, e, Possible(e), p))

EvaluableValues(crews, e) == ThresholdValues(Cardinality(Assigned(crews, e)), 2)
AchievedValues(crews, e) ==
    AnyValues(SumFunction([p \in BreakGaps(e) |-> The(BreakGapValues(crews, e, p))]))
UnsatisfiedValues(crews, e) ==
    LET evaluable == The(EvaluableValues(crews, e))
        achieved == The(AchievedValues(crews, e))
    IN  {i \in 0..1 : i <= evaluable /\ i + achieved <= 1 /\ i >= evaluable - achieved}

----------------------------------------------------------------------------
\* Fairness: the participants are the employees of the ordinary roles that
\* have a candidate or a fixed assignment, in both passes.

MutantParticipants == {e \in Represented(leads) : Possible(e) # {}}
Participants == {e \in Represented(FALSE) : Possible(e) # {}}
Count(crews, e) == Cardinality(Assigned(crews, e))
TotalCount(crews) == SumFunction([e \in Participants |-> Count(crews, e)])

AllowedShifts(e, withLeads) ==
    {s \in ShiftsOf(e) : RoleAllowed(day.shifts[s].role, withLeads)}
ShiftMinutes(e, withLeads) ==
    SumFunction([s \in AllowedShifts(e, withLeads) |-> ShiftLength(s)])
TotalShiftMinutes == SumFunction([e \in Participants |-> ShiftMinutes(e, FALSE)])

Deviation(crews, e) ==
    Distance(Count(crews, e) * TotalShiftMinutes, TotalCount(crews) * ShiftMinutes(e, FALSE))

----------------------------------------------------------------------------
\* Consecutive streaks, per shift.  _eligible_shift_index_for_assignment
\* asserts that exactly one eligible shift contains the window; the model of
\* the streaks asks for it without leads, whatever the pass.

ShiftIsUnique(e, f, withLeads) == Cardinality(EligibleShifts(e, Window(f), withLeads)) = 1
ShiftOf(e, f, withLeads) == The(EligibleShifts(e, Window(f), withLeads))

Group(e, f) == {g \in Possible(e) : ShiftOf(e, g, FALSE) = ShiftOf(e, f, FALSE)}
Arcs(e) ==
    {p \in Possible(e) \X Possible(e) :
        /\ p[1] \in Group(e, p[2])
        /\ Precedes(p[1], p[2])
        /\ Gap(p[1], p[2]) < config.reset}
ArcValues(crews, e, p) ==
    GapValues(Value(crews, e, p[1]), Value(crews, e, p[2]),
              Between(crews, e, Group(e, p[2]), p))

ActiveArcs(crews, e) == {p \in Arcs(e) : The(ArcValues(crews, e, p)) = 1}
StartValues(present, incoming) == {i \in 0..1 : i + Cardinality(incoming) = present}

RunsAlong(crews, e, arcs) ==
    {run \in [Possible(e) -> 0..Cardinality(Possible(e))] :
        \A f \in DOMAIN run :
            LET incoming == {p \in arcs : p[2] = f}
            IN  /\ <<e, f>> \notin crews => run[f] = 0
                /\ StartValues(Value(crews, e, f), incoming) = {1} => run[f] = 1
                /\ \A p \in incoming : run[f] = run[p[1]] + 1
                /\ run[f] <= Cardinality(Group(e, f))}

RunLengthValues(crews, e) == UNION {RunsAlong(crews, e, arcs) : arcs \in {ActiveArcs(crews, e)}}

LongestStreak(crews, e) ==
    LET run == The(RunLengthValues(crews, e))
    IN  Highest({run[f] : f \in Possible(e)})

----------------------------------------------------------------------------
\* Adjusted workload: category units, and an increment for a crew of three.

BaseUnits(f) == (IF Express(f) THEN ExpressUnits ELSE config.scale) * config.scale
ThreeUnitsOf(f) == (IF Express(f) THEN ExpressUnits ELSE config.scale) * ThreeUnits

Contribution(crews, e, f) ==
    LET three == The(EqualValues(Staff(crews, f), 3))
        assigned == Value(crews, e, f)
    IN  BaseUnits(f) * assigned
        + (ThreeUnitsOf(f) - BaseUnits(f)) * The(AndValues(assigned, three))
Workload(crews, e) == SumFunction([f \in Possible(e) |-> Contribution(crews, e, f)])

----------------------------------------------------------------------------
\* Continuity: the loop over the later flights stops at the first one beyond
\* the horizon.

ContinuityPairs ==
    {p \in Flights \X Flights :
        /\ Precedes(p[1], p[2])
        /\ Gap(p[1], p[2]) >= 0
        /\ \A f \in Flights :
              Precedes(p[1], f) /\ (f = p[2] \/ Precedes(f, p[2]))
                  => Gap(p[1], f) <= config.horizon}

Retentions ==
    {t \in ContinuityPairs \X Participants :
        t[1][1] \in Possible(t[2]) /\ t[1][2] \in Possible(t[2])}
Retained(crews) ==
    SumFunction([t \in Retentions |->
        The(AndValues(Value(crews, t[2], t[1][1]), Value(crews, t[2], t[1][2])))])

----------------------------------------------------------------------------
\* The hard constraints, and the objective stages in order.

OverlapsRespected(chosen) ==
    \A p, q \in chosen :
        p[1] = q[1] /\ p[2] # q[2] => ~Overlaps(Window(p[2]), Window(q[2]))

StaffWithinMaximum(chosen) ==
    \A f \in Flights : Staff(chosen \cup Fixed, f) <= Maximum(f)

\* _constrain_emergency_lead_value
LeadHasValue(crews, e, f) ==
    \/ Staff(crews, f) <= Minimum
    \/ /\ NeedsQualifications(f)
       /\ \E q \in day.employees[e].quals :
             /\ MinimumMet(crews, f) = 1
             /\ Qualified(Crew(crews, f) \ {e}, q) = {}

Solves(chosen) ==
    /\ OverlapsRespected(chosen)
    /\ StaffWithinMaximum(chosen)
    /\ \A p \in chosen \cap LeadDecisions : LeadHasValue(chosen \cup Fixed, p[1], p[2])

Solutions == {chosen \cup Fixed : chosen \in {c \in SUBSET candidates : Solves(c)}}

Maximized ==
    {"minimum_covered_flights", "minimum_staffed_qualification_compliant_flights",
     "minimum_staffed_individual_qualification_coverage", "preferred_staffed_flights",
     "partial_crew_individual_qualification_coverage", "total_continuity_retention"}

CriticalStages ==
    <<"minimum_covered_flights", "minimum_staffed_qualification_compliant_flights",
      "minimum_staffed_individual_qualification_coverage", "total_minimum_shortfall",
      "largest_minimum_shortfall", "known_unsatisfied_required_breaks">>

LaterStages ==
    <<"preferred_staffed_flights", "total_preferred_shortfall",
      "partial_crew_individual_qualification_coverage", "raw_flight_count_spread",
      "total_pairwise_flight_count_difference", "maximum_consecutive_flight_streak",
      "total_employee_longest_streaks", "total_shift_adjusted_flight_count_deviation",
      "adjusted_workload_spread", "total_pairwise_adjusted_workload_difference",
      "total_continuity_retention">>

LeadStage == "total_emergency_lead_assignments"
StagesOf(withLeads) ==
    CriticalStages \o (IF withLeads THEN <<LeadStage>> ELSE <<>>) \o LaterStages

----------------------------------------------------------------------------
\* The value of each stage.

MinimumCovered(crews) == SumFunction([f \in Flights |-> MinimumMet(crews, f)])
CompliantFlights(crews) ==
    SumFunction([f \in {f \in Flights : NeedsQualifications(f)} |-> The(CompliantValues(crews, f))])
StaffedCoverage(crews) ==
    SumFunction([r \in Requirements |-> The(CoverageValues(crews, r[1], r[2]))])
TotalShortfall(crews) == SumFunction([f \in Flights |-> Shortfall(crews, f)])
LargestShortfall(crews) == Highest({Shortfall(crews, f) : f \in Flights})
KnownUnsatisfied(crews) ==
    SumFunction([e \in Represented(leads) |-> The(UnsatisfiedValues(crews, e))])
TotalLeads(crews) == Cardinality(crews \cap LeadDecisions)

PreferredStaffed(crews) == SumFunction([f \in Flights |-> PreferredMet(crews, f)])
TotalPreferredShortfall(crews) == SumFunction([f \in Flights |-> PreferredShortfall(crews, f)])
PartialCoverage(crews) ==
    SumFunction([r \in Requirements |-> The(PartialValues(crews, r[1], r[2]))])

Counts(crews) == [e \in Participants |-> Count(crews, e)]
Streaks(crews) == [e \in Participants |-> LongestStreak(crews, e)]
Deviations(crews) == [e \in Participants |-> Deviation(crews, e)]
Workloads(crews) == [e \in Participants |-> Workload(crews, e)]

Objective(crews, name) ==
    CASE name = "minimum_covered_flights" -> MinimumCovered(crews)
      [] name = "minimum_staffed_qualification_compliant_flights" -> CompliantFlights(crews)
      [] name = "minimum_staffed_individual_qualification_coverage" -> StaffedCoverage(crews)
      [] name = "total_minimum_shortfall" -> TotalShortfall(crews)
      [] name = "largest_minimum_shortfall" -> LargestShortfall(crews)
      [] name = "known_unsatisfied_required_breaks" -> KnownUnsatisfied(crews)
      [] name = LeadStage -> TotalLeads(crews)
      [] name = "preferred_staffed_flights" -> PreferredStaffed(crews)
      [] name = "total_preferred_shortfall" -> TotalPreferredShortfall(crews)
      [] name = "partial_crew_individual_qualification_coverage" -> PartialCoverage(crews)
      [] name = "raw_flight_count_spread" -> Spread(Counts(crews))
      [] name = "total_pairwise_flight_count_difference" -> PairDistances(Counts(crews))
      [] name = "maximum_consecutive_flight_streak" -> Highest(Range(Streaks(crews)))
      [] name = "total_employee_longest_streaks" -> SumFunction(Streaks(crews))
      [] name = "total_shift_adjusted_flight_count_deviation" -> SumFunction(Deviations(crews))
      [] name = "adjusted_workload_spread" -> Spread(Workloads(crews))
      [] name = "total_pairwise_adjusted_workload_difference" -> PairDistances(Workloads(crews))
      [] name = "total_continuity_retention" -> Retained(crews)
=============================================================================
