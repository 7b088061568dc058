------------------------------ MODULE PassProofs ------------------------------
(***************************************************************************)
(* Theorems about the two passes of the optimizer: what they record, keep, *)
(* adopt and publish, for every day, configuration and end of the budget.  *)
(***************************************************************************)
EXTENDS OptimizerPasses, ScheduleProofs

----------------------------------------------------------------------------
\* The objective stages.

\* A stage has the same value in both states of a step that keeps the model.
LEMMA ObjectiveKept ==
  ASSUME SameModel, NEW c, NEW name PROVE Objective(c, name)' = Objective(c, name)
  <1> USE DEF SameModel, SameInput, Flights, Employees, Staff, Crew, Directions, Supplied
  <1>1. MinimumCovered(c)' = MinimumCovered(c)
    BY DEF MinimumCovered, MinimumMet, MinimumMetValues, Minimum
  <1>2. CompliantFlights(c)' = CompliantFlights(c)
    BY DEF CompliantFlights, NeedsQualifications, CompliantValues, FlightType, MinimumMet,
       Covered, MinimumMetValues, CoveredValues, Minimum, Qualified
  <1>3. StaffedCoverage(c)' = StaffedCoverage(c)
    BY DEF StaffedCoverage, Requirements, CoverageValues, NeedsQualifications, MinimumMet,
       Covered, FlightType, MinimumMetValues, CoveredValues, Minimum, Qualified
  <1>4. TotalShortfall(c)' = TotalShortfall(c)
    BY DEF TotalShortfall, Shortfall, Minimum
  <1>5. LargestShortfall(c)' = LargestShortfall(c)
    BY DEF LargestShortfall, Shortfall, Minimum
  <1>6. KnownUnsatisfied(c)' = KnownUnsatisfied(c)
    BY DEF KnownUnsatisfied, Represented, UnsatisfiedValues, ShiftsOf, RoleAllowed,
       EvaluableValues, AchievedValues, Shifts, Folded, Assigned, BreakGaps, BreakGapValues,
       Possible, Precedes, Gap, EligibleShifts, Window, Value, Between, FixedTo,
       ShiftContains, WorkWindow, FlightType
  <1>7. TotalLeads(c)' = TotalLeads(c)
    BY DEF TotalLeads, LeadDecisions, UsesLeadShift, ShiftsOf, ShiftContains, Window,
       Shifts, Folded, WorkWindow, FlightType
  <1>8. PreferredStaffed(c)' = PreferredStaffed(c)
    BY DEF PreferredStaffed, PreferredMet, PreferredMetValues, Preferred, MaximumStaff
  <1>9. TotalPreferredShortfall(c)' = TotalPreferredShortfall(c)
    BY DEF TotalPreferredShortfall, PreferredShortfall, Preferred, MaximumStaff
  <1>10. PartialCoverage(c)' = PartialCoverage(c)
    BY DEF PartialCoverage, Requirements, PartialValues, NeedsQualifications, MinimumMet,
       Covered, FlightType, MinimumMetValues, CoveredValues, Minimum, Qualified
  <1>11. Counts(c)' = Counts(c)
    BY DEF Counts, Participants, Count, Represented, Possible, Assigned, ShiftsOf,
       RoleAllowed, FixedTo, Shifts, Folded
  <1>12. Streaks(c)' = Streaks(c)
    BY DEF Streaks, Participants, LongestStreak, Represented, Possible, RunLengthValues,
       ShiftsOf, RoleAllowed, FixedTo, RunsAlong, ActiveArcs, Shifts, Folded, StartValues,
       Value, Group, Arcs, ArcValues, ShiftOf, Precedes, Gap, Between, EligibleShifts,
       Window, ShiftContains, WorkWindow, FlightType
  <1>13. Deviations(c)' = Deviations(c)
    BY DEF Deviations, Participants, Deviation, Represented, Possible, Count,
       TotalShiftMinutes, TotalCount, ShiftMinutes, ShiftsOf, RoleAllowed, FixedTo,
       Assigned, AllowedShifts, ShiftLength, Shifts, Folded
  <1>14. Workloads(c)' = Workloads(c)
    BY DEF Workloads, Participants, Workload, Represented, Possible, Contribution, ShiftsOf,
       RoleAllowed, FixedTo, Value, BaseUnits, ThreeUnitsOf, Shifts, Folded, Express,
       ExpressUnits, ThreeUnits, IsExpress, ScaledFactor
  <1>15. Retained(c)' = Retained(c)
    BY DEF Retained, Retentions, Value, ContinuityPairs, Participants, Possible, Precedes,
       Gap, Represented, FixedTo, Window, ShiftsOf, RoleAllowed, Folded, WorkWindow, Shifts,
       FlightType
  <1> QED
    BY <1>1, <1>2, <1>3, <1>4, <1>5, <1>6, <1>7, <1>8, <1>9, <1>10, <1>11, <1>12, <1>13,
       <1>14, <1>15
       DEF Objective

----------------------------------------------------------------------------
\* The values of the stages.

Recorded(s) == s \in Seq({s[i] : i \in DOMAIN s})

LEMMA SeqIsRecorded ==
  ASSUME NEW R, NEW t \in Seq(R) PROVE Recorded(t)
  <1> DEFINE V == {t[i] : i \in DOMAIN t}
  <1>1. Len(t) \in Nat /\ DOMAIN t = 1..Len(t)
    OBVIOUS
  <1>2. t = [i \in 1..Len(t) |-> t[i]]
    OBVIOUS
  <1>3. \A i \in 1..Len(t) : t[i] \in V
    BY <1>1
  <1>4. t \in Seq(V)
    <2> HIDE DEF V
    <2> QED
      BY <1>1, <1>2, <1>3
  <1> QED
    BY <1>4 DEF Recorded

LEMMA AppendKeeps ==
  ASSUME NEW s, Recorded(s), NEW x
  PROVE  /\ Recorded(Append(s, x))
         /\ DOMAIN s = 1..Len(s) /\ Len(s) \in Nat
         /\ DOMAIN Append(s, x) = 1..(Len(s) + 1)
         /\ \A i \in 1..Len(s) : Append(s, x)[i] = s[i]
         /\ Append(s, x)[Len(s) + 1] = x
  <1> DEFINE Q == {s[i] : i \in DOMAIN s}
             R == Q \cup {x}
             t == Append(s, x)
  <1>1. s \in Seq(R)
    <2>1. s \in Seq(Q)
      BY DEF Recorded
    <2> HIDE DEF Q
    <2> QED
      BY <2>1
  <1>2. /\ DOMAIN s = 1..Len(s) /\ Len(s) \in Nat
        /\ DOMAIN t = 1..(Len(s) + 1)
        /\ \A i \in 1..Len(s) : t[i] = s[i]
        /\ t[Len(s) + 1] = x
        /\ t \in Seq(R)
    <2> HIDE DEF R
    <2>1. x \in R
      BY DEF R
    <2> QED
      BY <1>1, <2>1
  <1>3. Recorded(t)
    <2> HIDE DEF t, R
    <2> QED
      BY <1>2, SeqIsRecorded
  <1> QED
    BY <1>2, <1>3

LEMMA EmptyRecorded == Recorded(<<>>)
  BY DEF Recorded

TruthOK ==
  /\ Recorded(values)
  /\ phase \in {"STAGE", "ENDED"} => Attains(crews, values, Stages)
  /\ phase = "STAGE" => \A c \in space : Attains(c, values, Stages)
  /\ ~leads => Attains(checkpoint.crews, checkpoint.values, Stages)
  /\ ~leads /\ phase \in {"INPUT", "VALID"} => checkpoint.values = <<>>

LEMMA AttainsKept ==
  ASSUME SameModel, NEW c, NEW recorded, Attains(c, recorded, Stages)
  PROVE  Attains(c, recorded, Stages)'
  <1>1. Stages' = Stages
    BY DEF Stages, StagesOf, SameModel
  <1> QED
    BY <1>1, ObjectiveKept DEF Attains

LEMMA AttainsMore ==
  ASSUME SameModel, NEW c, Recorded(values), Attains(c, values, Stages),
         values' = Append(values, Objective(c, StageName))
  PROVE  Attains(c, values, Stages)'
  <1>1. Stages' = Stages
    BY DEF Stages, StagesOf, SameModel
  <1>2. ASSUME NEW i \in DOMAIN values' PROVE Objective(c, Stages[i]) = values'[i]
    <2>1. i \in 1..Len(values) \/ i = Len(values) + 1
      BY <1>2, AppendKeeps
    <2>2. CASE i \in 1..Len(values)
      BY <2>2, AppendKeeps DEF Attains
    <2>3. CASE i = Len(values) + 1
      BY <2>3, AppendKeeps DEF StageName, Stage
    <2> QED
      BY <2>1, <2>2, <2>3
  <1>3. \A i \in DOMAIN values' : Objective(c, Stages[i]) = values'[i]
    BY <1>2
  <1> QED
    BY <1>1, <1>3, ObjectiveKept DEF Attains

LEMMA TruthStep ==
  ASSUME TruthOK, [PassNext]_passVars PROVE TruthOK'
  <1> USE DEF TruthOK
  <1>1. CASE ValidateInput
    <2>1. SameModel /\ crews' = crews /\ values' = values /\ checkpoint' = checkpoint
      BY <1>1 DEF ValidateInput, Validate, SameModel, SameInput, solverVars
    <2>2. leads' = leads /\ phase = "INPUT" /\ phase' \in {"VALID", "REFUSED"}
      BY <1>1 DEF ValidateInput, Validate
    <2>3. ~leads => Attains(checkpoint.crews, checkpoint.values, Stages)'
      BY <2>1, <2>2, AttainsKept
    <2> QED
      BY <2>1, <2>2, <2>3
  <1>2. CASE BuildPass
    <2>1. /\ phase = "VALID" /\ phase' \in {"RAISED", "STAGE"}
          /\ crews' = {} /\ values' = <<>> /\ leads' = leads /\ checkpoint' = checkpoint
      BY <1>2 DEF BuildPass
    <2>2. ~leads => Attains(checkpoint.crews, checkpoint.values, Stages)'
      BY <2>1 DEF Attains
    <2>3. \A c : Attains(c, values, Stages)'
      BY <2>1 DEF Attains
    <2> QED
      BY <2>1, <2>2, <2>3, EmptyRecorded
  <1>3. CASE ProveStage
    <2>1. PICK best : /\ space' = {c \in space : Objective(c, StageName) = best}
                      /\ values' = Append(values, best)
      BY <1>3 DEF ProveStage
    <2>2. /\ SameModel /\ phase = "STAGE" /\ phase' = phase /\ leads' = leads
          /\ crews' \in space'
          /\ checkpoint' = IF leads THEN checkpoint ELSE [crews |-> crews', values |-> values']
      BY <1>3 DEF ProveStage, SolvingFrame, SameModel, SameInput, inputVars, Observe
    <2>3. \A c \in space' : Attains(c, values, Stages)'
      BY <2>1, <2>2, AttainsMore
    <2>4. Attains(crews, values, Stages)'
      BY <2>2, <2>3
    <2>5. ~leads => Attains(checkpoint.crews, checkpoint.values, Stages)'
      BY <2>2, <2>4
    <2>6. Recorded(values')
      BY <2>1, AppendKeeps
    <2> QED
      BY <2>2, <2>3, <2>4, <2>5, <2>6
  <1>4. CASE ProveLastStage
    <2>1. /\ SameModel /\ phase = "STAGE" /\ phase' = "ENDED" /\ leads' = leads
          /\ crews' = crews /\ values' = values /\ checkpoint' = checkpoint
      BY <1>4 DEF ProveLastStage, SolvingFrame, SameModel, SameInput, inputVars
    <2>2. Attains(crews, values, Stages)'
      BY <2>1, AttainsKept
    <2>3. ~leads => Attains(checkpoint.crews, checkpoint.values, Stages)'
      BY <2>1, AttainsKept
    <2> QED
      BY <2>1, <2>2, <2>3
  <1>5. CASE StopFeasible
    <2>1. /\ SameModel /\ phase = "STAGE" /\ phase' = "ENDED" /\ leads' = leads
          /\ crews' \in space /\ values' = Append(values, Objective(crews', StageName))
          /\ checkpoint' = IF leads THEN checkpoint ELSE [crews |-> crews', values |-> values']
      BY <1>5 DEF StopFeasible, MayTimeOut, SolvingFrame, SameModel, SameInput, inputVars, Observe
    <2>2. Attains(crews, values, Stages)'
      BY <2>1, AttainsMore
    <2>3. ~leads => Attains(checkpoint.crews, checkpoint.values, Stages)'
      BY <2>1, <2>2
    <2>4. Recorded(values')
      BY <2>1, AppendKeeps
    <2> QED
      BY <2>1, <2>2, <2>3, <2>4
  <1>6. CASE StopUnknown
    <2>1. /\ SameModel /\ phase = "STAGE" /\ phase' = "ENDED" /\ leads' = leads
          /\ crews' = crews /\ checkpoint' = checkpoint
          /\ values' = values \/ values' = Append(values, Objective(crews, StageName))
      BY <1>6 DEF StopUnknown, MayTimeOut, SolvingFrame, SameModel, SameInput, inputVars
    <2>2. Attains(crews, values, Stages)'
      BY <2>1, AttainsKept, AttainsMore
    <2>3. ~leads => Attains(checkpoint.crews, checkpoint.values, Stages)'
      BY <2>1, AttainsKept
    <2>4. Recorded(values')
      <3>1. \A x : Recorded(Append(values, x))
        BY AppendKeeps
      <3>2. CASE values' = values
        BY <3>2
      <3>3. CASE values' = Append(values, Objective(crews, StageName))
        BY <3>1, <3>3
      <3> QED
        BY <2>1, <3>2, <3>3
    <2> QED
      BY <2>1, <2>2, <2>3, <2>4
  <1>7. CASE StartEmergency
    BY <1>7 DEF StartEmergency, FinalFrame, solverVars
  <1>8. CASE FinishOrdinary \/ FinishEmergency
    <2>1. /\ SameModel /\ phase = "ENDED" /\ phase' = "FINAL" /\ leads' = leads
          /\ values' = values /\ checkpoint' = checkpoint
      BY <1>8
      DEF FinishOrdinary, FinishEmergency, FinalFrame, solverVars, SameModel, SameInput, inputVars
    <2>2. ~leads => Attains(checkpoint.crews, checkpoint.values, Stages)'
      BY <2>1, AttainsKept
    <2> QED
      BY <2>1, <2>2
  <1>9. CASE UNCHANGED passVars
    <2>1. /\ SameModel /\ phase' = phase /\ leads' = leads /\ space' = space
          /\ crews' = crews /\ values' = values /\ checkpoint' = checkpoint
      BY <1>9 DEF passVars, solverVars, SameModel, SameInput, inputVars
    <2>2. /\ Attains(crews, values, Stages) => Attains(crews, values, Stages)'
          /\ \A c : Attains(c, values, Stages) => Attains(c, values, Stages)'
          /\ Attains(checkpoint.crews, checkpoint.values, Stages) =>
                Attains(checkpoint.crews, checkpoint.values, Stages)'
      BY <2>1, AttainsKept
    <2> QED
      BY <2>1, <2>2
  <1> QED
    BY <1>1, <1>2, <1>3, <1>4, <1>5, <1>6, <1>7, <1>8, <1>9 DEF PassNext, PassDone

LEMMA TruthInvariant == PassSpec => []TruthOK
  <1>1. PassInit => TruthOK
    BY EmptyRecorded DEF PassInit, Init, TruthOK, Attains
  <1>2. TruthOK /\ [PassNext]_passVars => TruthOK'
    BY TruthStep
  <1> QED
    BY <1>1, <1>2, PTL DEF PassSpec

(* The schedule kept when a pass stops, and the last checkpoint of the ordinary
   pass, have every value recorded with them, whichever stages were proven,
   stopped with a solution or stopped without one, and whatever else changed
   since. *)
THEOREM ResultsTruthful == PassSpec => []ResultsAreTruthful
  <1>1. TruthOK => ResultsAreTruthful
    BY DEF TruthOK, ResultsAreTruthful
  <1> QED
    BY <1>1, TruthInvariant, PTL

----------------------------------------------------------------------------
\* Both passes.

\* A schedule of agents: every pair in a shift of an ordinary role.
Ordinary(schedule) ==
  /\ schedule \subseteq Employees \X Flights
  /\ \A p \in schedule : /\ day.employees[p[1]].enabled
                         /\ EligibleShifts(p[1], Window(p[2]), FALSE) # {}

PassOK ==
  /\ day \in OperationalDays /\ config \in Configurations /\ leads \in BOOLEAN
  /\ phase \notin {"INPUT", "REFUSED"} => Issues = {}
  /\ phase = "STAGE" => candidates \subseteq LegalCandidates(leads) /\ space \subseteq Solutions
  /\ phase = "STAGE" /\ ~leads => checkpoint.values = values
  /\ phase \in {"STAGE", "ENDED"} => crews \subseteq Employees \X Flights
  /\ phase \in {"STAGE", "ENDED"} /\ ~leads => Ordinary(crews)
  /\ leads => Ordinary(passOne.crews)
  /\ phase = "ENDED" /\ status = "FEASIBLE" => ~proven

\* A window inside an ordinary shift is outside every shift of a lead.
LEMMA NoLeadBeside ==
  ASSUME ValidInput, NEW e \in Employees, NEW f \in Flights,
         EligibleShifts(e, Window(f), FALSE) # {}
  PROVE  ~UsesLeadShift(e, f)
  <1> SUFFICES ASSUME NEW r \in ShiftsOf(e), day.shifts[r].role = "RAMP_LEAD",
                      ShiftContains(r, Window(f))
               PROVE  FALSE
    BY DEF UsesLeadShift
  <1>1. PICK s \in Shifts : s \in EligibleShifts(e, Window(f), FALSE)
    BY DEF EligibleShifts, ShiftsOf
  <1>2. /\ r \in Shifts /\ r # s
        /\ day.shifts[r].employee = day.shifts[s].employee
        /\ ShiftContains(s, Window(f))
    BY <1>1 DEF EligibleShifts, ShiftsOf, Folded, RoleAllowed
  <1>3. ~Overlaps(day.shifts[r], day.shifts[s])
    BY <1>1, <1>2, ShiftsApart
  <1>4. /\ day.shifts[r].start \in Int /\ day.shifts[r].end \in Int
        /\ day.shifts[s].start \in Int /\ day.shifts[s].end \in Int
    BY <1>1, <1>2, DayTypes
  <1>5. /\ Window(f).start \in Int /\ Window(f).end \in Int
        /\ Window(f).start < Window(f).end
    BY FlightsAreDerivable
  <1> QED
    BY <1>2, <1>3, <1>4, <1>5 DEF Overlaps, ShiftContains

LEMMA OrdinaryHasNoLeads ==
  ASSUME ValidInput, NEW schedule, Ordinary(schedule)
  PROVE  LeadAssignments(schedule) = {}
  BY NoLeadBeside DEF Ordinary, LeadAssignments

LEMMA OrdinarySolutions ==
  ASSUME ValidInput, candidates \subseteq LegalCandidates(FALSE), NEW schedule \in Solutions
  PROVE  Ordinary(schedule)
  BY SolutionsAreLegal DEF Ordinary

LEMMA OrdinaryKept ==
  ASSUME SameInput, NEW schedule PROVE Ordinary(schedule)' = Ordinary(schedule)
  BY DEF SameInput, Ordinary, Employees, Flights, Shifts, ShiftsOf, RoleAllowed, EligibleShifts,
     Window, WorkWindow, FlightType, Supplied, ShiftContains, Directions, Folded

LEMMA StageSchedules ==
  ASSUME PassOK, phase = "STAGE", NEW c \in space
  PROVE  c \subseteq Employees \X Flights /\ (~leads => Ordinary(c))
  <1>1. /\ ValidInput /\ leads \in BOOLEAN /\ candidates \subseteq LegalCandidates(leads)
        /\ c \in Solutions
    BY DEF PassOK, ValidInput
  <1> QED
    BY <1>1, SolutionsAreLegal, OrdinarySolutions

LEMMA PassStep ==
  ASSUME PassOK, TruthOK, [PassNext]_passVars PROVE PassOK'
  <1> USE DEF PassOK
  <1>1. CASE ValidateInput
    <2>1. /\ SameModel /\ phase' = (IF Issues = {} THEN "VALID" ELSE "REFUSED") /\ passOne' = passOne
      BY <1>1 DEF ValidateInput, Validate, SameModel, SameInput
    <2>2. Issues' = Issues /\ (Ordinary(passOne.crews) => Ordinary(passOne.crews)')
      BY <2>1, IssuesKept, OrdinaryKept DEF SameModel
    <2> QED
      BY <2>1, <2>2 DEF SameModel, SameInput
  <1>2. CASE BuildPass
    <2>1. /\ SameInput /\ leads' = leads /\ passOne' = passOne /\ checkpoint' = checkpoint
          /\ phase = "VALID" /\ phase' \in {"RAISED", "STAGE"}
          /\ crews' = {} /\ values' = <<>> /\ candidates' = PassCandidates
          /\ phase' = "STAGE" => space' = Solutions'
      BY <1>2 DEF BuildPass, inputVars, SameInput
    <2>2. Issues' = Issues /\ (Ordinary(passOne.crews) => Ordinary(passOne.crews)')
      BY <2>1, IssuesKept, OrdinaryKept
    <2>3. candidates' \subseteq LegalCandidates(leads)'
      <3>1. LegalCandidates(TRUE)' = LegalCandidates(TRUE)
        BY <2>1, LegalCandidatesKept
      <3>2. LegalCandidates(FALSE)' = LegalCandidates(FALSE)
        BY <2>1, LegalCandidatesKept
      <3>3. CASE leads = TRUE
        BY <2>1, <3>1, <3>3 DEF PassCandidates
      <3>4. CASE leads = FALSE
        BY <2>1, <3>2, <3>4 DEF PassCandidates
      <3> QED
        BY <3>3, <3>4
    <2>4. Ordinary(crews)' /\ crews' \subseteq Employees' \X Flights'
      BY <2>1 DEF Ordinary
    <2>5. phase' = "STAGE" /\ ~leads' => checkpoint'.values = values'
      BY <2>1 DEF TruthOK
    <2> QED
      BY <2>1, <2>2, <2>3, <2>4, <2>5 DEF SameInput
  <1>3. CASE ProveStage
    <2>1. /\ SameModel /\ leads' = leads /\ passOne' = passOne
          /\ phase = "STAGE" /\ phase' = phase
          /\ space' \subseteq space /\ crews' \in space'
          /\ checkpoint' = IF leads THEN checkpoint ELSE [crews |-> crews', values |-> values']
      BY <1>3 DEF ProveStage, SolvingFrame, SameModel, SameInput, inputVars, Observe
    <2>2. /\ Issues' = Issues /\ Solutions' = Solutions
          /\ Ordinary(passOne.crews) => Ordinary(passOne.crews)'
          /\ LegalCandidates(leads)' = LegalCandidates(leads)
      BY <2>1, IssuesKept, SolutionsKept, OrdinaryKept, LegalCandidatesKept DEF SameModel
    <2>3. crews' \subseteq Employees \X Flights /\ (~leads => Ordinary(crews)')
      BY <2>1, StageSchedules, OrdinaryKept DEF SameModel
    <2>4. Employees' = Employees /\ Flights' = Flights
      BY <2>1 DEF SameModel, SameInput, Employees, Flights
    <2> QED
      BY <2>1, <2>2, <2>3, <2>4 DEF SameModel, SameInput
  <1>4. CASE ProveLastStage
    <2>1. /\ SameModel /\ leads' = leads /\ passOne' = passOne /\ crews' = crews
          /\ phase = "STAGE" /\ phase' = "ENDED" /\ status' = "OPTIMAL"
      BY <1>4 DEF ProveLastStage, SolvingFrame, SameModel, SameInput, inputVars
    <2>2. /\ Issues' = Issues
          /\ Ordinary(passOne.crews) => Ordinary(passOne.crews)'
          /\ Ordinary(crews) => Ordinary(crews)'
      BY <2>1, IssuesKept, OrdinaryKept DEF SameModel
    <2>3. Employees' = Employees /\ Flights' = Flights
      BY <2>1 DEF SameModel, SameInput, Employees, Flights
    <2> QED
      BY <2>1, <2>2, <2>3 DEF SameModel, SameInput
  <1>5. CASE StopFeasible \/ StopUnknown
    <2>1. /\ SameModel /\ leads' = leads /\ passOne' = passOne
          /\ crews' \in space \/ crews' = crews
          /\ phase = "STAGE" /\ phase' = "ENDED" /\ proven' = FALSE
      BY <1>5 DEF StopFeasible, StopUnknown, MayTimeOut, SolvingFrame, SameModel, SameInput,
         inputVars
    <2>2. /\ Issues' = Issues
          /\ Ordinary(passOne.crews) => Ordinary(passOne.crews)'
      BY <2>1, IssuesKept, OrdinaryKept DEF SameModel
    <2>3. crews' \subseteq Employees \X Flights /\ (~leads => Ordinary(crews)')
      BY <2>1, StageSchedules, OrdinaryKept DEF SameModel
    <2>4. Employees' = Employees /\ Flights' = Flights
      BY <2>1 DEF SameModel, SameInput, Employees, Flights
    <2> QED
      BY <2>1, <2>2, <2>3, <2>4 DEF SameModel, SameInput
  <1>6. CASE StartEmergency
    <2>1. /\ SameInput /\ leads' = TRUE /\ passOne'.crews = crews /\ ~leads
          /\ phase = "ENDED" /\ phase' = "VALID"
      BY <1>6 DEF StartEmergency, FinalFrame, SameInput, inputVars, Result
    <2>2. Issues' = Issues /\ (Ordinary(crews) => Ordinary(passOne.crews)')
      BY <2>1, IssuesKept, OrdinaryKept
    <2> QED
      BY <2>1, <2>2 DEF SameInput
  <1>7. CASE FinishOrdinary \/ FinishEmergency
    <2>1. /\ SameInput /\ leads' = leads /\ passOne' = passOne /\ phase = "ENDED" /\ phase' = "FINAL"
      BY <1>7 DEF FinishOrdinary, FinishEmergency, FinalFrame, SameInput, inputVars
    <2>2. Issues' = Issues /\ (Ordinary(passOne.crews) => Ordinary(passOne.crews)')
      BY <2>1, IssuesKept, OrdinaryKept
    <2> QED
      BY <2>1, <2>2 DEF SameInput
  <1>8. CASE UNCHANGED passVars
    <2>1. /\ SameModel /\ phase' = phase /\ leads' = leads /\ space' = space /\ crews' = crews
          /\ values' = values /\ checkpoint' = checkpoint /\ passOne' = passOne
          /\ status' = status /\ proven' = proven
      BY <1>8 DEF passVars, solverVars, SameModel, SameInput, inputVars
    <2>2. /\ Issues' = Issues /\ Solutions' = Solutions
          /\ Ordinary(passOne.crews) => Ordinary(passOne.crews)'
          /\ Ordinary(crews) => Ordinary(crews)'
          /\ LegalCandidates(leads)' = LegalCandidates(leads)
      BY <2>1, IssuesKept, SolutionsKept, OrdinaryKept, LegalCandidatesKept DEF SameModel
    <2>3. Employees' = Employees /\ Flights' = Flights
      BY <2>1 DEF SameModel, SameInput, Employees, Flights
    <2> QED
      BY <2>1, <2>2, <2>3 DEF SameModel, SameInput
  <1> QED
    BY <1>1, <1>2, <1>3, <1>4, <1>5, <1>6, <1>7, <1>8 DEF PassNext, PassDone

LEMMA PassInvariant == PassSpec => [](PassOK /\ TruthOK)
  <1>1. PassInit => PassOK
    BY ScheduleAssumption DEF PassInit, Init, PassOK, Ordinary
  <1>2. PassOK /\ TruthOK /\ [PassNext]_passVars => PassOK'
    BY PassStep
  <1> QED
    BY <1>1, <1>2, TruthInvariant, PTL DEF PassSpec

(* A checkpoint is replaced, whatever the interleaving of proofs and stops, only
   by a schedule of the same pass that has every value of the one before, and
   no checkpoint holds a lead. *)
THEOREM CheckpointsKeepValues == PassSpec => CheckpointsNeverWorsen
  <1>1. PassOK /\ TruthOK /\ [PassNext]_passVars =>
          [checkpoint' # checkpoint =>
              /\ LeadAssignments(checkpoint'.crews) = {}
              /\ Attains(checkpoint'.crews, checkpoint.values, StagesOf(FALSE))]_passVars
    <2> SUFFICES ASSUME PassOK, TruthOK, [PassNext]_passVars, checkpoint' # checkpoint
                 PROVE  /\ LeadAssignments(checkpoint'.crews) = {}
                        /\ Attains(checkpoint'.crews, checkpoint.values, StagesOf(FALSE))
      OBVIOUS
    <2>1. ProveStage \/ StopFeasible
      BY DEF PassNext, ValidateInput, BuildPass, ProveLastStage, StopUnknown, FinishOrdinary,
         StartEmergency, FinishEmergency, PassDone, passVars, FinalFrame
    <2>2. /\ phase = "STAGE" /\ ~leads /\ checkpoint'.crews \in space
      BY <2>1 DEF ProveStage, StopFeasible, MayTimeOut, Observe
    <2>3. Ordinary(checkpoint'.crews)
      BY <2>2, StageSchedules
    <2>4. ValidInput
      BY <2>2 DEF PassOK, ValidInput
    <2>5. checkpoint.values = values /\ Stages = StagesOf(FALSE)
      BY <2>2 DEF PassOK, Stages
    <2> QED
      BY <2>2, <2>3, <2>4, <2>5, OrdinaryHasNoLeads DEF TruthOK
  <1> QED
    BY <1>1, PassInvariant, PTL DEF PassSpec, CheckpointsNeverWorsen

----------------------------------------------------------------------------
\* What is published.

LEMMA CriticalIsUnresolved ==
  ASSUME NEW schedule PROVE CriticalNeeds(schedule) = UnresolvedNeeds(schedule)
  BY DEF CriticalNeeds, UnresolvedNeeds, Lacks

\* A break that is missed when shifts of leads count is missed without them.
LEMMA BreaksOfLeads ==
  ASSUME NEW c, NEW e, BreakStatus(c, e, TRUE) = "UNSATISFIED"
  PROVE  BreakStatus(c, e, FALSE) = "UNSATISFIED"
  <1>1. \A f, g : SpanInOneShift(e, f, g, FALSE) => SpanInOneShift(e, f, g, TRUE)
    BY DEF SpanInOneShift, RoleAllowed
  <1> HIDE DEF SpanInOneShift
  <1> QED
    BY <1>1 DEF BreakStatus

LEMMA WorkersHaveWork ==
  ASSUME NEW c, NEW e, BreakStatus(c, e, TRUE) = "UNSATISFIED"
  PROVE  Assigned(c, e) # {}
  <1> SUFFICES ASSUME Assigned(c, e) = {} PROVE FALSE
    OBVIOUS
  <1>1. Cardinality(Assigned(c, e)) = 0
    BY FS_EmptySet
  <1>2. Len(Itinerary(c, e)) = 0
    BY <1>1 DEF Itinerary, InOrder
  <1> QED
    BY <1>2 DEF BreakStatus

LEMMA OrdinaryBreaks ==
  ASSUME ValidInput, NEW c, Ordinary(c)
  PROVE  UnsatisfiedBreaks(c, TRUE) \subseteq UnsatisfiedBreaks(c, FALSE)
  <1> SUFFICES ASSUME NEW e \in UnsatisfiedBreaks(c, TRUE) PROVE e \in UnsatisfiedBreaks(c, FALSE)
    OBVIOUS
  <1>1. e \in Employees /\ BreakStatus(c, e, TRUE) = "UNSATISFIED"
    BY DEF UnsatisfiedBreaks, Represented
  <1>2. PICK f \in Flights : <<e, f>> \in c
    BY <1>1, WorkersHaveWork DEF Assigned
  <1>3. /\ day.employees[e].enabled
        /\ EligibleShifts(e, Window(f), FALSE) # {}
    BY <1>2 DEF Ordinary
  <1>4. e \in Represented(FALSE)
    BY <1>1, <1>3 DEF Represented, EligibleShifts
  <1> QED
    BY <1>1, <1>4, BreaksOfLeads DEF UnsatisfiedBreaks

LEMMA FiguresKept ==
  ASSUME SameInput, NEW c, NEW withLeads
  PROVE  /\ CriticalNeeds(c)' = CriticalNeeds(c)
         /\ LeadAssignments(c)' = LeadAssignments(c)
         /\ UnsatisfiedBreaks(c, withLeads)' = UnsatisfiedBreaks(c, withLeads)
  <1> USE DEF SameInput, Employees, Flights, Shifts, ShiftsOf, Folded, Window, WorkWindow,
              FlightType, Supplied, Directions
  <1>1. CriticalNeeds(c)' = CriticalNeeds(c)
    BY DEF CriticalNeeds, Lacks, MeetsMinimum, StaffCount, Minimum, NeedsQualifications,
       HasQualification, Qualifications
  <1>2. LeadAssignments(c)' = LeadAssignments(c)
    BY DEF LeadAssignments, UsesLeadShift, ShiftContains
  <1>3. UnsatisfiedBreaks(c, withLeads)' = UnsatisfiedBreaks(c, withLeads)
    <2>1. \A e : Itinerary(c, e)' = Itinerary(c, e)
      BY DEF Itinerary, InOrder, Assigned, Precedes
    <2>2. \A e, f, g : SpanInOneShift(e, f, g, withLeads)' = SpanInOneShift(e, f, g, withLeads)
      BY DEF SpanInOneShift, RoleAllowed
    <2>3. \A f, g : Gap(f, g)' = Gap(f, g)
      BY DEF Gap
    <2>4. \A e : BreakStatus(c, e, withLeads)' = BreakStatus(c, e, withLeads)
      BY <2>1, <2>2, <2>3 DEF BreakStatus
    <2>5. Represented(withLeads)' = Represented(withLeads)
      BY DEF Represented, RoleAllowed
    <2> QED
      BY <2>4, <2>5 DEF UnsatisfiedBreaks
  <1> QED
    BY <1>1, <1>2, <1>3

FieldsOK(o) ==
  LET schedule == o.result.crews
      short == CriticalNeeds(schedule) # {}
  IN  /\ o.readiness = "READY" =>
            /\ ~short /\ o.result.status = "OPTIMAL"
            /\ LeadAssignments(schedule) = {}
            /\ UnsatisfiedBreaks(schedule, TRUE) = {}
      /\ o.disposition = "ATTEMPTED_ADOPTED_WITH_REMAINING_SHORTAGE" => short
      /\ o.disposition \in {"NOT_NEEDED", "ATTEMPTED_AND_ADOPTED"} => ~short
      /\ o.readiness # "NO_USABLE_SCHEDULE" =>
            (short <=> o.staffing = "CRITICAL_SHORTAGE_REMAINS")
      /\ short => o.readiness \in {"MANUAL_INTERVENTION_REQUIRED", "NO_USABLE_SCHEDULE"}

\* What _finalize_result publishes agrees with itself when the disposition does
\* and, for a result without leads, the schedule is one of agents.
LEMMA FinalizedAgrees ==
  ASSUME ValidInput, NEW result, NEW withLeads \in BOOLEAN, NEW usable \in BOOLEAN, NEW disposition,
         result.proven /\ usable => result.status = "OPTIMAL"
                         \/ disposition \in {"ATTEMPTED_NOT_ADOPTED_UNUSABLE",
                                             "ATTEMPTED_NOT_ADOPTED_WORSE",
                                             "ATTEMPTED_NOT_ADOPTED_NO_IMPROVEMENT"},
         ~withLeads => Ordinary(result.crews),
         withLeads /\ usable =>
             ReportedLeads(result.crews, passOne.crews) = LeadAssignments(result.crews),
         disposition = "ATTEMPTED_ADOPTED_WITH_REMAINING_SHORTAGE" =>
             CriticalNeeds(result.crews) # {},
         disposition \in {"NOT_NEEDED", "ATTEMPTED_AND_ADOPTED"} =>
             CriticalNeeds(result.crews) = {}
  PROVE  FieldsOK(Finalized(result, withLeads, usable, disposition))
  <1> DEFINE o == Finalized(result, withLeads, usable, disposition)
             reported == IF withLeads /\ usable
                         THEN ReportedLeads(result.crews, passOne.crews) ELSE {}
             proved == result.values # <<>> /\ result.proven
             declined == disposition \in {"ATTEMPTED_NOT_ADOPTED_UNUSABLE",
                                          "ATTEMPTED_NOT_ADOPTED_WORSE",
                                          "ATTEMPTED_NOT_ADOPTED_NO_IMPROVEMENT"}
             short == CriticalNeeds(result.crews) # {}
  <1>1. /\ o.result = result /\ o.disposition = disposition /\ o.reported = reported
        /\ o.readiness = Readiness(result.crews, withLeads, usable,
                                   reported # {} \/ declined \/ ~proved)
        /\ o.staffing = IF usable /\ short THEN "CRITICAL_SHORTAGE_REMAINS"
                        ELSE IF reported # {} THEN "LEAD_ASSISTED_SCHEDULE" ELSE "NORMAL_SCHEDULE"
    BY CriticalIsUnresolved DEF Finalized
  <1>2. o.readiness =
          IF ~usable THEN "NO_USABLE_SCHEDULE"
          ELSE IF short \/ UnsatisfiedBreaks(result.crews, withLeads) # {}
          THEN "MANUAL_INTERVENTION_REQUIRED"
          ELSE IF reported # {} \/ declined \/ ~proved THEN "READY_WITH_WARNINGS" ELSE "READY"
    BY <1>1, CriticalIsUnresolved DEF Readiness
  <1>3. ASSUME o.readiness = "READY"
        PROVE  /\ ~short /\ result.status = "OPTIMAL"
               /\ LeadAssignments(result.crews) = {}
               /\ UnsatisfiedBreaks(result.crews, TRUE) = {}
    <2> HIDE DEF o
    <2>1. /\ usable /\ ~short /\ UnsatisfiedBreaks(result.crews, withLeads) = {}
          /\ reported = {} /\ ~declined /\ proved
      BY <1>2, <1>3
    <2>2. CASE withLeads
      BY <2>1, <2>2
    <2>3. CASE ~withLeads
      BY <2>1, <2>3, OrdinaryHasNoLeads, OrdinaryBreaks
    <2> QED
      BY <2>2, <2>3
  <1> HIDE DEF o
  <1>4. short <=> CriticalNeeds(o.result.crews) # {}
    BY <1>1
  <1>5. /\ disposition = "ATTEMPTED_ADOPTED_WITH_REMAINING_SHORTAGE" => short
        /\ disposition \in {"NOT_NEEDED", "ATTEMPTED_AND_ADOPTED"} => ~short
    OBVIOUS
  <1>6. /\ o.readiness # "NO_USABLE_SCHEDULE" =>
              (short <=> o.staffing = "CRITICAL_SHORTAGE_REMAINS")
        /\ short => o.readiness \in {"MANUAL_INTERVENTION_REQUIRED", "NO_USABLE_SCHEDULE"}
    <2> HIDE DEF short, reported, declined, proved
    <2> QED
      BY <1>1, <1>2
  <1>7. FieldsOK(o)
    <2> HIDE DEF short, reported
    <2> QED
      BY <1>1, <1>3, <1>4, <1>5, <1>6 DEF FieldsOK
  <1> QED
    BY <1>7 DEF o

LEMMA FieldsKept ==
  ASSUME SameInput, NEW o, FieldsOK(o) PROVE FieldsOK(o)'
  <1>1. \A c : /\ CriticalNeeds(c)' = CriticalNeeds(c)
               /\ LeadAssignments(c)' = LeadAssignments(c)
               /\ UnsatisfiedBreaks(c, TRUE)' = UnsatisfiedBreaks(c, TRUE)
    BY FiguresKept
  <1> QED
    BY <1>1 DEF FieldsOK

LEMMA OrdinaryFields ==
  ASSUME PassOK, FinishOrdinary PROVE FieldsOK(outcome')
  <1> DEFINE disposition == IF ~config.allowLeads THEN "NOT_ENABLED"
                            ELSE IF ~Usable THEN "NOT_ATTEMPTED_NO_USABLE_SCHEDULE"
                            ELSE "NOT_NEEDED"
  <1>1. /\ phase = "ENDED" /\ ~leads
        /\ ~Usable \/ CriticalNeeds(crews) = {} \/ ~config.allowLeads
        /\ outcome' = Finalized(Result, FALSE, Usable, disposition)
    BY DEF FinishOrdinary
  <1>2. ValidInput /\ Ordinary(crews) /\ Usable \in BOOLEAN
    BY <1>1 DEF PassOK, ValidInput, Usable
  <1>3. Result.proven /\ Usable => Result.status = "OPTIMAL"
    BY <1>1 DEF PassOK, Usable, Result
  <1>4. Result.crews = crews
    BY DEF Result
  <1>5. /\ disposition # "ATTEMPTED_ADOPTED_WITH_REMAINING_SHORTAGE"
        /\ disposition \in {"NOT_NEEDED", "ATTEMPTED_AND_ADOPTED"} => CriticalNeeds(crews) = {}
    BY <1>1
  <1> HIDE DEF disposition
  <1> QED
    BY <1>1, <1>2, <1>3, <1>4, <1>5, FinalizedAgrees

\* What the adoption decision rests on.
LEMMA Adoption ==
  ASSUME AdoptionDecision \in Adopting
  PROVE  /\ Usable /\ AllLeadsReported
         /\ ~Below(CriticalScore(crews, TRUE), CriticalScore(passOne.crews, FALSE))
         /\ AdoptionDecision = IF CriticalNeeds(crews) # {}
                               THEN "ATTEMPTED_ADOPTED_WITH_REMAINING_SHORTAGE"
                               ELSE "ATTEMPTED_AND_ADOPTED"
  BY DEF AdoptionDecision, Adopting

LEMMA NoAdoption ==
  ASSUME AdoptionDecision \notin Adopting
  PROVE  AdoptionDecision \in {"ATTEMPTED_NOT_ADOPTED_UNUSABLE", "ATTEMPTED_NOT_ADOPTED_WORSE",
                               "ATTEMPTED_NOT_ADOPTED_NO_IMPROVEMENT"}
  BY DEF AdoptionDecision, Adopting

LEMMA EmergencyFields ==
  ASSUME PassOK, FinishEmergency PROVE FieldsOK(outcome')
  <1>1. /\ phase = "ENDED" /\ leads = TRUE
        /\ outcome' = IF AdoptionDecision \in Adopting
                      THEN Finalized(Result, TRUE, TRUE, AdoptionDecision)
                      ELSE Finalized(passOne, FALSE, TRUE, AdoptionDecision)
    BY DEF FinishEmergency, PassOK
  <1>2. ValidInput /\ Ordinary(passOne.crews)
    BY <1>1 DEF PassOK, ValidInput
  <1>3. Result.crews = crews /\ Result.status = status /\ Result.proven = proven
    BY DEF Result
  <1>4. CASE AdoptionDecision \in Adopting
    <2>1. /\ ReportedLeads(crews, passOne.crews) = LeadAssignments(crews)
          /\ status \in {"OPTIMAL", "FEASIBLE"}
      BY <1>4, Adoption DEF AllLeadsReported, Usable
    <2>2. proven => status = "OPTIMAL"
      BY <1>1, <2>1 DEF PassOK
    <2>3. AdoptionDecision = IF CriticalNeeds(crews) # {}
                             THEN "ATTEMPTED_ADOPTED_WITH_REMAINING_SHORTAGE"
                             ELSE "ATTEMPTED_AND_ADOPTED"
      BY <1>4, Adoption
    <2>4. /\ AdoptionDecision = "ATTEMPTED_ADOPTED_WITH_REMAINING_SHORTAGE" =>
               CriticalNeeds(crews) # {}
          /\ AdoptionDecision \in {"NOT_NEEDED", "ATTEMPTED_AND_ADOPTED"} =>
               CriticalNeeds(crews) = {}
      BY <2>3
    <2> QED
      BY <1>1, <1>2, <1>3, <1>4, <2>1, <2>2, <2>4, FinalizedAgrees
  <1>5. CASE AdoptionDecision \notin Adopting
    <2>1. AdoptionDecision \in {"ATTEMPTED_NOT_ADOPTED_UNUSABLE", "ATTEMPTED_NOT_ADOPTED_WORSE",
                                "ATTEMPTED_NOT_ADOPTED_NO_IMPROVEMENT"}
      BY <1>5, NoAdoption
    <2> QED
      BY <1>1, <1>2, <1>5, <2>1, FinalizedAgrees
  <1> QED
    BY <1>4, <1>5

LEMMA FinalSteps ==
  ASSUME [PassNext]_passVars, phase' = "FINAL"
  PROVE  /\ SameModel /\ passOne' = passOne
         /\ \/ FinishOrdinary
            \/ FinishEmergency
            \/ phase = "FINAL" /\ outcome' = outcome
  BY DEF PassNext, ValidateInput, Validate, BuildPass, ProveStage, ProveLastStage, StopFeasible,
     StopUnknown, StartEmergency, FinishOrdinary, FinishEmergency, PassDone, FinalFrame,
     MayTimeOut, SolvingFrame, inputVars, solverVars, passVars, SameModel, SameInput

(* READY is published only for a schedule without a need, a missed break or a
   lead that was proven optimal, and the disposition, the staffing status and
   the readiness agree on whether a need remains, for either pass and wherever
   its time ended. *)
THEOREM FieldsTellOneStory == PassSpec => []FieldsAgree
  <1>1. PassInit => FieldsAgree
    BY DEF PassInit, Init, FieldsAgree
  <1>2. PassOK /\ FieldsAgree /\ [PassNext]_passVars => FieldsAgree'
    <2> SUFFICES ASSUME PassOK, FieldsAgree, [PassNext]_passVars, phase' = "FINAL"
                 PROVE  FieldsOK(outcome)'
      BY DEF FieldsAgree, FieldsOK
    <2>1. FieldsOK(outcome')
      BY FinalSteps, OrdinaryFields, EmergencyFields DEF FieldsAgree, FieldsOK
    <2> QED
      BY <2>1, FinalSteps, FieldsKept DEF SameModel
  <1> QED
    BY <1>1, <1>2, PassInvariant, PTL DEF PassSpec
----------------------------------------------------------------------------
\* The critical score.

\* A break that is missed without the shifts of leads is missed with them: a
\* lead's shift that spans two flights of an agent would hold the second.
LEMMA BreaksWithLeads ==
  ASSUME ValidInput, NEW c, Ordinary(c), NEW e \in Employees,
         BreakStatus(c, e, FALSE) = "UNSATISFIED"
  PROVE  BreakStatus(c, e, TRUE) = "UNSATISFIED"
  <1> DEFINE worked == Itinerary(c, e)
             last == Len(worked)
             rests(i, withLeads) ==
                 /\ Gap(worked[i], worked[i + 1]) >= config.requiredBreak
                 /\ SpanInOneShift(e, worked[i], worked[i + 1], withLeads)
  <1>1. Assigned(c, e) \in SUBSET Flights /\ last = Cardinality(Assigned(c, e)) /\ last \in Nat
    <2>1. Assigned(c, e) \in SUBSET Flights
      BY DEF Assigned
    <2>2. Cardinality(Assigned(c, e)) \in Nat
      BY <2>1, FiniteDay, FS_Subset, FS_CardinalityType
    <2>3. last = Cardinality(Assigned(c, e))
      BY <2>1, ItineraryIsSorted DEF Itinerary
    <2> QED
      BY <2>1, <2>2, <2>3
  <1>2. ASSUME NEW i \in 1..(last - 1), rests(i, TRUE) PROVE rests(i, FALSE)
    <2> DEFINE f == worked[i]
               g == worked[i + 1]
    <2>1. f \in Flights /\ g \in Flights /\ <<e, g>> \in c
      <3>1. i \in 1..Cardinality(Assigned(c, e)) /\ i + 1 \in 1..Cardinality(Assigned(c, e))
        BY <1>1
      <3>2. f \in Assigned(c, e) /\ g \in Assigned(c, e)
        BY <1>1, <3>1, ItineraryIsWorked DEF Itinerary
      <3> QED
        BY <3>2 DEF Assigned
    <2>2. PICK s \in ShiftsOf(e) :
            /\ day.employees[e].enabled
            /\ RoleAllowed(day.shifts[s].role, TRUE)
            /\ day.shifts[s].start <= Window(f).start
            /\ Window(g).end <= day.shifts[s].end
      BY <1>2 DEF SpanInOneShift
    <2>3. ~UsesLeadShift(e, g)
      <3>1. EligibleShifts(e, Window(g), FALSE) # {}
        BY <2>1 DEF Ordinary
      <3> QED
        BY <2>1, <3>1, NoLeadBeside
    <2>4. ShiftContains(s, Window(g))
      <3>1. /\ Window(f).start \in Int /\ Window(f).end \in Int /\ Window(g).start \in Int
            /\ Window(f).start < Window(f).end
        BY <2>1, FlightsAreDerivable
      <3>2. day.shifts[s].start \in Int
        BY DayTypes DEF ShiftsOf
      <3>3. config.requiredBreak \in Int /\ config.requiredBreak > 0
        BY ValidSettings DEF ValidInput, Configurations, PositiveSettings
      <3>4. Window(g).start - Window(f).end >= config.requiredBreak
        BY <1>2 DEF Gap
      <3> HIDE DEF f, g
      <3> QED
        BY <2>2, <3>1, <3>2, <3>3, <3>4 DEF ShiftContains
    <2>5. RoleAllowed(day.shifts[s].role, FALSE)
      BY <2>2, <2>3, <2>4 DEF UsesLeadShift, RoleAllowed
    <2>6. SpanInOneShift(e, f, g, FALSE)
      BY <2>2, <2>5 DEF SpanInOneShift
    <2> QED
      BY <1>2, <2>6
  <1> HIDE DEF worked
  <1>3. \A withLeads :
          BreakStatus(c, e, withLeads) =
            IF last = 0 /\ \E s \in ShiftsOf(e) : day.shifts[s].role = "RAMP_LEAD"
            THEN "NOT_APPLICABLE"
            ELSE IF last < 2 THEN "NOT_EVALUABLE"
            ELSE IF \E i \in 1..(last - 1) : rests(i, withLeads) THEN "SATISFIED"
            ELSE "UNSATISFIED"
    BY DEF BreakStatus, worked
  <1> HIDE DEF rests, last
  <1> QED
    BY <1>2, <1>3

LEMMA SameBreaks ==
  ASSUME ValidInput, NEW c, Ordinary(c)
  PROVE  UnsatisfiedBreaks(c, TRUE) = UnsatisfiedBreaks(c, FALSE)
  <1>1. Represented(FALSE) \subseteq Represented(TRUE) /\ Represented(FALSE) \subseteq Employees
    BY DEF Represented, RoleAllowed
  <1>2. UnsatisfiedBreaks(c, FALSE) \subseteq UnsatisfiedBreaks(c, TRUE)
    BY <1>1, BreaksWithLeads DEF UnsatisfiedBreaks
  <1> QED
    BY <1>2, OrdinaryBreaks

\* A schedule of agents has one score, whether leads count or not.
LEMMA SameScore ==
  ASSUME ValidInput, NEW c, Ordinary(c)
  PROVE  CriticalScore(c, TRUE) = CriticalScore(c, FALSE)
  BY SameBreaks DEF CriticalScore

\* The parts of a score are integers.
LEMMA MissingIsInteger ==
  ASSUME ValidInput, NEW c \in SUBSET (Employees \X Flights), NEW f \in Flights
  PROVE  MissingStaff(c, f) \in Int
  <1>1. Minimum - StaffCount(c, f) \in Int
    <2>1. Minimum \in Int
      BY DEF ValidInput, Configurations, Minimum
    <2>2. StaffCount(c, f) \in Nat
      BY CountsAgree
    <2> QED
      BY <2>1, <2>2
  <1> DEFINE S == {0, Minimum - StaffCount(c, f)}
  <1>2. IsFiniteSet(S)
    <2>1. IsFiniteSet({0})
      BY FS_Singleton
    <2>2. S = {0} \cup {Minimum - StaffCount(c, f)}
      OBVIOUS
    <2> HIDE DEF S
    <2> QED
      BY <2>1, <2>2, FS_AddElement
  <1>3. \A x \in S : x \in Int
    BY <1>1
  <1>4. MissingStaff(c, f) = Highest(S)
    BY DEF MissingStaff
  <1> HIDE DEF S
  <1> QED
    BY <1>2, <1>3, <1>4, HighestIsInteger

LEMMA ScoreIsIntegral ==
  ASSUME ValidInput, NEW c \in SUBSET (Employees \X Flights), NEW withLeads
  PROVE  /\ DOMAIN CriticalScore(c, withLeads) = 1..6
         /\ \A i \in 1..6 : CriticalScore(c, withLeads)[i] \in Int
  <1> DEFINE required == {f \in Flights : NeedsQualifications(f) /\ MeetsMinimum(c, f)}
             covers(f) == {q \in Qualifications : HasQualification(c, f, q)}
             coverage == [f \in required |-> Cardinality(covers(f))]
             missing == [f \in Flights |-> MissingStaff(c, f)]
             figures == {MissingStaff(c, f) : f \in Flights}
  <1>1. Cardinality({f \in Flights : MeetsMinimum(c, f)}) \in Int
    BY FiniteDay, FS_Subset, FS_CardinalityType
  <1>2. Cardinality({f \in required : covers(f) = Qualifications}) \in Int
    <2>1. {f \in required : covers(f) = Qualifications} \in SUBSET Flights
      OBVIOUS
    <2> HIDE DEF required, covers
    <2> QED
      BY <2>1, FiniteDay, FS_Subset, FS_CardinalityType
  <1>3. SumFunction(coverage) \in Int
    <2>1. IsFiniteSet(required)
      BY FiniteDay, FS_Subset
    <2>2. \A f \in required : Cardinality(covers(f)) \in Int
      <3>1. IsFiniteSet(Qualifications)
        <4>1. IsFiniteSet({"PUSH"}) /\ Qualifications = {"PUSH"} \cup {"CLOSE_OUT"}
          BY FS_Singleton DEF Qualifications
        <4> QED
          BY <4>1, FS_AddElement
      <3>2. \A f : covers(f) \in SUBSET Qualifications
        OBVIOUS
      <3> HIDE DEF covers
      <3> QED
        BY <3>1, <3>2, FS_Subset, FS_CardinalityType
    <2>3. DOMAIN coverage = required /\ \A f \in required : coverage[f] \in Int
      BY <2>2
    <2> HIDE DEF coverage, required
    <2> QED
      BY <2>1, <2>3, IntegerTotal
  <1>4. -SumFunction(missing) \in Int
    <2>1. DOMAIN missing = Flights /\ \A f \in Flights : missing[f] \in Int
      BY MissingIsInteger
    <2> HIDE DEF missing
    <2>2. SumFunction(missing) \in Int
      BY <2>1, FiniteDay, IntegerTotal
    <2> QED
      BY <2>2
  <1>5. -Highest(figures) \in Int
    <2>1. \A x \in figures : x \in Int
      BY MissingIsInteger
    <2>2. IsFiniteSet(figures)
      <3>1. missing \in Surjection(Flights, figures)
        BY DEF Surjection
      <3> HIDE DEF missing, figures
      <3> QED
        BY <3>1, FiniteDay, FS_Surjection
    <2> HIDE DEF figures
    <2>3. Highest(figures) \in Int
      BY <2>1, <2>2, HighestIsInteger
    <2> QED
      BY <2>3
  <1>6. -Cardinality(UnsatisfiedBreaks(c, withLeads)) \in Int
    <2>1. UnsatisfiedBreaks(c, withLeads) \in SUBSET Employees
      BY DEF UnsatisfiedBreaks, Represented
    <2> QED
      BY <2>1, FiniteDay, FS_Subset, FS_CardinalityType
  <1>7. CriticalScore(c, withLeads) =
          << Cardinality({f \in Flights : MeetsMinimum(c, f)}),
             Cardinality({f \in required : covers(f) = Qualifications}),
             SumFunction(coverage), -SumFunction(missing), -Highest(figures),
             -Cardinality(UnsatisfiedBreaks(c, withLeads)) >>
    BY DEF CriticalScore
  <1> HIDE DEF required, covers, coverage, missing, figures
  <1> QED
    BY <1>1, <1>2, <1>3, <1>4, <1>5, <1>6, <1>7

----------------------------------------------------------------------------
\* The leads of what is published.

\* A lead with a reason stands at a need of the ordinary schedule, and its
\* flight needs again without it.
LEMMA ReasonsAreNeeds ==
  ASSUME ValidInput, NEW ordinary, NEW schedule \in SUBSET (Employees \X Flights),
         NEW p \in schedule, LeadReasons(schedule, ordinary, p[1], p[2]) # {}
  PROVE  /\ p[2] \in CriticalNeeds(ordinary)
         /\ p[2] \in CriticalNeeds(schedule \ {p})
  <1> DEFINE e == p[1]
             f == p[2]
             rest == schedule \ {p}
  <1>1. e \in Employees /\ f \in Flights /\ p = <<e, f>>
    OBVIOUS
  <1>2. CASE ~MeetsMinimum(ordinary, f) /\ StaffCount(schedule, f) <= Minimum
    <2>1. f \in CriticalNeeds(ordinary)
      BY <1>1, <1>2 DEF CriticalNeeds, Lacks
    <2>2. StaffCount(rest, f) = StaffCount(schedule, f) - 1
      <3>1. IsFiniteSet({q \in schedule : q[2] = f}) /\ p \in {q \in schedule : q[2] = f}
        BY <1>1, CountsAgree
      <3>2. {q \in rest : q[2] = f} = {q \in schedule : q[2] = f} \ {p}
        OBVIOUS
      <3> HIDE DEF rest, f
      <3> QED
        BY <3>1, <3>2, FS_RemoveElement DEF StaffCount
    <2>3. StaffCount(schedule, f) \in Nat
      BY <1>1, CountsAgree
    <2>4. Minimum \in Int
      BY DEF ValidInput, Configurations, Minimum
    <2>5. ~MeetsMinimum(rest, f)
      <3> HIDE DEF rest, f
      <3> QED
        BY <1>2, <2>2, <2>3, <2>4 DEF MeetsMinimum
    <2>6. f \in CriticalNeeds(rest)
      BY <1>1, <2>5 DEF CriticalNeeds, Lacks
    <2> QED
      BY <2>1, <2>6
  <1>3. CASE \E q \in day.employees[e].quals :
               /\ NeedsQualifications(f)
               /\ ~(MeetsMinimum(ordinary, f) /\ HasQualification(ordinary, f, q))
               /\ ~HasQualification(rest, f, q)
    <2>1. PICK q \in day.employees[e].quals :
            /\ NeedsQualifications(f)
            /\ ~(MeetsMinimum(ordinary, f) /\ HasQualification(ordinary, f, q))
            /\ ~HasQualification(rest, f, q)
      BY <1>3
    <2>2. q \in Qualifications
      BY <1>1, <2>1, DayTypes
    <2> HIDE DEF rest, f, e
    <2>3. Lacks(ordinary, f) # {} /\ Lacks(rest, f) # {}
      BY <2>1, <2>2 DEF Lacks
    <2> QED
      BY <1>1, <2>3 DEF CriticalNeeds, rest, f, e
  <1>4. \/ ~MeetsMinimum(ordinary, f) /\ StaffCount(schedule, f) <= Minimum
        \/ \E q \in day.employees[e].quals :
             /\ NeedsQualifications(f)
             /\ ~(MeetsMinimum(ordinary, f) /\ HasQualification(ordinary, f, q))
             /\ ~HasQualification(rest, f, q)
    BY <1>1 DEF LeadReasons
  <1> QED
    BY <1>2, <1>3, <1>4

----------------------------------------------------------------------------
\* The critical stages are the critical score.

\* The image of a finite domain is finite.
LEMMA RangeIsFinite ==
  ASSUME NEW v, IsFiniteSet(DOMAIN v) PROVE IsFiniteSet({v[x] : x \in DOMAIN v})
  <1> DEFINE S == DOMAIN v
             image == {v[x] : x \in S}
             h == [x \in S |-> v[x]]
  <1>1. h \in Surjection(S, image)
    <2>1. h \in [S -> image] /\ \A y \in image : \E x \in S : h[x] = y
      OBVIOUS
    <2> HIDE DEF h, image
    <2> QED
      BY <2>1 DEF Surjection
  <1> HIDE DEF h, image
  <1>2. IsFiniteSet(image)
    BY <1>1, FS_Surjection
  <1> QED
    BY <1>2 DEF image

LEMMA MinIsLeast ==
  ASSUME NEW S, IsFiniteSet(S), S # {}, \A x \in S : x \in Int
  PROVE  Min(S) \in S /\ \A x \in S : Min(S) <= x
  <1> DEFINE v == [x \in S |-> -x]
             mirror == {v[x] : x \in S}
  <1>1. IsFiniteSet(mirror) /\ mirror # {} /\ \A y \in mirror : y \in Int
    <2>1. IsFiniteSet({v[x] : x \in DOMAIN v}) /\ DOMAIN v = S
      <3>1. DOMAIN v = S
        OBVIOUS
      <3> HIDE DEF v
      <3> QED
        BY <3>1, RangeIsFinite
    <2>2. mirror # {} /\ \A y \in mirror : y \in Int
      OBVIOUS
    <2> HIDE DEF v
    <2> QED
      BY <2>1, <2>2
  <1>2. Max(mirror) \in mirror /\ \A y \in mirror : Max(mirror) >= y
    <2> HIDE DEF mirror
    <2> QED
      BY <1>1, MaxIsGreatest
  <1>3. PICK x \in S : Max(mirror) = -x
    BY <1>2
  <1>4. \A y \in S : -y \in mirror
    OBVIOUS
  <1> HIDE DEF mirror
  <1>5. \A y \in S : x <= y
    BY <1>2, <1>3, <1>4
  <1> QED
    BY <1>5 DEF Min

LEMMA LowestIsInteger ==
  ASSUME NEW S, IsFiniteSet(S), \A x \in S : x \in Int PROVE Lowest(S) \in Int
  BY MinIsLeast DEF Lowest

\* A sum over f \in S of bits that tell whether f is in a set T counts T.
LEMMA SumOfMembers ==
  ASSUME NEW S, IsFiniteSet(S), NEW term, term = [x \in S |-> term[x]],
         NEW T \in SUBSET S, \A x \in S : term[x] = Bit(x \in T)
  PROVE  SumFunction(term) = Cardinality(T)
  <1>1. \A x \in S : term[x] \in 0..1 /\ (term[x] = 1 <=> x \in T)
    BY DEF Bit
  <1>2. SumOn(term, S) = Cardinality({x \in S : term[x] = 1})
    BY <1>1, SumOfBits
  <1>3. {x \in S : term[x] = 1} = T
    BY <1>1
  <1>4. SumOn(term, S) = SumFunction([x \in S |-> term[x]])
    BY DEF SumOn
  <1> QED
    BY <1>2, <1>3, <1>4

\* What the linear encodings of staffing are left with.
LEMMA StaffingBits ==
  ASSUME ValidInput, leads \in BOOLEAN, candidates \subseteq LegalCandidates(leads),
         NEW c \in Solutions, NEW f \in Flights
  PROVE  /\ MinimumMet(c, f) = Bit(MeetsMinimum(c, f))
         /\ PreferredMet(c, f) \in 0..1
         /\ \A q \in Qualifications :
               /\ Covered(c, f, q) = Bit(HasQualification(c, f, q))
               /\ The(CoverageValues(c, f, q))
                    = Bit(MeetsMinimum(c, f) /\ HasQualification(c, f, q))
               /\ The(PartialValues(c, f, q)) \in 0..1
         /\ The(CompliantValues(c, f))
              = Bit(MeetsMinimum(c, f) /\ \A q \in Qualifications : HasQualification(c, f, q))
  <1>1. /\ c \in SUBSET (Employees \X Flights) /\ \A g \in Flights : Staff(c, g) <= Maximum(g)
    BY SolutionsAreLegal
  <1>2. StaffingAgrees(c)
    BY <1>1, StaffingExact
  <1> DEFINE met == MeetsMinimum(c, f)
             has(q) == HasQualification(c, f, q)
  <1>3. met \in BOOLEAN /\ \A q : has(q) \in BOOLEAN
    BY DEF MeetsMinimum, HasQualification
  <1>4. /\ MinimumMetValues(c, f) = {Bit(met)}
        /\ PreferredMetValues(c, f) = {Bit(StaffCount(c, f) >= Preferred(f))}
        /\ \A q \in Qualifications : /\ CoveredValues(c, f, q) = {Bit(has(q))}
                                     /\ CoverageValues(c, f, q) = {Bit(met /\ has(q))}
                                     /\ PartialValues(c, f, q) = {Bit(~met /\ has(q))}
    BY <1>2 DEF StaffingAgrees
  <1> HIDE DEF met, has
  <1>5. MinimumMet(c, f) = Bit(met)
    BY <1>4, BitValues DEF MinimumMet
  <1>6. PreferredMet(c, f) \in 0..1
    BY <1>4, BitValues DEF PreferredMet, Bit
  <1>7. ASSUME NEW q \in Qualifications
        PROVE  /\ Covered(c, f, q) = Bit(has(q))
               /\ The(CoverageValues(c, f, q)) = Bit(met /\ has(q))
               /\ The(PartialValues(c, f, q)) \in 0..1
    BY <1>4, BitValues DEF Covered, Bit
  <1>8. The(CompliantValues(c, f)) = Bit(met /\ \A q \in Qualifications : has(q))
    <2> DEFINE both == has("PUSH") /\ has("CLOSE_OUT")
    <2>1. "PUSH" \in Qualifications /\ "CLOSE_OUT" \in Qualifications
          /\ \A q \in Qualifications : q = "PUSH" \/ q = "CLOSE_OUT"
      BY DEF Qualifications
    <2>2. AndValues(Covered(c, f, "PUSH"), Covered(c, f, "CLOSE_OUT")) = {Bit(both)}
      BY <1>3, <1>7, <2>1, AndExact
    <2>3. both \in BOOLEAN /\ (both <=> \A q \in Qualifications : has(q))
      BY <1>3, <2>1
    <2> HIDE DEF both
    <2>4. CompliantValues(c, f) = {Bit(met /\ both)}
      <3>1. The(AndValues(Covered(c, f, "PUSH"), Covered(c, f, "CLOSE_OUT"))) = Bit(both)
        BY <2>2, BitValues
      <3>2. AndValues(Bit(met), Bit(both)) = {Bit(met /\ both)}
        BY <1>3, <2>3, AndExact
      <3> QED
        BY <1>5, <3>1, <3>2 DEF CompliantValues
    <2> QED
      BY <2>3, <2>4, BitValues DEF Bit
  <1> QED
    BY <1>5, <1>6, <1>7, <1>8 DEF met, has

LEMMA CriticalFigures ==
  ASSUME ValidInput, leads \in BOOLEAN, candidates \subseteq LegalCandidates(leads),
         NEW c \in Solutions
  PROVE  LET score == CriticalScore(c, leads)
         IN  /\ score[1] = MinimumCovered(c) /\ score[2] = CompliantFlights(c)
             /\ score[3] = StaffedCoverage(c) /\ score[4] = -TotalShortfall(c)
             /\ score[5] = -LargestShortfall(c) /\ score[6] = -KnownUnsatisfied(c)
  <1> DEFINE met == {f \in Flights : MeetsMinimum(c, f)}
             needing == {f \in Flights : NeedsQualifications(f)}
             required == {f \in Flights : NeedsQualifications(f) /\ MeetsMinimum(c, f)}
             covers(f) == {q \in Qualifications : HasQualification(c, f, q)}
             compliant == {f \in required : covers(f) = Qualifications}
  <1>0. c \in SUBSET (Employees \X Flights)
    BY SolutionsAreLegal
  <1>1. MinimumCovered(c) = Cardinality(met)
    <2> DEFINE term == [f \in Flights |-> MinimumMet(c, f)]
    <2>1. term = [f \in Flights |-> term[f]] /\ met \in SUBSET Flights
      OBVIOUS
    <2>2. \A f \in Flights : term[f] = Bit(f \in met)
      BY StaffingBits DEF Bit
    <2> HIDE DEF met, term
    <2>3. SumFunction(term) = Cardinality(met)
      BY <2>1, <2>2, FiniteDay, SumOfMembers
    <2> QED
      BY <2>3 DEF MinimumCovered, term
  <1>2. CompliantFlights(c) = Cardinality(compliant)
    <2> DEFINE term == [f \in needing |-> The(CompliantValues(c, f))]
    <2>1. term = [f \in needing |-> term[f]] /\ compliant \in SUBSET needing
      OBVIOUS
    <2>2. IsFiniteSet(needing)
      BY FiniteDay, FS_Subset
    <2>3. \A f \in needing : term[f] = Bit(f \in compliant)
      <3> TAKE f \in needing
      <3>1. covers(f) = Qualifications <=> \A q \in Qualifications : HasQualification(c, f, q)
        OBVIOUS
      <3>2. f \in compliant <=>
              MeetsMinimum(c, f) /\ \A q \in Qualifications : HasQualification(c, f, q)
        BY <3>1
      <3>3. term[f] = Bit(MeetsMinimum(c, f) /\ \A q \in Qualifications : HasQualification(c, f, q))
        BY StaffingBits
      <3> HIDE DEF term, compliant
      <3> QED
        BY <3>2, <3>3 DEF Bit
    <2> HIDE DEF compliant, term, needing
    <2>4. SumFunction(term) = Cardinality(compliant)
      BY <2>1, <2>2, <2>3, SumOfMembers
    <2> QED
      BY <2>4 DEF CompliantFlights, term, needing
  <1>3. StaffedCoverage(c) = SumFunction([f \in required |-> Cardinality(covers(f))])
    <2> DEFINE R == {r \in needing \X Qualifications :
                       MeetsMinimum(c, r[1]) /\ HasQualification(c, r[1], r[2])}
               term == [r \in Requirements |-> The(CoverageValues(c, r[1], r[2]))]
               row == [f \in needing |-> Cardinality({q \in Qualifications : <<f, q>> \in R})]
    <2>0. IsFiniteSet(needing) /\ IsFiniteSet(Qualifications)
          /\ IsFiniteSet(needing \X Qualifications) /\ Requirements = needing \X Qualifications
      <3>1. IsFiniteSet(needing)
        BY FiniteDay, FS_Subset
      <3>2. IsFiniteSet(Qualifications)
        <4>1. IsFiniteSet({"PUSH"}) /\ Qualifications = {"PUSH"} \cup {"CLOSE_OUT"}
          BY FS_Singleton DEF Qualifications
        <4> QED
          BY <4>1, FS_AddElement
      <3>3. Requirements = needing \X Qualifications
        BY DEF Requirements
      <3> HIDE DEF needing
      <3> QED
        BY <3>1, <3>2, <3>3, FS_Product
    <2>1. StaffedCoverage(c) = Cardinality(R)
      <3>1. term = [r \in Requirements |-> term[r]] /\ R \in SUBSET Requirements
        BY <2>0
      <3>2. \A r \in Requirements : term[r] = Bit(r \in R)
        <4> TAKE r \in Requirements
        <4>1. r[1] \in Flights /\ r[2] \in Qualifications /\ r \in needing \X Qualifications
          BY <2>0
        <4>2. term[r] = Bit(MeetsMinimum(c, r[1]) /\ HasQualification(c, r[1], r[2]))
          BY <4>1, StaffingBits
        <4>3. r \in R <=> MeetsMinimum(c, r[1]) /\ HasQualification(c, r[1], r[2])
          BY <4>1
        <4> HIDE DEF term, R
        <4> QED
          BY <4>2, <4>3 DEF Bit
      <3>3. IsFiniteSet(Requirements)
        BY <2>0
      <3> HIDE DEF term, R
      <3>4. SumFunction(term) = Cardinality(R)
        BY <3>1, <3>2, <3>3, SumOfMembers
      <3> QED
        BY <3>4 DEF StaffedCoverage, term
    <2>2. Cardinality(R) = SumOn(row, needing)
      <3>1. R \in SUBSET (needing \X Qualifications)
        OBVIOUS
      <3> HIDE DEF R, needing
      <3> QED
        BY <2>0, <3>1, SumOfRows
    <2>3. ASSUME NEW f \in needing
          PROVE  /\ row[f] \in Int
                 /\ f \in required => row[f] = Cardinality(covers(f))
                 /\ f \notin required => row[f] = 0
      <3> DEFINE here == {q \in Qualifications : <<f, q>> \in R}
      <3>1. f \in required => here = covers(f)
        OBVIOUS
      <3>2. f \notin required => here = {}
        OBVIOUS
      <3>3. row[f] = Cardinality(here)
        OBVIOUS
      <3>4. Cardinality(here) \in Nat
        <4>1. here \in SUBSET Qualifications
          OBVIOUS
        <4> HIDE DEF here
        <4> QED
          BY <2>0, <4>1, FS_Subset, FS_CardinalityType
      <3> HIDE DEF here, row, required, covers
      <3> QED
        BY <3>1, <3>2, <3>3, <3>4, FS_EmptySet
    <2>4. SumOn(row, needing) = SumOn(row, required)
      <3>1. required \in SUBSET needing
        OBVIOUS
      <3> HIDE DEF row, needing, required
      <3> QED
        BY <2>0, <2>3, <3>1, SumOfSupport
    <2>5. SumOn(row, required) = SumFunction([f \in required |-> Cardinality(covers(f))])
      <3>1. [f \in required |-> row[f]] = [f \in required |-> Cardinality(covers(f))]
        <4>1. \A f \in required : row[f] = Cardinality(covers(f))
          <5>1. \A f \in required : f \in needing
            OBVIOUS
          <5> HIDE DEF row, needing, required
          <5> QED
            BY <2>3, <5>1
        <4> HIDE DEF row, required, covers
        <4> QED
          BY <4>1
      <3> QED
        BY <3>1 DEF SumOn
    <2> HIDE DEF R, row, required, covers, needing
    <2> QED
      BY <2>1, <2>2, <2>4, <2>5
  <1>4. \A f \in Flights : Shortfall(c, f) = MissingStaff(c, f)
    <2> TAKE f \in Flights
    <2>1. StaffCount(c, f) = Staff(c, f)
      BY <1>0, CountsAgree
    <2>2. {Minimum - Staff(c, f), 0} = {0, Minimum - StaffCount(c, f)}
      BY <2>1
    <2> QED
      BY <2>2 DEF Shortfall, MissingStaff
  <1>5. TotalShortfall(c) = SumFunction([f \in Flights |-> MissingStaff(c, f)])
    <2>1. [f \in Flights |-> Shortfall(c, f)] = [f \in Flights |-> MissingStaff(c, f)]
      BY <1>4
    <2> QED
      BY <2>1 DEF TotalShortfall
  <1>6. LargestShortfall(c) = Highest({MissingStaff(c, f) : f \in Flights})
    <2>1. {Shortfall(c, f) : f \in Flights} = {MissingStaff(c, f) : f \in Flights}
      BY <1>4
    <2> QED
      BY <2>1 DEF LargestShortfall
  <1>7. KnownUnsatisfied(c) = Cardinality(UnsatisfiedBreaks(c, leads))
    <2> DEFINE E == Represented(leads)
               U == UnsatisfiedBreaks(c, leads)
               term == [e \in E |-> The(UnsatisfiedValues(c, e))]
    <2>1. term = [e \in E |-> term[e]] /\ U \in SUBSET E
      BY DEF UnsatisfiedBreaks
    <2>2. E \subseteq Employees /\ IsFiniteSet(E)
      <3>1. E \subseteq Employees
        BY DEF Represented
      <3> QED
        BY <3>1, FiniteDay, FS_Subset
    <2>3. \A e \in E : term[e] = Bit(e \in U)
      <3> TAKE e \in E
      <3> DEFINE missed == BreakStatus(c, e, leads) = "UNSATISFIED"
      <3>1. UnsatisfiedValues(c, e) = {Bit(missed)}
        BY <2>2, BreaksExact
      <3>2. e \in U <=> missed
        BY DEF UnsatisfiedBreaks
      <3>3. term[e] = The(UnsatisfiedValues(c, e))
        OBVIOUS
      <3> HIDE DEF missed, term, U, E
      <3> QED
        BY <3>1, <3>2, <3>3, BitValues DEF Bit
    <2> HIDE DEF term, U, E
    <2>4. SumFunction(term) = Cardinality(U)
      BY <2>1, <2>2, <2>3, SumOfMembers
    <2> QED
      BY <2>4 DEF KnownUnsatisfied, term, U, E
  <1>8. CriticalScore(c, leads) =
          << Cardinality(met), Cardinality(compliant),
             SumFunction([f \in required |-> Cardinality(covers(f))]),
             -SumFunction([f \in Flights |-> MissingStaff(c, f)]),
             -Highest({MissingStaff(c, f) : f \in Flights}),
             -Cardinality(UnsatisfiedBreaks(c, leads)) >>
    BY DEF CriticalScore
  <1> HIDE DEF met, needing, required, covers, compliant
  <1> QED
    BY <1>1, <1>2, <1>3, <1>5, <1>6, <1>7, <1>8

----------------------------------------------------------------------------
\* The solution a pass keeps.

StageNames == {CriticalStages[i] : i \in 1..6} \cup {LeadStage} \cup {LaterStages[i] : i \in 1..11}

LEMMA SeqOfParts ==
  ASSUME NEW n \in Nat, NEW s, s = [i \in 1..n |-> s[i]], NEW V, \A i \in 1..n : s[i] \in V
  PROVE  s \in Seq(V) /\ Len(s) = n
  OBVIOUS

LEMMA Concatenated ==
  ASSUME NEW V, NEW s \in Seq(V), NEW t \in Seq(V)
  PROVE  /\ s \o t \in Seq(V) /\ Len(s \o t) = Len(s) + Len(t)
         /\ Len(s) \in Nat /\ Len(t) \in Nat
         /\ \A i \in 1..Len(s) : (s \o t)[i] = s[i]
         /\ \A i \in 1..Len(t) : (s \o t)[Len(s) + i] = t[i]
  OBVIOUS

LEMMA StageCount ==
  ASSUME NEW withLeads \in BOOLEAN
  PROVE  /\ StagesOf(withLeads) \in Seq(StageNames)
         /\ Len(StagesOf(withLeads)) = IF withLeads THEN 18 ELSE 17
         /\ \A i \in 1..6 : StagesOf(withLeads)[i] = CriticalStages[i]
  <1>1. CriticalStages \in Seq(StageNames) /\ Len(CriticalStages) = 6
    <2>1. CriticalStages = [i \in 1..6 |-> CriticalStages[i]]
      BY DEF CriticalStages
    <2> QED
      BY <2>1, SeqOfParts DEF StageNames
  <1>2. LaterStages \in Seq(StageNames) /\ Len(LaterStages) = 11
    <2>1. LaterStages = [i \in 1..11 |-> LaterStages[i]]
      BY DEF LaterStages
    <2> QED
      BY <2>1, SeqOfParts DEF StageNames
  <1>3. <<LeadStage>> \in Seq(StageNames) /\ Len(<<LeadStage>>) = 1
    BY DEF StageNames
  <1> DEFINE middle == IF withLeads THEN <<LeadStage>> ELSE <<>>
             head == CriticalStages \o middle
             size == IF withLeads THEN 1 ELSE 0
  <1>4. middle \in Seq(StageNames) /\ Len(middle) = size /\ size \in Nat
    <2>1. CASE withLeads
      <3>1. middle = <<LeadStage>> /\ size = 1
        BY <2>1
      <3> HIDE DEF middle, size
      <3> QED
        BY <1>3, <3>1
    <2>2. CASE ~withLeads
      <3>1. middle = <<>> /\ size = 0
        BY <2>2
      <3> HIDE DEF middle, size
      <3> QED
        BY <3>1
    <2> QED
      BY <2>1, <2>2
  <1>5. StagesOf(withLeads) = head \o LaterStages
    BY DEF StagesOf
  <1> HIDE DEF middle
  <1>6. /\ head \in Seq(StageNames) /\ Len(head) = 6 + size
        /\ \A i \in 1..6 : head[i] = CriticalStages[i]
    <2>1. /\ head \in Seq(StageNames) /\ Len(head) = Len(CriticalStages) + Len(middle)
          /\ \A i \in 1..Len(CriticalStages) : head[i] = CriticalStages[i]
      <3> HIDE DEF size
      <3> QED
        BY <1>1, <1>4, Concatenated
    <2> HIDE DEF head, size
    <2> QED
      BY <1>1, <1>4, <2>1
  <1> HIDE DEF head
  <1> DEFINE all == head \o LaterStages
  <1>7. /\ all \in Seq(StageNames) /\ Len(all) = Len(head) + Len(LaterStages)
        /\ \A i \in 1..Len(head) : all[i] = head[i]
    <2>1. head \in Seq(StageNames) /\ LaterStages \in Seq(StageNames)
      BY <1>2, <1>6
    <2> HIDE DEF size
    <2> QED
      BY <2>1, Concatenated
  <1>8. StagesOf(withLeads) = all
    BY <1>5
  <1>9. Len(all) = 17 + size /\ \A i \in 1..6 : all[i] = CriticalStages[i]
    <2> HIDE DEF size, all
    <2>1. \A i \in 1..6 : i \in 1..Len(head)
      BY <1>4, <1>6
    <2> QED
      BY <1>2, <1>4, <1>6, <1>7, <2>1
  <1>10. 17 + size = IF withLeads THEN 18 ELSE 17
    OBVIOUS
  <1> HIDE DEF all, size
  <1> QED
    BY <1>7, <1>8, <1>9, <1>10

\* A pass that is past building its model has a model without assertions to
\* fail, over legal candidates; what it keeps is one of the model's solutions.
KeptOK ==
  /\ phase \in {"STAGE", "ENDED"} => ~BuildRaises /\ candidates \subseteq LegalCandidates(leads)
  /\ phase = "STAGE" /\ values # <<>> => crews \in Solutions
  /\ phase = "ENDED" /\ status # "UNKNOWN" => crews \in Solutions

LEMMA KeptStep ==
  ASSUME PassOK, TruthOK, KeptOK, [PassNext]_passVars PROVE KeptOK'
  <1> USE DEF KeptOK
  <1>1. CASE ValidateInput
    BY <1>1 DEF ValidateInput, Validate
  <1>2. CASE BuildPass
    <2>1. /\ SameInput /\ leads' = leads /\ candidates' = PassCandidates /\ leads \in BOOLEAN
          /\ phase' \in {"RAISED", "STAGE"} /\ values' = <<>>
          /\ phase' = "STAGE" => ~BuildRaises'
      BY <1>2 DEF BuildPass, inputVars, SameInput, PassOK
    <2>2. candidates' \subseteq LegalCandidates(leads)'
      <3>1. CASE leads = TRUE
        BY <2>1, <3>1, LegalCandidatesKept DEF PassCandidates
      <3>2. CASE leads = FALSE
        BY <2>1, <3>2, LegalCandidatesKept DEF PassCandidates
      <3> QED
        BY <2>1, <3>1, <3>2
    <2> QED
      BY <2>1, <2>2
  <1>3. CASE ProveStage \/ ProveLastStage \/ StopFeasible \/ StopUnknown
    <2>1. /\ SameModel /\ leads' = leads /\ phase = "STAGE" /\ phase' \in {"STAGE", "ENDED"}
      BY <1>3
      DEF ProveStage, ProveLastStage, StopFeasible, StopUnknown, MayTimeOut, SolvingFrame,
          SameModel, SameInput, inputVars
    <2>2. /\ BuildRaises' = BuildRaises /\ Solutions' = Solutions
          /\ LegalCandidates(leads)' = LegalCandidates(leads)
      BY <2>1, BuildRaisesKept, SolutionsKept, LegalCandidatesKept DEF SameModel
    <2>3. \/ crews' \in Solutions
          \/ phase' = "ENDED" /\ status' = "UNKNOWN"
      <3>1. CASE ProveStage
        BY <2>1, <3>1 DEF ProveStage, PassOK
      <3>2. CASE ProveLastStage
        <4>1. Len(values) + 1 > Len(Stages) /\ crews' = crews /\ leads \in BOOLEAN
          BY <3>2 DEF ProveLastStage, Stage, PassOK
        <4>2. values # <<>>
          BY <4>1, StageCount DEF Stages
        <4> QED
          BY <2>1, <4>1, <4>2
      <3>3. CASE StopFeasible
        BY <2>1, <3>3 DEF StopFeasible, PassOK
      <3>4. CASE StopUnknown
        BY <2>1, <3>4 DEF StopUnknown
      <3> QED
        BY <1>3, <3>1, <3>2, <3>3, <3>4
    <2> QED
      BY <2>1, <2>2, <2>3 DEF SameModel
  <1>4. CASE FinishOrdinary \/ StartEmergency \/ FinishEmergency
    BY <1>4 DEF FinishOrdinary, StartEmergency, FinishEmergency
  <1>5. CASE UNCHANGED passVars
    <2>1. /\ SameModel /\ phase' = phase /\ leads' = leads /\ status' = status
          /\ crews' = crews /\ values' = values
      BY <1>5 DEF passVars, solverVars, SameModel, SameInput, inputVars
    <2>2. /\ BuildRaises' = BuildRaises /\ Solutions' = Solutions
          /\ LegalCandidates(leads)' = LegalCandidates(leads)
      BY <2>1, BuildRaisesKept, SolutionsKept, LegalCandidatesKept DEF SameModel
    <2> QED
      BY <2>1, <2>2 DEF SameModel
  <1> QED
    BY <1>1, <1>2, <1>3, <1>4, <1>5 DEF PassNext, PassDone

LEMMA KeptInvariant == PassSpec => [](PassOK /\ TruthOK /\ KeptOK)
  <1>1. PassInit => KeptOK
    BY DEF PassInit, Init, KeptOK
  <1>2. PassOK /\ TruthOK /\ KeptOK /\ [PassNext]_passVars => KeptOK'
    BY KeptStep
  <1> QED
    BY <1>1, <1>2, PassInvariant, PTL DEF PassSpec

(* The figures of the schedule either pass ends with, whether its last stage was
   proven or not, are those a scan of the schedule gives; with leads as well as
   without them. *)
THEOREM PassFigures == PassSpec => []PassFiguresAgree
  <1>1. PassOK /\ KeptOK => PassFiguresAgree
    <2> SUFFICES ASSUME PassOK, KeptOK, phase = "ENDED", status # "UNKNOWN"
                 PROVE  BreaksAgree(crews) /\ StreaksAgree(crews) /\ StaffingAgrees(crews)
      BY DEF PassFiguresAgree
    <2>1. /\ ValidInput /\ leads \in BOOLEAN /\ candidates \subseteq LegalCandidates(leads)
          /\ crews \in Solutions /\ ShiftsAreUnique
      BY DEF PassOK, KeptOK, ValidInput, BuildRaises
    <2>2. BreaksAgree(crews)
      BY <2>1, BreaksExact DEF BreaksAgree, Represented
    <2>3. StreaksAgree(crews)
      BY <2>1, StreaksExact DEF StreaksAgree
    <2>4. StaffingAgrees(crews)
      BY <2>1, SolutionsAreLegal, StaffingExact
    <2> QED
      BY <2>2, <2>3, <2>4
  <1> QED
    BY <1>1, KeptInvariant, PTL

----------------------------------------------------------------------------
\* Every stage has an integer to compare.

LEMMA FiniteRequirements ==
  ASSUME ValidInput
  PROVE  /\ IsFiniteSet(Requirements)
         /\ \A r \in Requirements : r[1] \in Flights /\ r[2] \in Qualifications
  <1>1. IsFiniteSet({f \in Flights : NeedsQualifications(f)})
    BY FiniteDay, FS_Subset
  <1>2. IsFiniteSet(Qualifications)
    <2>1. IsFiniteSet({"PUSH"}) /\ Qualifications = {"PUSH"} \cup {"CLOSE_OUT"}
      BY FS_Singleton DEF Qualifications
    <2> QED
      BY <2>1, FS_AddElement
  <1> QED
    BY <1>1, <1>2, FS_Product DEF Requirements

LEMMA SpreadIsInteger ==
  ASSUME NEW v, IsFiniteSet(DOMAIN v), \A x \in DOMAIN v : v[x] \in Int
  PROVE  /\ Spread(v) \in Int /\ Highest(Range(v)) \in Int
         /\ SumFunction(v) \in Int
  <1>1. Range(v) = {v[x] : x \in DOMAIN v}
    BY DEF Range
  <1>2. IsFiniteSet(Range(v)) /\ \A y \in Range(v) : y \in Int
    BY <1>1, RangeIsFinite
  <1>3. Highest(Range(v)) \in Int /\ Lowest(Range(v)) \in Int
    BY <1>2, HighestIsInteger, LowestIsInteger
  <1> QED
    BY <1>3, IntegerTotal DEF Spread

LEMMA PairsAreIntegers ==
  ASSUME NEW n \in Nat, NEW S \in SUBSET (1..n), NEW v, DOMAIN v = S, \A x \in S : v[x] \in Int
  PROVE  PairDistances(v) \in Int
  <1> DEFINE term == [p \in OrderedPairs(S) |-> Distance(v[p[1]], v[p[2]])]
  <1>1. IsFiniteSet(OrderedPairs(S))
    <2>1. IsFiniteSet(1..n)
      BY FS_Interval
    <2>2. IsFiniteSet(S \X S)
      BY <2>1, FS_Subset, FS_Product
    <2>3. OrderedPairs(S) \in SUBSET (S \X S)
      BY DEF OrderedPairs
    <2> QED
      BY <2>2, <2>3, FS_Subset
  <1>2. \A p \in OrderedPairs(S) : term[p] \in Int
    <2> TAKE p \in OrderedPairs(S)
    <2>1. v[p[1]] \in Int /\ v[p[2]] \in Int
      BY DEF OrderedPairs
    <2>2. Distance(v[p[1]], v[p[2]]) \in Int
      BY <2>1 DEF Distance
    <2> QED
      BY <2>2
  <1>3. DOMAIN term = OrderedPairs(S)
    OBVIOUS
  <1>4. PairDistances(v) = SumFunction(term)
    BY DEF PairDistances
  <1> HIDE DEF term
  <1> QED
    BY <1>1, <1>2, <1>3, <1>4, IntegerTotal

LEMMA ShiftMinutesAreIntegers ==
  ASSUME ValidInput, NEW e PROVE ShiftMinutes(e, FALSE) \in Int
  <1> DEFINE S == AllowedShifts(e, FALSE)
             term == [s \in S |-> ShiftLength(s)]
  <1>1. IsFiniteSet(S) /\ S \subseteq Shifts
    <2>1. S \subseteq Shifts
      BY DEF AllowedShifts, ShiftsOf
    <2> QED
      BY <2>1, FiniteDay, FS_Subset
  <1>2. \A s \in S : ShiftLength(s) \in Int
    <2> TAKE s \in S
    <2>1. s \in Shifts
      BY <1>1
    <2> HIDE DEF S
    <2>2. day.shifts[s].end \in Int /\ day.shifts[s].start \in Int
      BY <2>1, DayTypes
    <2> QED
      BY <2>2 DEF ShiftLength
  <1>3. DOMAIN term = S /\ \A s \in S : term[s] \in Int
    BY <1>2
  <1>4. ShiftMinutes(e, FALSE) = SumFunction(term)
    BY DEF ShiftMinutes
  <1> HIDE DEF term, S
  <1> QED
    BY <1>1, <1>3, <1>4, IntegerTotal

LEMMA ProductIsInteger ==
  ASSUME NEW a \in Int, NEW b \in Int PROVE a * b \in Int
  OBVIOUS

LEMMA FiniteParticipants ==
  ASSUME ValidInput PROVE Participants \in SUBSET Employees /\ IsFiniteSet(Participants)
  <1>1. Participants \in SUBSET Employees
    BY DEF Participants, Represented
  <1> QED
    BY <1>1, FiniteDay, FS_Subset

\* The stages of staffing.
LEMMA StaffingStages ==
  ASSUME ValidInput, leads \in BOOLEAN, candidates \subseteq LegalCandidates(leads),
         NEW c \in Solutions
  PROVE  /\ MinimumCovered(c) \in Int /\ CompliantFlights(c) \in Int
         /\ StaffedCoverage(c) \in Int /\ TotalShortfall(c) \in Int
         /\ LargestShortfall(c) \in Int /\ KnownUnsatisfied(c) \in Int
         /\ PreferredStaffed(c) \in Int /\ TotalPreferredShortfall(c) \in Int
         /\ PartialCoverage(c) \in Int /\ TotalLeads(c) \in Int
  <1>0. c \in SUBSET (Employees \X Flights)
    BY SolutionsAreLegal
  <1>1. MinimumCovered(c) \in Int
    <2>1. \A f \in Flights : MinimumMet(c, f) \in Int
      BY StaffingBits DEF Bit
    <2> QED
      BY <2>1, FiniteDay, IntegerTotal DEF MinimumCovered
  <1>2. CompliantFlights(c) \in Int
    <2> DEFINE S == {f \in Flights : NeedsQualifications(f)}
    <2>1. IsFiniteSet(S) /\ \A f \in S : The(CompliantValues(c, f)) \in Int
      BY StaffingBits, FiniteDay, FS_Subset DEF Bit
    <2> HIDE DEF S
    <2>2. SumFunction([f \in S |-> The(CompliantValues(c, f))]) \in Int
      BY <2>1, IntegerTotal
    <2> QED
      BY <2>2 DEF CompliantFlights, S
  <1>3. StaffedCoverage(c) \in Int
    <2>1. \A r \in Requirements : The(CoverageValues(c, r[1], r[2])) \in Int
      BY FiniteRequirements, StaffingBits DEF Bit
    <2> QED
      BY <2>1, FiniteRequirements, IntegerTotal DEF StaffedCoverage
  <1>4. \A f \in Flights : Shortfall(c, f) \in Int /\ Staff(c, f) \in Int
    <2> TAKE f \in Flights
    <2>1. Staff(c, f) \in Int
      <3>1. StaffCount(c, f) = Staff(c, f) /\ StaffCount(c, f) \in Nat
        BY <1>0, CountsAgree
      <3> QED
        BY <3>1
    <2>2. Minimum \in Int
      BY StaffingTypes
    <2>3. IsFiniteSet({Minimum - Staff(c, f), 0})
      <3>1. IsFiniteSet({0}) /\ {Minimum - Staff(c, f), 0} = {0} \cup {Minimum - Staff(c, f)}
        BY FS_Singleton
      <3> QED
        BY <3>1, FS_AddElement
    <2> QED
      BY <2>1, <2>2, <2>3, HighestIsInteger DEF Shortfall
  <1>5. TotalShortfall(c) \in Int
    BY <1>4, FiniteDay, IntegerTotal DEF TotalShortfall
  <1>6. LargestShortfall(c) \in Int
    <2> DEFINE v == [f \in Flights |-> Shortfall(c, f)]
    <2>1. DOMAIN v = Flights /\ \A f \in Flights : v[f] \in Int
      BY <1>4
    <2>2. Range(v) = {Shortfall(c, f) : f \in Flights}
      BY DEF Range
    <2> HIDE DEF v
    <2> QED
      BY <2>1, <2>2, FiniteDay, SpreadIsInteger DEF LargestShortfall
  <1>7. KnownUnsatisfied(c) \in Int
    <2>1. Represented(leads) \in SUBSET Employees /\ IsFiniteSet(Represented(leads))
      <3>1. Represented(leads) \in SUBSET Employees
        BY DEF Represented
      <3> QED
        BY <3>1, FiniteDay, FS_Subset
    <2>2. \A e \in Represented(leads) : The(UnsatisfiedValues(c, e)) \in Int
      <3> TAKE e \in Represented(leads)
      <3> DEFINE missed == BreakStatus(c, e, leads) = "UNSATISFIED"
      <3>1. UnsatisfiedValues(c, e) = {Bit(missed)}
        BY <2>1, BreaksExact
      <3>2. The({Bit(missed)}) = Bit(missed)
        BY BitValues
      <3> QED
        BY <3>1, <3>2 DEF Bit
    <2> QED
      BY <2>1, <2>2, IntegerTotal DEF KnownUnsatisfied
  <1>8. PreferredStaffed(c) \in Int
    <2>1. \A f \in Flights : PreferredMet(c, f) \in Int
      BY StaffingBits
    <2> QED
      BY <2>1, FiniteDay, IntegerTotal DEF PreferredStaffed
  <1>9. TotalPreferredShortfall(c) \in Int
    <2>1. \A f \in Flights : PreferredShortfall(c, f) \in Int
      BY <1>4, StaffingTypes DEF PreferredShortfall
    <2> QED
      BY <2>1, FiniteDay, IntegerTotal DEF TotalPreferredShortfall
  <1>10. PartialCoverage(c) \in Int
    <2>1. \A r \in Requirements : The(PartialValues(c, r[1], r[2])) \in Int
      BY FiniteRequirements, StaffingBits
    <2> QED
      BY <2>1, FiniteRequirements, IntegerTotal DEF PartialCoverage
  <1>11. TotalLeads(c) \in Int
    <2>1. IsFiniteSet(Employees \X Flights)
      BY FiniteDay, FS_Product
    <2>2. c \cap LeadDecisions \in SUBSET (Employees \X Flights)
      BY <1>0
    <2> QED
      BY <2>1, <2>2, FS_Subset, FS_CardinalityType DEF TotalLeads
  <1> QED
    BY <1>1, <1>2, <1>3, <1>5, <1>6, <1>7, <1>8, <1>9, <1>10, <1>11

\* The stages of fairness, streaks, workload and continuity.
LEMMA FairnessStages ==
  ASSUME ValidInput, leads \in BOOLEAN, candidates \subseteq LegalCandidates(leads),
         ShiftsAreUnique, NEW c \in Solutions
  PROVE  /\ Spread(Counts(c)) \in Int /\ PairDistances(Counts(c)) \in Int
         /\ Highest(Range(Streaks(c))) \in Int /\ SumFunction(Streaks(c)) \in Int
         /\ SumFunction(Deviations(c)) \in Int
         /\ Spread(Workloads(c)) \in Int /\ PairDistances(Workloads(c)) \in Int
         /\ Retained(c) \in Int
  <1>0. c \in SUBSET (Employees \X Flights)
    BY SolutionsAreLegal
  <1>1. /\ Participants \in SUBSET (1..Len(day.employees)) /\ Len(day.employees) \in Nat
        /\ IsFiniteSet(Participants) /\ Participants \in SUBSET Employees
    BY FiniteParticipants, DayTypes
  <1>2. \A e \in Participants : Count(c, e) \in Int
    BY <1>1, AssignedIsPossible, FS_CardinalityType DEF Count
  <1>3. DOMAIN Counts(c) = Participants /\ \A e \in Participants : Counts(c)[e] \in Int
    BY <1>2 DEF Counts
  <1>4. \A e \in Participants : LongestStreak(c, e) \in Int
    <2> TAKE e \in Participants
    <2> DEFINE run == [f \in Possible(e) |-> RunAt(c, e, f, leads)]
    <2>1. RunLengthValues(c, e) = {run}
          /\ \A f \in Possible(e) : RunAt(c, e, f, leads) \in 0..Cardinality(Group(e, f))
      BY StreaksExact
    <2>2. DOMAIN run = Possible(e) /\ \A f \in Possible(e) : run[f] \in Int
      BY <2>1
    <2>3. Range(run) = {run[f] : f \in Possible(e)}
      BY DEF Range
    <2>4. The(RunLengthValues(c, e)) = run
      BY <2>1, BitValues
    <2>5. IsFiniteSet(Possible(e))
      BY <1>1, AssignedIsPossible
    <2> HIDE DEF run
    <2>6. Highest(Range(run)) \in Int
      BY <2>2, <2>5, SpreadIsInteger
    <2> QED
      BY <2>3, <2>4, <2>6 DEF LongestStreak
  <1>5. DOMAIN Streaks(c) = Participants /\ \A e \in Participants : Streaks(c)[e] \in Int
    BY <1>4 DEF Streaks
  <1>6. \A e \in Participants : Deviation(c, e) \in Int
    <2>1. TotalCount(c) \in Int
      BY <1>1, <1>2, IntegerTotal DEF TotalCount
    <2>2. TotalShiftMinutes \in Int
      BY <1>1, ShiftMinutesAreIntegers, IntegerTotal DEF TotalShiftMinutes
    <2> TAKE e \in Participants
    <2>3. Count(c, e) \in Int /\ ShiftMinutes(e, FALSE) \in Int
      BY <1>2, ShiftMinutesAreIntegers
    <2>4. /\ Count(c, e) * TotalShiftMinutes \in Int
          /\ TotalCount(c) * ShiftMinutes(e, FALSE) \in Int
      BY <2>1, <2>2, <2>3, ProductIsInteger
    <2>5. \A a, b \in Int : Distance(a, b) \in Int
      BY DEF Distance
    <2> QED
      BY <2>4, <2>5 DEF Deviation
  <1>7. DOMAIN Deviations(c) = Participants /\ \A e \in Participants : Deviations(c)[e] \in Int
    BY <1>6 DEF Deviations
  <1>8. \A e \in Participants : Workload(c, e) \in Int
    BY <1>0, <1>1, WorkloadExact
  <1>9. DOMAIN Workloads(c) = Participants /\ \A e \in Participants : Workloads(c)[e] \in Int
    BY <1>8 DEF Workloads
  <1>10. Retained(c) \in Int
    <2>1. IsFiniteSet(Retentions)
      <3>1. IsFiniteSet(Flights \X Flights) /\ ContinuityPairs \in SUBSET (Flights \X Flights)
        BY FiniteDay, FS_Product DEF ContinuityPairs
      <3>2. IsFiniteSet(ContinuityPairs)
        BY <3>1, FS_Subset
      <3>3. IsFiniteSet(ContinuityPairs \X Participants)
        BY <1>1, <3>2, FS_Product
      <3>4. Retentions \in SUBSET (ContinuityPairs \X Participants)
        BY DEF Retentions
      <3> QED
        BY <3>3, <3>4, FS_Subset
    <2>2. \A t \in Retentions :
            The(AndValues(Value(c, t[2], t[1][1]), Value(c, t[2], t[1][2]))) \in Int
      <3> TAKE t \in Retentions
      <3> DEFINE a == <<t[2], t[1][1]>> \in c
                 b == <<t[2], t[1][2]>> \in c
      <3>0. a \in BOOLEAN /\ b \in BOOLEAN
        OBVIOUS
      <3> HIDE DEF a, b
      <3>1. AndValues(Bit(a), Bit(b)) = {Bit(a /\ b)}
        BY <3>0, AndExact
      <3>2. The(AndValues(Bit(a), Bit(b))) \in Int
        <4>1. The({Bit(a /\ b)}) = Bit(a /\ b)
          BY BitValues
        <4> QED
          BY <3>1, <4>1 DEF Bit
      <3> QED
        BY <3>2 DEF a, b, Value
    <2> QED
      BY <2>1, <2>2, IntegerTotal DEF Retained
  <1> QED
    BY <1>1, <1>3, <1>5, <1>7, <1>9, <1>10, SpreadIsInteger, PairsAreIntegers

LEMMA ObjectivesAreIntegers ==
  ASSUME ValidInput, leads \in BOOLEAN, candidates \subseteq LegalCandidates(leads),
         ShiftsAreUnique, NEW c \in Solutions, NEW name \in StageNames
  PROVE  Objective(c, name) \in Int
  <1>1. \/ name = LeadStage
        \/ \E i \in 1..6 : name = CriticalStages[i]
        \/ \E i \in 1..11 : name = LaterStages[i]
    BY DEF StageNames
  <1>2. CASE name = LeadStage
    BY <1>2, StaffingStages DEF Objective, LeadStage
  <1>3. CASE \E i \in 1..6 : name = CriticalStages[i]
    <2>1. \/ name = "minimum_covered_flights"
          \/ name = "minimum_staffed_qualification_compliant_flights"
          \/ name = "minimum_staffed_individual_qualification_coverage"
          \/ name = "total_minimum_shortfall" \/ name = "largest_minimum_shortfall"
          \/ name = "known_unsatisfied_required_breaks"
      BY <1>3 DEF CriticalStages
    <2> QED
      BY <2>1, StaffingStages DEF Objective
  <1>4. CASE \E i \in 1..11 : name = LaterStages[i]
    <2>1. \/ name = "preferred_staffed_flights" \/ name = "total_preferred_shortfall"
          \/ name = "partial_crew_individual_qualification_coverage"
          \/ name = "raw_flight_count_spread"
          \/ name = "total_pairwise_flight_count_difference"
          \/ name = "maximum_consecutive_flight_streak"
          \/ name = "total_employee_longest_streaks"
          \/ name = "total_shift_adjusted_flight_count_deviation"
          \/ name = "adjusted_workload_spread"
          \/ name = "total_pairwise_adjusted_workload_difference"
          \/ name = "total_continuity_retention"
      BY <1>4 DEF LaterStages
    <2> QED
      BY <2>1, StaffingStages, FairnessStages DEF Objective, LeadStage
  <1> QED
    BY <1>1, <1>2, <1>3, <1>4

----------------------------------------------------------------------------
\* Locking a proven value leaves the best of what was left.

LEMMA AllButLast ==
  ASSUME NEW s, Recorded(s), NEW x
  PROVE  SubSeq(Append(s, x), 1, Len(Append(s, x)) - 1) = s
  <1> DEFINE V == {s[i] : i \in DOMAIN s} \cup {x}
             t == Append(s, x)
  <1>1. s \in Seq(V)
    <2>1. s \in Seq({s[i] : i \in DOMAIN s})
      BY DEF Recorded
    <2> DEFINE R == {s[i] : i \in DOMAIN s}
    <2>2. s \in Seq(R) /\ R \subseteq V
      BY <2>1
    <2> HIDE DEF R, V
    <2> QED
      BY <2>2
  <1>2. x \in V
    OBVIOUS
  <1> HIDE DEF V
  <1>3. t \in Seq(V) /\ Len(t) - 1 = Len(s) /\ Len(s) \in Nat
    BY <1>1, <1>2
  <1>4. \A i \in 1..Len(s) : t[i] = s[i]
    BY <1>1, <1>2
  <1> HIDE DEF t
  <1>5. SubSeq(t, 1, Len(s)) = s
    BY <1>1, <1>3, <1>4
  <1> QED
    BY <1>3, <1>5 DEF t

LEMMA BeatsPrefix ==
  ASSUME NEW s, NEW t, Recorded(t), t # <<>>, Beats(s, SubSeq(t, 1, Len(t) - 1))
  PROVE  Beats(s, t)
  <1> DEFINE V == {t[i] : i \in DOMAIN t}
             u == SubSeq(t, 1, Len(t) - 1)
  <1>1. t \in Seq(V)
    BY DEF Recorded
  <1> HIDE DEF V
  <1>2. Len(t) \in Nat /\ Len(t) > 0 /\ DOMAIN t = 1..Len(t)
    BY <1>1
  <1>3. DOMAIN u = 1..(Len(t) - 1) /\ \A i \in 1..(Len(t) - 1) : u[i] = t[i]
    BY <1>1, <1>2
  <1> HIDE DEF u
  <1>4. Beats(s, u)
    BY DEF u
  <1>5. PICK i \in 1..(Len(t) - 1) :
          /\ Gains(Stages[i], u[i], Objective(s, Stages[i]))
          /\ \A j \in 1..(i - 1) : Objective(s, Stages[j]) = u[j]
    BY <1>3, <1>4 DEF Beats
  <1>6. i \in DOMAIN t /\ u[i] = t[i] /\ \A j \in 1..(i - 1) : u[j] = t[j]
    BY <1>2, <1>3, <1>5
  <1> QED
    BY <1>5, <1>6 DEF Beats

LEMMA BeatsKept ==
  ASSUME SameModel, NEW s, NEW recorded PROVE Beats(s, recorded)' = Beats(s, recorded)
  <1>1. Stages' = Stages
    BY DEF Stages, StagesOf, SameModel
  <1> QED
    BY <1>1, ObjectiveKept DEF Beats

\* No schedule of a finite space gains on its best value.
LEMMA BestIsBest ==
  ASSUME NEW S, IsFiniteSet(S), NEW name, \A c \in S : Objective(c, name) \in Int,
         NEW s \in S
  PROVE  ~Gains(name, Best(S, name), Objective(s, name))
  <1> DEFINE v == [c \in S |-> Objective(c, name)]
             found == {Objective(c, name) : c \in S}
  <1>1. IsFiniteSet(found)
    <2>1. DOMAIN v = S /\ {v[c] : c \in DOMAIN v} = found
      OBVIOUS
    <2> HIDE DEF v, found
    <2> QED
      BY <2>1, RangeIsFinite
  <1>2. found # {} /\ (\A x \in found : x \in Int) /\ Objective(s, name) \in found
    OBVIOUS
  <1>3. Best(S, name) = IF name \in Maximized THEN Max(found) ELSE Min(found)
    BY DEF Best
  <1> HIDE DEF found
  <1>4. /\ Max(found) \in found /\ \A x \in found : Max(found) >= x
        /\ Min(found) \in found /\ \A x \in found : Min(found) <= x
    BY <1>1, <1>2, MaxIsGreatest, MinIsLeast
  <1> QED
    BY <1>2, <1>3, <1>4 DEF Gains

LEMMA FiniteSolutions ==
  ASSUME ValidInput, leads \in BOOLEAN, candidates \subseteq LegalCandidates(leads)
  PROVE  IsFiniteSet(Solutions)
  <1>1. IsFiniteSet(SUBSET (Employees \X Flights))
    BY FiniteDay, FS_Product, FS_SUBSET
  <1>2. Solutions \in SUBSET SUBSET (Employees \X Flights)
    BY SolutionsAreLegal
  <1> QED
    BY <1>1, <1>2, FS_Subset

\* While a pass solves its stages, the space is what the recorded values leave
\* of the solutions, and none of them beats these values.
BestOK ==
  /\ phase = "STAGE" =>
       /\ space = {c \in Solutions : Attains(c, values, Stages)}
       /\ \A s \in Solutions : ~Beats(s, values)
  /\ phase = "ENDED" /\ values # <<>> => \A s \in Solutions : ~Beats(s, ProvenValues)

LEMMA StageValues ==
  ASSUME PassOK, KeptOK, phase = "STAGE", Stage <= Len(Stages), TruthOK, NEW c \in Solutions
  PROVE  Objective(c, StageName) \in Int
  <1>1. /\ ValidInput /\ leads \in BOOLEAN /\ candidates \subseteq LegalCandidates(leads)
        /\ ShiftsAreUnique
    BY DEF PassOK, KeptOK, ValidInput, BuildRaises
  <1>2. StageName \in StageNames
    <2>1. Stages \in Seq(StageNames) /\ Len(Stages) \in Nat
      BY <1>1, StageCount DEF Stages
    <2>2. Stage \in 1..Len(Stages)
      <3>1. Len(values) \in Nat
        BY AppendKeeps DEF TruthOK
      <3> QED
        BY <2>1, <3>1 DEF Stage
    <2> QED
      BY <2>1, <2>2 DEF StageName
  <1> QED
    BY <1>1, <1>2, ObjectivesAreIntegers

LEMMA AttainsLonger ==
  ASSUME NEW c, NEW s, Recorded(s), NEW x
  PROVE  Attains(c, Append(s, x), Stages) <=>
            Attains(c, s, Stages) /\ Objective(c, Stages[Len(s) + 1]) = x
  <1>1. /\ DOMAIN s = 1..Len(s) /\ Len(s) \in Nat
        /\ DOMAIN Append(s, x) = 1..(Len(s) + 1)
        /\ \A i \in 1..Len(s) : Append(s, x)[i] = s[i]
        /\ Append(s, x)[Len(s) + 1] = x
    BY AppendKeeps
  <1> QED
    BY <1>1 DEF Attains

LEMMA ProvenStageStep ==
  ASSUME PassOK, TruthOK, KeptOK, BestOK, phase = "STAGE", Stage <= Len(Stages),
         NEW best, best = Best(space, StageName),
         NEW after, after = {c \in space : Objective(c, StageName) = best}
  PROVE  /\ after = {c \in Solutions : Attains(c, Append(values, best), Stages)}
         /\ \A s \in Solutions : ~Beats(s, Append(values, best))
  <1>1. space = {c \in Solutions : Attains(c, values, Stages)}
    BY DEF BestOK
  <1>2. Recorded(values) /\ StageName = Stages[Len(values) + 1]
    BY DEF TruthOK, StageName, Stage
  <1>3. after = {c \in Solutions : Attains(c, Append(values, best), Stages)}
    BY <1>1, <1>2, AttainsLonger
  <1>4. ASSUME NEW s \in Solutions, Beats(s, Append(values, best)) PROVE FALSE
    <2>1. /\ DOMAIN values = 1..Len(values) /\ Len(values) \in Nat
          /\ DOMAIN Append(values, best) = 1..(Len(values) + 1)
          /\ \A i \in 1..Len(values) : Append(values, best)[i] = values[i]
          /\ Append(values, best)[Len(values) + 1] = best
      BY <1>2, AppendKeeps
    <2>2. PICK i \in 1..(Len(values) + 1) :
            /\ Gains(Stages[i], Append(values, best)[i], Objective(s, Stages[i]))
            /\ \A j \in 1..(i - 1) : Objective(s, Stages[j]) = Append(values, best)[j]
      BY <1>4, <2>1 DEF Beats
    <2>3. CASE i \in 1..Len(values)
      <3>1. i \in DOMAIN values /\ \A j \in 1..(i - 1) : Append(values, best)[j] = values[j]
        BY <2>1, <2>3
      <3>2. Beats(s, values)
        BY <2>1, <2>2, <2>3, <3>1 DEF Beats
      <3> QED
        BY <3>2 DEF BestOK
    <2>4. CASE i = Len(values) + 1
      <3>1. \A j \in 1..Len(values) : Objective(s, Stages[j]) = values[j]
        BY <2>1, <2>2, <2>4
      <3>2. s \in space
        BY <1>1, <2>1, <3>1 DEF Attains
      <3>3. Gains(StageName, best, Objective(s, StageName))
        BY <1>2, <2>1, <2>2, <2>4
      <3>4. IsFiniteSet(space) /\ \A c \in space : Objective(c, StageName) \in Int
        <4>1. /\ ValidInput /\ leads \in BOOLEAN /\ candidates \subseteq LegalCandidates(leads)
          BY DEF PassOK, KeptOK, ValidInput
        <4>2. space \in SUBSET Solutions
          BY <1>1
        <4> QED
          BY <4>1, <4>2, FiniteSolutions, FS_Subset, StageValues
      <3> QED
        BY <3>2, <3>3, <3>4, BestIsBest
    <2> QED
      BY <2>1, <2>2, <2>3, <2>4
  <1> QED
    BY <1>3, <1>4

LEMMA BestStep ==
  ASSUME PassOK, TruthOK, KeptOK, BestOK, [PassNext]_passVars PROVE BestOK'
  <1>1. CASE ValidateInput
    BY <1>1 DEF ValidateInput, Validate, BestOK
  <1>2. CASE BuildPass
    <2>1. /\ values' = <<>> /\ phase' \in {"RAISED", "STAGE"}
          /\ phase' = "STAGE" => space' = Solutions'
      BY <1>2 DEF BuildPass
    <2>2. DOMAIN <<>> = {}
      OBVIOUS
    <2>3. \A s : Attains(s, values, Stages)' /\ ~Beats(s, values)'
      BY <2>1, <2>2 DEF Attains, Beats
    <2> QED
      BY <2>1, <2>3 DEF BestOK
  <1>3. CASE ProveStage
    <2>1. /\ SameModel /\ phase = "STAGE" /\ phase' = "STAGE" /\ leads' = leads
          /\ Stage <= Len(Stages)
      BY <1>3 DEF ProveStage, SolvingFrame, SameModel, SameInput, inputVars
    <2>2. PICK best : /\ best = Best(space, StageName)
                      /\ space' = {c \in space : Objective(c, StageName) = best}
                      /\ values' = Append(values, best)
      BY <1>3 DEF ProveStage
    <2>3. /\ space' = {c \in Solutions : Attains(c, values', Stages)}
          /\ \A s \in Solutions : ~Beats(s, values')
      BY <2>1, <2>2, ProvenStageStep
    <2>4. /\ Solutions' = Solutions
          /\ \A c : Attains(c, values, Stages)' <=> Attains(c, values', Stages)
          /\ \A s : Beats(s, values)' <=> Beats(s, values')
      <3>1. Stages' = Stages
        BY <2>1 DEF Stages, StagesOf
      <3>2. \A c, name : Objective(c, name)' = Objective(c, name)
        BY <2>1, ObjectiveKept
      <3> QED
        BY <2>1, <3>1, <3>2, SolutionsKept DEF Attains, Beats
    <2> QED
      BY <2>1, <2>3, <2>4 DEF BestOK
  <1>4. CASE ProveLastStage \/ StopFeasible \/ StopUnknown
    <2>1. /\ SameModel /\ phase = "STAGE" /\ phase' = "ENDED" /\ leads' = leads
      BY <1>4 DEF ProveLastStage, StopFeasible, StopUnknown, MayTimeOut, SolvingFrame,
                  SameModel, SameInput, inputVars
    <2>2. \/ values' = values
          \/ proven' = FALSE /\ \E x : values' = Append(values, x)
      BY <1>4 DEF ProveLastStage, StopFeasible, StopUnknown
    <2>3. Recorded(values) /\ Recorded(values')
      <3>1. Recorded(values) /\ \A x : Recorded(Append(values, x))
        BY AppendKeeps DEF TruthOK
      <3>2. CASE values' = values
        BY <3>1, <3>2
      <3>3. CASE \E x : values' = Append(values, x)
        BY <3>1, <3>3
      <3> QED
        BY <2>2, <3>1, <3>2, <3>3
    <2>4. ASSUME NEW s \in Solutions, values' # <<>> PROVE ~Beats(s, ProvenValues')
      <3>1. ~Beats(s, values)
        BY <2>1 DEF BestOK
      <3>2. CASE values' = values
        <4>1. ProvenValues' = values \/ ProvenValues' = SubSeq(values, 1, Len(values) - 1)
          BY <3>2 DEF ProvenValues
        <4> QED
          BY <2>3, <2>4, <3>1, <3>2, <4>1, BeatsPrefix
      <3>3. CASE proven' = FALSE /\ \E x : values' = Append(values, x)
        <4>1. ProvenValues' = values
          BY <2>3, <3>3, AllButLast DEF ProvenValues
        <4> QED
          BY <3>1, <4>1
      <3> QED
        BY <2>2, <3>2, <3>3
    <2>5. /\ Solutions' = Solutions
          /\ \A s : Beats(s, ProvenValues)' <=> Beats(s, ProvenValues')
      <3>1. Stages' = Stages
        BY <2>1 DEF Stages, StagesOf
      <3>2. \A c, name : Objective(c, name)' = Objective(c, name)
        BY <2>1, ObjectiveKept
      <3> QED
        BY <2>1, <3>1, <3>2, SolutionsKept DEF Beats
    <2> QED
      BY <2>1, <2>4, <2>5 DEF BestOK
  <1>5. CASE FinishOrdinary \/ StartEmergency \/ FinishEmergency
    BY <1>5 DEF FinishOrdinary, StartEmergency, FinishEmergency, BestOK
  <1>6. CASE UNCHANGED passVars
    <2>1. /\ SameModel /\ phase' = phase /\ leads' = leads /\ space' = space /\ values' = values
          /\ proven' = proven
      BY <1>6 DEF passVars, solverVars, SameModel, SameInput, inputVars
    <2>2. Solutions' = Solutions /\ ProvenValues' = ProvenValues
      BY <2>1, SolutionsKept DEF ProvenValues
    <2>3. Stages' = Stages /\ \A c, name : Objective(c, name)' = Objective(c, name)
      BY <2>1, ObjectiveKept DEF Stages, StagesOf
    <2>4. /\ \A c : Attains(c, values, Stages)' <=> Attains(c, values, Stages)
          /\ \A s : Beats(s, values)' <=> Beats(s, values)
          /\ \A s : Beats(s, ProvenValues)' <=> Beats(s, ProvenValues)
      BY <2>1, <2>2, <2>3 DEF Attains, Beats
    <2> QED
      BY <2>1, <2>2, <2>4 DEF BestOK
  <1> QED
    BY <1>1, <1>2, <1>3, <1>4, <1>5, <1>6 DEF PassNext, PassDone

LEMMA BestInvariant == PassSpec => [](PassOK /\ TruthOK /\ KeptOK /\ BestOK)
  <1>1. PassInit => BestOK
    BY DEF PassInit, Init, BestOK
  <1>2. PassOK /\ TruthOK /\ KeptOK /\ BestOK /\ [PassNext]_passVars => BestOK'
    BY BestStep
  <1> QED
    BY <1>1, <1>2, KeptInvariant, PTL DEF PassSpec

(* However the budget ends, no schedule the constraints allow is better, in the
   order of the stages, than the values a pass has proven. *)
THEOREM ProvenBest == PassSpec => []ProvenValuesAreBest
  <1>1. BestOK => ProvenValuesAreBest
    BY DEF BestOK, ProvenValuesAreBest
  <1> QED
    BY <1>1, BestInvariant, PTL

----------------------------------------------------------------------------
\* The emergency pass can fall back on the ordinary schedule.

\* Everything of a solution of the ordinary pass that does not depend on its
\* candidates.
Fallback(schedule) ==
  \E chosen \in SUBSET LegalCandidates(FALSE) :
    /\ schedule = chosen \cup Fixed
    /\ OverlapsRespected(chosen)
    /\ StaffWithinMaximum(chosen)

FallbackOK ==
  /\ leads => LookupsSucceed /\ Fallback(passOne.crews)
  /\ phase = "RAISED" => BuildRaises /\ candidates \subseteq LegalCandidates(leads)
  /\ phase = "RAISED" /\ ~leads => candidates = LegalCandidates(FALSE)
  /\ phase \in {"STAGE", "ENDED"} => LegalCandidates(FALSE) \subseteq candidates

LEMMA FallbackKept ==
  ASSUME SameInput
  PROVE  /\ LookupsSucceed' = LookupsSucceed
         /\ \A schedule : Fallback(schedule)' = Fallback(schedule)
  <1>1. LegalCandidates(FALSE)' = LegalCandidates(FALSE)
    BY LegalCandidatesKept
  <1>2. /\ LookupsSucceed' = LookupsSucceed
        /\ Fixed' = Fixed
        /\ \A chosen : /\ OverlapsRespected(chosen)' = OverlapsRespected(chosen)
                       /\ StaffWithinMaximum(chosen)' = StaffWithinMaximum(chosen)
    BY DEF SameInput, LookupsSucceed, Employees, Flights, Folded, Fixed, FixedTo,
       OverlapsRespected, Overlaps, StaffWithinMaximum, Staff, Crew, Maximum, MaximumStaff,
       Window, WorkWindow, FlightType, Supplied, Directions
  <1> QED
    BY <1>1, <1>2 DEF Fallback

\* What is legal without leads is a candidate of the emergency pass, whatever
\* needs the ordinary schedule leaves.
LEMMA OrdinaryCandidates ==
  ASSUME ValidInput
  PROVE  \A p \in LegalCandidates(FALSE) : p \in LegalCandidates(TRUE) /\ ~UsesLeadShift(p[1], p[2])
  <1> TAKE p \in LegalCandidates(FALSE)
  <1>1. /\ p \in Employees \X Flights /\ ~FixedTo(p[1], day.flights[p[2]])
        /\ Reason(p[1], p[2], FALSE, FixedRecords) = "ELIGIBLE"
    BY DEF LegalCandidates
  <1>2. \A role : RoleAllowed(role, FALSE) => RoleAllowed(role, TRUE)
    BY DEF RoleAllowed
  <1>3. EligibleShifts(p[1], Window(p[2]), FALSE) \subseteq EligibleShifts(p[1], Window(p[2]), TRUE)
    BY <1>2 DEF EligibleShifts
  <1>4. Reason(p[1], p[2], TRUE, FixedRecords) = "ELIGIBLE"
    BY <1>1, <1>2, <1>3 DEF Reason
  <1>5. EligibleShifts(p[1], Window(p[2]), FALSE) # {}
    BY <1>1 DEF Reason
  <1> QED
    BY <1>1, <1>4, <1>5, NoLeadBeside DEF LegalCandidates

LEMMA FallbackStep ==
  ASSUME PassOK, TruthOK, KeptOK, FallbackOK, [PassNext]_passVars PROVE FallbackOK'
  <1> USE DEF FallbackOK
  <1>1. CASE ValidateInput
    <2>1. SameInput /\ leads' = leads /\ passOne' = passOne /\ phase' \in {"VALID", "REFUSED"}
      BY <1>1 DEF ValidateInput, Validate, SameInput
    <2> QED
      BY <2>1, FallbackKept
  <1>2. CASE BuildPass
    <2>1. /\ SameInput /\ leads' = leads /\ passOne' = passOne /\ candidates' = PassCandidates
          /\ phase = "VALID" /\ phase' \in {"RAISED", "STAGE"}
          /\ phase' = "RAISED" => BuildRaises'
          /\ leads \in BOOLEAN /\ ValidInput
      BY <1>2 DEF BuildPass, inputVars, SameInput, PassOK, ValidInput
    <2>2. /\ LegalCandidates(FALSE)' = LegalCandidates(FALSE)
          /\ LegalCandidates(TRUE)' = LegalCandidates(TRUE)
      BY <2>1, LegalCandidatesKept
    <2>3. /\ leads => LegalCandidates(FALSE) \subseteq PassCandidates
                      /\ PassCandidates \subseteq LegalCandidates(TRUE)
          /\ ~leads => PassCandidates = LegalCandidates(FALSE)
      BY <2>1, OrdinaryCandidates DEF PassCandidates
    <2>4. candidates' \subseteq LegalCandidates(leads)'
      <3>1. CASE leads = TRUE
        BY <2>1, <2>2, <2>3, <3>1
      <3>2. CASE leads = FALSE
        BY <2>1, <2>2, <2>3, <3>2
      <3> QED
        BY <2>1, <3>1, <3>2
    <2> QED
      BY <2>1, <2>2, <2>3, <2>4, FallbackKept
  <1>3. CASE ProveStage \/ ProveLastStage \/ StopFeasible \/ StopUnknown
    <2>1. /\ SameInput /\ leads' = leads /\ passOne' = passOne /\ candidates' = candidates
          /\ phase = "STAGE" /\ phase' \in {"STAGE", "ENDED"}
      BY <1>3
      DEF ProveStage, ProveLastStage, StopFeasible, StopUnknown, MayTimeOut, SolvingFrame,
          SameInput, inputVars
    <2> QED
      BY <2>1, FallbackKept, LegalCandidatesKept
  <1>4. CASE StartEmergency
    <2>1. /\ SameInput /\ leads = FALSE /\ phase = "ENDED" /\ phase' = "VALID"
          /\ passOne'.crews = crews /\ status # "UNKNOWN" /\ ValidInput
      BY <1>4 DEF StartEmergency, FinalFrame, SameInput, inputVars, Result, Usable, PassOK,
                  ValidInput
    <2>2. LookupsSucceed /\ crews \in Solutions /\ candidates \subseteq LegalCandidates(FALSE)
      BY <2>1 DEF KeptOK, BuildRaises
    <2>3. Fallback(crews)
      BY <2>2 DEF Solutions, Solves, Fallback
    <2> QED
      BY <2>1, <2>2, <2>3, FallbackKept
  <1>5. CASE FinishOrdinary \/ FinishEmergency
    <2>1. SameInput /\ leads' = leads /\ passOne' = passOne /\ phase' = "FINAL"
      BY <1>5 DEF FinishOrdinary, FinishEmergency, FinalFrame, SameInput, inputVars
    <2> QED
      BY <2>1, FallbackKept
  <1>6. CASE UNCHANGED passVars
    <2>1. SameModel /\ phase' = phase /\ leads' = leads /\ passOne' = passOne
      BY <1>6 DEF passVars, SameModel, SameInput, inputVars
    <2>2. SameInput /\ candidates' = candidates /\ leads \in BOOLEAN
      BY <2>1 DEF SameModel, PassOK
    <2>3. /\ LegalCandidates(FALSE)' = LegalCandidates(FALSE)
          /\ LegalCandidates(leads)' = LegalCandidates(leads)
      BY <2>1, <2>2, LegalCandidatesKept
    <2> QED
      BY <2>1, <2>2, <2>3, FallbackKept, BuildRaisesKept
  <1> QED
    BY <1>1, <1>2, <1>3, <1>4, <1>5, <1>6 DEF PassNext, PassDone

LEMMA FallbackInvariant == PassSpec => [](PassOK /\ TruthOK /\ KeptOK /\ BestOK /\ FallbackOK)
  <1>1. PassInit => FallbackOK
    BY DEF PassInit, Init, FallbackOK
  <1>2. PassOK /\ TruthOK /\ KeptOK /\ FallbackOK /\ [PassNext]_passVars => FallbackOK'
    BY FallbackStep
  <1> QED
    BY <1>1, <1>2, BestInvariant, PTL DEF PassSpec

\* A lead is outside the model of the streaks only next to an ordinary shift.
LEMMA UniqueUnlessMixed ==
  ASSUME ValidInput, NEW withLeads \in BOOLEAN, candidates \subseteq LegalCandidates(withLeads),
         NEW e \in Participants, NEW f \in Possible(e), ~ShiftIsUnique(e, f, FALSE)
  PROVE  withLeads /\ MixedRoles(e)
  <1>1. /\ e \in Employees /\ e \in Represented(FALSE)
        /\ f \in Flights /\ (<<e, f>> \in candidates \/ <<e, f>> \in Fixed)
    BY DEF Participants, Represented, Possible, Fixed
  <1>2. EligibleShifts(e, Window(f), FALSE) = {}
    BY <1>1, ShiftIsOne
  <1>3. <<e, f>> \notin Fixed
    BY <1>2, FixedIsLegal
  <1>4. EligibleShifts(e, Window(f), withLeads) # {}
    BY <1>1, <1>3, CandidatesAreLegal
  <1>5. PICK s \in ShiftsOf(e) : /\ s \in EligibleShifts(e, Window(f), withLeads)
                                 /\ s \notin EligibleShifts(e, Window(f), FALSE)
    BY <1>2, <1>4 DEF EligibleShifts
  <1>6. withLeads /\ day.shifts[s].role = "RAMP_LEAD"
    BY <1>5 DEF EligibleShifts, RoleAllowed
  <1> QED
    BY <1>1, <1>6 DEF MixedRoles

(* Building the model of the ordinary pass raises only over a fixed assignment
   that spells its employee differently; building that of the emergency pass
   only over an employee who is both an agent and a lead. *)
THEOREM OnlyMixedRaise == PassSpec => []OnlyMixedRolesRaise
  <1>1. PassOK /\ FallbackOK => OnlyMixedRolesRaise
    <2> SUFFICES ASSUME PassOK, FallbackOK, phase = "RAISED"
                 PROVE  IF leads THEN \E e \in Employees : MixedRoles(e)
                        ELSE \E a \in DOMAIN day.fixed : ~SpelledAlike(a)
      BY DEF OnlyMixedRolesRaise
    <2>1. /\ ValidInput /\ leads \in BOOLEAN /\ candidates \subseteq LegalCandidates(leads)
          /\ BuildRaises
      BY DEF PassOK, FallbackOK, ValidInput
    <2>2. MinutesArePositive
      BY <2>1, RepresentedWork DEF MinutesArePositive, Participants
    <2>3. CASE leads
      <3>1. LookupsSucceed
        BY <2>3 DEF FallbackOK
      <3>2. PICK e \in Participants : \E f \in Possible(e) : ~ShiftIsUnique(e, f, FALSE)
        BY <2>1, <2>2, <3>1 DEF BuildRaises, ShiftsAreUnique
      <3>3. MixedRoles(e)
        BY <2>1, <3>2, UniqueUnlessMixed
      <3>4. e \in Employees
        BY DEF Participants, Represented
      <3> QED
        BY <2>3, <3>3, <3>4
    <2>4. CASE ~leads
      <3>1. candidates = LegalCandidates(FALSE)
        BY <2>4 DEF FallbackOK
      <3>2. ~LookupsSucceed
        BY <2>1, <2>2, <3>1, OrdinaryShiftsAreUnique DEF BuildRaises
      <3> QED
        BY <2>4, <3>2 DEF LookupsSucceed, SpelledAlike, Folded
    <2> QED
      BY <2>3, <2>4
  <1> QED
    BY <1>1, FallbackInvariant, PTL

\* The ordinary schedule is a solution of the emergency pass.
LEMMA OrdinaryIsSolution ==
  ASSUME PassOK, FallbackOK, leads, phase = "ENDED"
  PROVE  passOne.crews \in Solutions
  <1>1. ValidInput /\ LegalCandidates(FALSE) \subseteq candidates
    BY DEF PassOK, FallbackOK, ValidInput
  <1>2. PICK chosen \in SUBSET LegalCandidates(FALSE) :
          /\ passOne.crews = chosen \cup Fixed
          /\ OverlapsRespected(chosen) /\ StaffWithinMaximum(chosen)
    BY DEF FallbackOK, Fallback
  <1>3. chosen \cap LeadDecisions = {}
    BY <1>1, OrdinaryCandidates DEF LeadDecisions
  <1> QED
    BY <1>1, <1>2, <1>3 DEF Solutions, Solves

LEMMA StageValuesOfScore ==
  ASSUME NEW c
  PROVE  /\ Objective(c, CriticalStages[1]) = MinimumCovered(c)
         /\ Objective(c, CriticalStages[2]) = CompliantFlights(c)
         /\ Objective(c, CriticalStages[3]) = StaffedCoverage(c)
         /\ Objective(c, CriticalStages[4]) = TotalShortfall(c)
         /\ Objective(c, CriticalStages[5]) = LargestShortfall(c)
         /\ Objective(c, CriticalStages[6]) = KnownUnsatisfied(c)
         /\ \A i \in 1..3 : CriticalStages[i] \in Maximized
         /\ \A i \in 4..6 : CriticalStages[i] \notin Maximized
  BY DEF Objective, CriticalStages, LeadStage, Maximized

\* A solution with a higher critical score gains on some critical stage before
\* it loses on any.
LEMMA HigherScoreGains ==
  ASSUME ValidInput, leads \in BOOLEAN, candidates \subseteq LegalCandidates(leads),
         NEW c \in Solutions, NEW s \in Solutions,
         Below(CriticalScore(c, leads), CriticalScore(s, leads))
  PROVE  \E i \in 1..6 :
           /\ Gains(CriticalStages[i], Objective(c, CriticalStages[i]),
                    Objective(s, CriticalStages[i]))
           /\ \A j \in 1..(i - 1) :
                 Objective(s, CriticalStages[j]) = Objective(c, CriticalStages[j])
  <1> DEFINE of(x) == CriticalScore(x, leads)
             obj(x, i) == Objective(x, CriticalStages[i])
  <1>1. \A x \in {c, s} : /\ of(x)[1] = obj(x, 1) /\ of(x)[2] = obj(x, 2) /\ of(x)[3] = obj(x, 3)
                          /\ of(x)[4] = -obj(x, 4) /\ of(x)[5] = -obj(x, 5)
                          /\ of(x)[6] = -obj(x, 6)
    BY CriticalFigures, StageValuesOfScore
  <1>2. \A x \in {c, s} : DOMAIN of(x) = 1..6 /\ \A i \in 1..6 : obj(x, i) \in Int
    <2> TAKE x \in {c, s}
    <2>1. x \in SUBSET (Employees \X Flights) /\ x \in Solutions
      BY SolutionsAreLegal
    <2>2. DOMAIN of(x) = 1..6
      BY <2>1, ScoreIsIntegral
    <2>3. /\ obj(x, 1) \in Int /\ obj(x, 2) \in Int /\ obj(x, 3) \in Int
          /\ obj(x, 4) \in Int /\ obj(x, 5) \in Int /\ obj(x, 6) \in Int
      BY <2>1, StaffingStages, StageValuesOfScore
    <2> QED
      BY <2>2, <2>3
  <1>3. PICK i \in 1..6 : of(c)[i] < of(s)[i] /\ \A j \in 1..(i - 1) : of(c)[j] = of(s)[j]
    BY <1>2 DEF Below
  <1>4. /\ \A k \in 1..3 : CriticalStages[k] \in Maximized
        /\ \A k \in 4..6 : CriticalStages[k] \notin Maximized
    BY StageValuesOfScore
  <1> HIDE DEF of, obj
  <1>5. \A j \in 1..6 : of(c)[j] = of(s)[j] => obj(s, j) = obj(c, j)
    BY <1>1, <1>2
  <1>6. \A j \in 1..(i - 1) : obj(s, j) = obj(c, j)
    BY <1>3, <1>5
  <1>7. Gains(CriticalStages[i], obj(c, i), obj(s, i))
    <2>1. CASE i \in 1..3
      BY <1>1, <1>2, <1>3, <1>4, <2>1 DEF Gains
    <2>2. CASE i \in 4..6
      BY <1>1, <1>2, <1>3, <1>4, <2>2 DEF Gains
    <2> QED
      BY <2>1, <2>2
  <1> QED
    BY <1>6, <1>7 DEF obj

LEMMA ProvenArePrefix ==
  ASSUME Recorded(values), NEW n \in Nat \ {0}, Len(ProvenValues) >= n
  PROVE  /\ values # <<>>
         /\ \A i \in 1..n : /\ i \in DOMAIN ProvenValues /\ ProvenValues[i] = values[i]
                            /\ i \in DOMAIN values
  <1> DEFINE V == {values[i] : i \in DOMAIN values}
  <1>1. values \in Seq(V)
    BY DEF Recorded
  <1> HIDE DEF V
  <1>2. CASE proven
    BY <1>1, <1>2 DEF ProvenValues
  <1>3. CASE ~proven
    BY <1>1, <1>3 DEF ProvenValues
  <1> QED
    BY <1>2, <1>3

LEMMA WorseOutOfTime ==
  ASSUME PassOK, TruthOK, KeptOK, BestOK, FallbackOK, FinishEmergency,
         AdoptionDecision = "ATTEMPTED_NOT_ADOPTED_WORSE"
  PROVE  ~(Len(ProvenValues) >= 6)
  <1> SUFFICES ASSUME Len(ProvenValues) >= 6 PROVE FALSE
    OBVIOUS
  <1> DEFINE s == passOne.crews
  <1>1. /\ phase = "ENDED" /\ leads /\ ValidInput /\ Ordinary(s)
      BY DEF FinishEmergency, PassOK, ValidInput
  <1>2. Usable /\ Below(CriticalScore(crews, TRUE), CriticalScore(s, FALSE))
    BY DEF AdoptionDecision
  <1>3. leads = TRUE /\ candidates \subseteq LegalCandidates(leads) /\ crews \in Solutions
    BY <1>1, <1>2 DEF PassOK, KeptOK, Usable
  <1>4. s \in Solutions
    BY <1>1, OrdinaryIsSolution
  <1>5. Below(CriticalScore(crews, leads), CriticalScore(s, leads))
    BY <1>1, <1>2, <1>3, SameScore
  <1> HIDE DEF s
  <1>6. PICK i \in 1..6 :
           /\ Gains(CriticalStages[i], Objective(crews, CriticalStages[i]),
                    Objective(s, CriticalStages[i]))
           /\ \A j \in 1..(i - 1) :
                 Objective(s, CriticalStages[j]) = Objective(crews, CriticalStages[j])
    BY <1>1, <1>3, <1>4, <1>5, HigherScoreGains
  <1>7. \A j \in 1..6 : Stages[j] = CriticalStages[j]
    BY <1>3, StageCount DEF Stages
  <1>8. /\ values # <<>>
        /\ \A j \in 1..6 : /\ j \in DOMAIN ProvenValues
                           /\ ProvenValues[j] = Objective(crews, CriticalStages[j])
    <2>1. Recorded(values) /\ Attains(crews, values, Stages)
      BY <1>1 DEF TruthOK
    <2> QED
      BY <1>7, <2>1, ProvenArePrefix DEF Attains
  <1>9. Beats(s, ProvenValues)
    <2>1. /\ i \in DOMAIN ProvenValues
          /\ Gains(Stages[i], ProvenValues[i], Objective(s, Stages[i]))
      BY <1>6, <1>7, <1>8
    <2>2. \A j \in 1..(i - 1) : j \in 1..6
      OBVIOUS
    <2>3. \A j \in 1..(i - 1) : Objective(s, Stages[j]) = ProvenValues[j]
      BY <1>6, <1>7, <1>8, <2>2
    <2> QED
      BY <2>1, <2>3 DEF Beats
  <1> QED
    BY <1>1, <1>4, <1>8, <1>9 DEF BestOK

LEMMA CriticalLength == Len(CriticalStages) = 6
  BY DEF CriticalStages

LEMMA ProvenLength ==
  ASSUME TruthOK PROVE Len(ProvenValues) \in Nat
  <1> DEFINE V == {values[i] : i \in DOMAIN values}
  <1>1. values \in Seq(V)
    BY DEF TruthOK, Recorded
  <1> HIDE DEF V
  <1> QED
    BY <1>1 DEF ProvenValues

LEMMA ProvenAtEnd ==
  ASSUME [PassNext]_passVars, phase' = "FINAL" PROVE ProvenValues' = ProvenValues
  <1>1. FinishOrdinary \/ FinishEmergency \/ UNCHANGED passVars
    BY DEF PassNext, ValidateInput, Validate, BuildPass, ProveStage, ProveLastStage,
           StopFeasible, StopUnknown, MayTimeOut, StartEmergency, PassDone
  <1>2. values' = values /\ proven' = proven
    BY <1>1 DEF FinishOrdinary, FinishEmergency, FinalFrame, solverVars, passVars
  <1> QED
    BY <1>2 DEF ProvenValues

(* An emergency pass whose schedule is worse than the ordinary one ran out of
   time before it had proven its critical stages, for the ordinary schedule is
   one of its own solutions. *)
THEOREM WorseRanOut == PassSpec => []WorseOnlyOutOfTime
  <1>1. PassInit => WorseOnlyOutOfTime
    BY DEF PassInit, Init, WorseOnlyOutOfTime
  <1>2. /\ PassOK /\ TruthOK /\ KeptOK /\ BestOK /\ FallbackOK /\ WorseOnlyOutOfTime
        /\ [PassNext]_passVars
        => WorseOnlyOutOfTime'
    <2> SUFFICES ASSUME PassOK, TruthOK, KeptOK, BestOK, FallbackOK, WorseOnlyOutOfTime,
                        [PassNext]_passVars, phase' = "FINAL",
                        outcome'.disposition = "ATTEMPTED_NOT_ADOPTED_WORSE"
                 PROVE  Len(ProvenValues') < Len(CriticalStages)
      BY DEF WorseOnlyOutOfTime, CriticalStages
    <2>1. ProvenValues' = ProvenValues
      BY ProvenAtEnd
    <2>2. Len(CriticalStages) = 6 /\ Len(ProvenValues) \in Nat
      BY CriticalLength, ProvenLength
    <2>3. CASE FinishOrdinary
      BY <2>3 DEF FinishOrdinary, Finalized
    <2>4. CASE FinishEmergency
      <3>1. AdoptionDecision = "ATTEMPTED_NOT_ADOPTED_WORSE"
        BY <2>4 DEF FinishEmergency, Finalized
      <3> QED
        BY <2>1, <2>2, <2>4, <3>1, WorseOutOfTime
    <2>5. CASE phase = "FINAL" /\ outcome' = outcome
      BY <2>1, <2>5 DEF WorseOnlyOutOfTime
    <2> QED
      BY <2>3, <2>4, <2>5, FinalSteps
  <1> QED
    BY <1>1, <1>2, FallbackInvariant, PTL DEF PassSpec

----------------------------------------------------------------------------
\* What is published beside the ordinary schedule.

\* Of two scores neither below the other, both are the same.
LEMMA ScoresCompare ==
  ASSUME ValidInput, NEW c \in SUBSET (Employees \X Flights),
         NEW d \in SUBSET (Employees \X Flights),
         ~Below(CriticalScore(c, TRUE), CriticalScore(d, TRUE))
  PROVE  \/ CriticalScore(c, TRUE) = CriticalScore(d, TRUE)
         \/ Below(CriticalScore(d, TRUE), CriticalScore(c, TRUE))
  <1> DEFINE a == CriticalScore(c, TRUE)
             b == CriticalScore(d, TRUE)
  <1>1. /\ a = [i \in 1..6 |-> a[i]] /\ DOMAIN a = 1..6 /\ \A i \in 1..6 : a[i] \in Int
        /\ b = [i \in 1..6 |-> b[i]] /\ DOMAIN b = 1..6 /\ \A i \in 1..6 : b[i] \in Int
    <2>1. a = [i \in 1..6 |-> a[i]] /\ b = [i \in 1..6 |-> b[i]]
      BY DEF CriticalScore
    <2> QED
      BY <2>1, ScoreIsIntegral
  <1> HIDE DEF a, b
  <1>2. SUFFICES ASSUME a # b, ~Below(a, b) PROVE Below(b, a)
    BY DEF a, b
  <1>3. PICK i \in 1..6 : a[i] # b[i] /\ \A j \in 1..(i - 1) : a[j] = b[j]
    <2>1. \E i \in 1..6 : a[i] # b[i]
      BY <1>1, <1>2
    <2> QED
      BY <2>1
  <1>4. ~(a[i] < b[i])
    BY <1>1, <1>2, <1>3 DEF Below
  <1>5. b[i] < a[i]
    BY <1>1, <1>3, <1>4
  <1> QED
    BY <1>1, <1>3, <1>5 DEF Below

\* The stage after the critical ones minimizes the leads.
LEMMA LeadsComeSeventh == StagesOf(TRUE)[7] = LeadStage
  <1> DEFINE head == CriticalStages \o <<LeadStage>>
  <1>1. Len(head) = 7 /\ head[7] = LeadStage /\ head \in Seq(StageNames)
    BY DEF CriticalStages, StageNames
  <1>2. LaterStages \in Seq(StageNames)
    BY DEF LaterStages, StageNames
  <1>3. StagesOf(TRUE) = head \o LaterStages
    BY DEF StagesOf
  <1> HIDE DEF head
  <1>4. (head \o LaterStages)[7] = head[7]
    <2>1. \A i \in 1..Len(head) : (head \o LaterStages)[i] = head[i]
      BY <1>1, <1>2, Concatenated
    <2>2. 7 \in 1..Len(head)
      BY <1>1
    <2> QED
      BY <2>1, <2>2
  <1> QED
    BY <1>1, <1>3, <1>4

\* A schedule with a lead costs more in that stage than the ordinary one, whose
\* assignments, and all fixed ones, leave no room for a lead.
LEMMA LeadsCost ==
  ASSUME ValidInput, leads = TRUE, candidates \subseteq LegalCandidates(leads),
         NEW c \in Solutions, LeadAssignments(c) # {}, NEW s, Ordinary(s)
  PROVE  Gains(LeadStage, Objective(c, LeadStage), Objective(s, LeadStage))
  <1>1. PICK chosen \in SUBSET candidates : c = chosen \cup Fixed
    BY DEF Solutions
  <1>2. PICK p \in c : UsesLeadShift(p[1], p[2])
    BY DEF LeadAssignments
  <1>3. c \in SUBSET (Employees \X Flights)
    BY SolutionsAreLegal
  <1>4. p \notin Fixed
    <2>1. p[1] \in Employees /\ p[2] \in Flights
      BY <1>2, <1>3
    <2> QED
      BY <1>2, <2>1, FixedIsLegal, NoLeadBeside
  <1>5. p \in c \cap LeadDecisions
    BY <1>1, <1>2, <1>4 DEF LeadDecisions
  <1>6. TotalLeads(c) \in Nat /\ TotalLeads(c) # 0
    <2>1. IsFiniteSet(Employees \X Flights)
      BY FiniteDay, FS_Product
    <2>2. IsFiniteSet(c \cap LeadDecisions)
      <3>1. c \cap LeadDecisions \in SUBSET (Employees \X Flights)
        BY <1>3
      <3> QED
        BY <2>1, <3>1, FS_Subset
    <2> QED
      BY <1>5, <2>2, FS_CardinalityType, FS_EmptySet DEF TotalLeads
  <1>7. TotalLeads(s) = 0
    <2>1. s \cap LeadDecisions = {}
      BY NoLeadBeside DEF Ordinary, LeadDecisions
    <2> QED
      BY <2>1, FS_EmptySet DEF TotalLeads
  <1>8. /\ \A x : Objective(x, LeadStage) = TotalLeads(x)
        /\ LeadStage \notin Maximized
    BY DEF Objective, LeadStage, Maximized
  <1> QED
    BY <1>6, <1>7, <1>8 DEF Gains

LEMMA SameScoreSameStages ==
  ASSUME ValidInput, leads \in BOOLEAN, candidates \subseteq LegalCandidates(leads),
         NEW c \in Solutions, NEW s \in Solutions,
         CriticalScore(c, leads) = CriticalScore(s, leads)
  PROVE  \A i \in 1..6 : Objective(s, CriticalStages[i]) = Objective(c, CriticalStages[i])
  <1> DEFINE of(x) == CriticalScore(x, leads)
             obj(x, i) == Objective(x, CriticalStages[i])
  <1>1. \A x \in {c, s} : /\ of(x)[1] = obj(x, 1) /\ of(x)[2] = obj(x, 2) /\ of(x)[3] = obj(x, 3)
                          /\ of(x)[4] = -obj(x, 4) /\ of(x)[5] = -obj(x, 5)
                          /\ of(x)[6] = -obj(x, 6)
    BY CriticalFigures, StageValuesOfScore
  <1>2. \A x \in {c, s} : \A i \in 4..6 : obj(x, i) \in Int
    BY StaffingStages, StageValuesOfScore
  <1>3. of(c) = of(s)
    OBVIOUS
  <1> HIDE DEF of, obj
  <1>4. /\ obj(s, 1) = obj(c, 1) /\ obj(s, 2) = obj(c, 2) /\ obj(s, 3) = obj(c, 3)
        /\ obj(s, 4) = obj(c, 4) /\ obj(s, 5) = obj(c, 5) /\ obj(s, 6) = obj(c, 6)
    BY <1>1, <1>2, <1>3
  <1>5. \A i \in 1..6 : obj(s, i) = obj(c, i)
    BY <1>4
  <1> QED
    BY <1>5 DEF obj

\* A pass that has proven the stage of the leads adopts none for the score the
\* ordinary schedule has: that schedule is a solution with the same critical
\* objectives and no lead, and would beat the proven values.
LEMMA EqualUsesNoLead ==
  ASSUME PassOK, TruthOK, KeptOK, BestOK, FallbackOK, FinishEmergency, Usable,
         CriticalScore(crews, TRUE) = CriticalScore(passOne.crews, TRUE),
         LeadAssignments(crews) # {}
  PROVE  ~(Len(ProvenValues) >= 7)
  <1> SUFFICES ASSUME Len(ProvenValues) >= 7 PROVE FALSE
    OBVIOUS
  <1> DEFINE s == passOne.crews
  <1>1. phase = "ENDED" /\ leads /\ leads = TRUE /\ ValidInput /\ Ordinary(s)
    BY DEF FinishEmergency, PassOK, ValidInput
  <1>2. candidates \subseteq LegalCandidates(leads) /\ crews \in Solutions
    BY <1>1 DEF KeptOK, Usable
  <1>3. s \in Solutions
    BY <1>1, OrdinaryIsSolution
  <1>4. CriticalScore(crews, leads) = CriticalScore(s, leads)
    BY <1>1
  <1>5. Gains(LeadStage, Objective(crews, LeadStage), Objective(s, LeadStage))
    BY <1>1, <1>2, LeadsCost
  <1> HIDE DEF s
  <1>6. \A i \in 1..6 : Objective(s, CriticalStages[i]) = Objective(crews, CriticalStages[i])
    BY <1>1, <1>2, <1>3, <1>4, SameScoreSameStages
  <1>7. Stages[7] = LeadStage /\ \A i \in 1..6 : Stages[i] = CriticalStages[i]
    BY <1>1, StageCount, LeadsComeSeventh DEF Stages
  <1>8. /\ values # <<>>
        /\ \A i \in 1..7 : /\ i \in DOMAIN ProvenValues
                           /\ ProvenValues[i] = Objective(crews, Stages[i])
    <2>1. Recorded(values) /\ Attains(crews, values, Stages)
      BY <1>1 DEF TruthOK
    <2> QED
      BY <2>1, ProvenArePrefix DEF Attains
  <1>9. Beats(s, ProvenValues)
    <2>1. 7 \in DOMAIN ProvenValues /\ Gains(Stages[7], ProvenValues[7], Objective(s, Stages[7]))
      BY <1>5, <1>7, <1>8
    <2>2. \A j \in 1..6 : Objective(s, Stages[j]) = ProvenValues[j]
      BY <1>6, <1>7, <1>8
    <2>3. \A j \in 1..(7 - 1) : j \in 1..6
      OBVIOUS
    <2> QED
      BY <2>1, <2>2, <2>3 DEF Beats
  <1> QED
    BY <1>1, <1>3, <1>8, <1>9 DEF BestOK

\* What PublishedLeadsAreNeeded says of the outcome o beside the schedule one,
\* of a pass with n proven values.
NeededOK(o, one, n) ==
  LET schedule == o.result.crews
      before == CriticalScore(one, TRUE)
      after == CriticalScore(schedule, TRUE)
  IN  /\ after = before \/ Below(before, after)
      /\ after = before /\ LeadAssignments(schedule) # {} => n <= 6
      /\ o.reported = LeadAssignments(schedule)
      /\ \A p \in LeadAssignments(schedule) :
            p[2] \in CriticalNeeds(one) /\ p[2] \in CriticalNeeds(schedule \ {p})

LEMMA EmergencyNeeded ==
  ASSUME PassOK, TruthOK, KeptOK, BestOK, FallbackOK, FinishEmergency
  PROVE  NeededOK(outcome', passOne.crews, Len(ProvenValues))
  <1> DEFINE one == passOne.crews
  <1>1. /\ phase = "ENDED" /\ leads = TRUE
        /\ outcome' = IF AdoptionDecision \in Adopting
                      THEN Finalized(Result, TRUE, TRUE, AdoptionDecision)
                      ELSE Finalized(passOne, FALSE, TRUE, AdoptionDecision)
    BY DEF FinishEmergency, PassOK
  <1>2. /\ ValidInput /\ Ordinary(one) /\ one \in SUBSET (Employees \X Flights)
        /\ crews \in SUBSET (Employees \X Flights)
    BY <1>1 DEF PassOK, ValidInput, Ordinary
  <1>3. \A result, withLeads, disposition :
          /\ Finalized(result, withLeads, TRUE, disposition).result = result
          /\ Finalized(result, withLeads, TRUE, disposition).reported =
               IF withLeads THEN ReportedLeads(result.crews, one) ELSE {}
    BY DEF Finalized
  <1>4. CASE AdoptionDecision \in Adopting
    <2>1. /\ outcome'.result.crews = crews
          /\ outcome'.reported = ReportedLeads(crews, one)
      <3>1. Result.crews = crews
        BY DEF Result
      <3>2. outcome' = Finalized(Result, TRUE, TRUE, AdoptionDecision)
        BY <1>1, <1>4
      <3> QED
        BY <1>3, <3>1, <3>2
    <2>2. ReportedLeads(crews, one) = LeadAssignments(crews)
      BY <1>4, Adoption DEF AllLeadsReported
    <2>3. ~Below(CriticalScore(crews, TRUE), CriticalScore(one, TRUE))
      BY <1>2, <1>4, Adoption, SameScore
    <2>4. \/ CriticalScore(crews, TRUE) = CriticalScore(one, TRUE)
          \/ Below(CriticalScore(one, TRUE), CriticalScore(crews, TRUE))
      BY <1>2, <2>3, ScoresCompare
    <2>5. ASSUME CriticalScore(crews, TRUE) = CriticalScore(one, TRUE),
                 LeadAssignments(crews) # {}
          PROVE  Len(ProvenValues) <= 6
      <3>1. Usable
        BY <1>4, Adoption
      <3>2. ~(Len(ProvenValues) >= 7)
        BY <2>5, <3>1, EqualUsesNoLead
      <3> QED
        BY <3>2, ProvenLength
    <2>6. ASSUME NEW p \in LeadAssignments(crews)
          PROVE  p[2] \in CriticalNeeds(one) /\ p[2] \in CriticalNeeds(crews \ {p})
      <3>1. p \in crews /\ LeadReasons(crews, one, p[1], p[2]) # {}
        BY <2>2 DEF ReportedLeads, LeadAssignments
      <3> QED
        BY <1>2, <3>1, ReasonsAreNeeds
    <2> QED
      BY <2>1, <2>2, <2>4, <2>5, <2>6 DEF NeededOK
  <1>5. CASE AdoptionDecision \notin Adopting
    <2>1. outcome'.result.crews = one /\ outcome'.reported = {}
      BY <1>1, <1>3, <1>5
    <2> QED
      BY <1>2, <2>1, OrdinaryHasNoLeads DEF NeededOK
  <1> QED
    BY <1>4, <1>5

LEMMA ScoreKept ==
  ASSUME SameInput, NEW c PROVE CriticalScore(c, TRUE)' = CriticalScore(c, TRUE)
  <1>1. Cardinality(UnsatisfiedBreaks(c, TRUE))' = Cardinality(UnsatisfiedBreaks(c, TRUE))
    BY FiguresKept
  <1> QED
    BY <1>1 DEF CriticalScore, SameInput, Flights, NeedsQualifications, FlightType, Supplied,
       Directions, MeetsMinimum, StaffCount, Minimum, HasQualification, MissingStaff

LEMMA NeededKept ==
  ASSUME SameInput, NEW o, NEW one, NEW n, NeededOK(o, one, n) PROVE NeededOK(o, one, n)'
  <1>1. \A c : /\ CriticalNeeds(c)' = CriticalNeeds(c)
               /\ LeadAssignments(c)' = LeadAssignments(c)
               /\ CriticalScore(c, TRUE)' = CriticalScore(c, TRUE)
    BY FiguresKept, ScoreKept
  <1> QED
    BY <1>1 DEF NeededOK, Below

(* Whatever the two passes found and wherever their time ended, the critical
   score of the published schedule is that of the ordinary one or higher, the
   first figure that differs deciding; with the same score it has a lead only
   if time ended before the number of leads was minimized; its leads are the
   reported ones, and each stands at a need of the ordinary schedule that would
   open again without it. *)
THEOREM LeadsNeeded == PassSpec => []PublishedLeadsAreNeeded
  <1>1. PassInit => PublishedLeadsAreNeeded
    BY DEF PassInit, Init, PublishedLeadsAreNeeded
  <1>2. /\ PassOK /\ TruthOK /\ KeptOK /\ BestOK /\ FallbackOK /\ PublishedLeadsAreNeeded
        /\ [PassNext]_passVars
        => PublishedLeadsAreNeeded'
    <2> SUFFICES ASSUME PassOK, TruthOK, KeptOK, BestOK, FallbackOK, PublishedLeadsAreNeeded,
                        [PassNext]_passVars, phase' = "FINAL", leads'
                 PROVE  NeededOK(outcome, passOne.crews, Len(ProvenValues))'
      BY CriticalLength DEF PublishedLeadsAreNeeded, NeededOK
    <2>1. SameModel /\ passOne' = passOne /\ leads
      BY FinalSteps DEF SameModel
    <2>2. ~FinishOrdinary
      BY <2>1 DEF FinishOrdinary
    <2>3. ProvenValues' = ProvenValues
      BY ProvenAtEnd
    <2>4. NeededOK(outcome', passOne.crews, Len(ProvenValues))
      BY <2>1, <2>2, CriticalLength, FinalSteps, EmergencyNeeded
      DEF PublishedLeadsAreNeeded, NeededOK
    <2> QED
      BY <2>1, <2>3, <2>4, NeededKept DEF SameModel
  <1> QED
    BY <1>1, <1>2, FallbackInvariant, PTL DEF PassSpec
=============================================================================
