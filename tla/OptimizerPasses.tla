---------------------------- MODULE OptimizerPasses ----------------------------
(***************************************************************************)
(* optimize_flight_assignments: an ordinary pass and, when it leaves a     *)
(* critical need and leads are allowed, an emergency pass with leads.      *)
(*                                                                         *)
(* A pass solves its objective stages one after the other on one time      *)
(* budget.  CP-SAT may prove a stage optimal, return a feasible solution   *)
(* without a proof, or return nothing before the budget ends.  "space" is  *)
(* what the constraints and the locked objectives leave of the model's     *)
(* solutions.                                                              *)
(***************************************************************************)
EXTENDS ScheduleBuild

CONSTANT TimeoutStages   \* the stages in which an instance lets the budget end

VARIABLES
    space,        \* the solutions the model still allows
    status,       \* the OptimizationStatus of the current pass
    values,       \* the value recorded for each stage so far
    proven,       \* whether the last of them was proven optimal
    passOne,      \* the result of the ordinary pass
    checkpoint,   \* the last schedule given to the observer
    outcome       \* the finalized result

solverVars == <<space, status, values, proven>>
inputVars == <<day, config>>
passVars == <<inputVars, leads, candidates, phase, crews, solverVars, passOne, checkpoint, outcome>>

PassPhases == {"INPUT", "REFUSED", "VALID", "RAISED", "STAGE", "ENDED", "FINAL"}
Statuses == {"UNKNOWN", "FEASIBLE", "OPTIMAL"}
Dispositions ==
    {"NOT_ENABLED", "NOT_NEEDED", "NOT_ATTEMPTED_NO_USABLE_SCHEDULE",
     "ATTEMPTED_NOT_ADOPTED_UNUSABLE", "ATTEMPTED_NOT_ADOPTED_WORSE",
     "ATTEMPTED_NOT_ADOPTED_NO_IMPROVEMENT", "ATTEMPTED_AND_ADOPTED",
     "ATTEMPTED_ADOPTED_WITH_REMAINING_SHORTAGE"}
Adopting == {"ATTEMPTED_AND_ADOPTED", "ATTEMPTED_ADOPTED_WITH_REMAINING_SHORTAGE"}

NoOutcome == [disposition |-> "NONE"]
Result == [status |-> status, crews |-> crews, values |-> values, proven |-> proven]

PassInit ==
    /\ Init
    /\ space = {}
    /\ status = "UNKNOWN"
    /\ values = <<>>
    /\ proven = FALSE
    /\ passOne = Result
    /\ checkpoint = [crews |-> {}, values |-> <<>>]
    /\ outcome = NoOutcome

ValidateInput ==
    /\ Validate
    /\ UNCHANGED <<solverVars, passOne, checkpoint, outcome>>

----------------------------------------------------------------------------
\* Building a pass.

\* _filter_emergency_candidates: leads only where the ordinary pass left a need
\* they can help with.
CanHelp(ordinary, e, f) ==
    \/ "MINIMUM" \in Lacks(ordinary, f)
    \/ Lacks(ordinary, f) \cap day.employees[e].quals # {}

MutantPassCandidates ==
    IF ~leads THEN LegalCandidates(FALSE)
    ELSE {p \in LegalCandidates(TRUE) : CanHelp(passOne.crews, p[1], p[2])}
PassCandidates ==
    IF ~leads THEN LegalCandidates(FALSE)
    ELSE {p \in LegalCandidates(TRUE) :
            UsesLeadShift(p[1], p[2]) => CanHelp(passOne.crews, p[1], p[2])}

BuildPass ==
    /\ phase = "VALID"
    /\ candidates' = PassCandidates
    /\ UNCHANGED <<inputVars, leads, status, proven, passOne, checkpoint, outcome>>
    /\ crews' = {}
    /\ values' = <<>>
    /\ IF BuildRaises' THEN phase' = "RAISED" /\ space' = {}
       ELSE phase' = "STAGE" /\ space' = Solutions'

----------------------------------------------------------------------------
\* Solving the stages.

Stages == StagesOf(leads)
Stage == Len(values) + 1
StageName == Stages[Stage]
MutantBest(S, name) == Min({Objective(c, name) : c \in S})
Best(S, name) ==
    LET found == {Objective(c, name) : c \in S}
    IN  IF name \in Maximized THEN Max(found) ELSE Min(found)

\* Checkpoints of the emergency pass carry no schedule.
MutantObserve == checkpoint' = [crews |-> crews', values |-> values']
Observe ==
    checkpoint' = IF leads THEN checkpoint ELSE [crews |-> crews', values |-> values']

SolvingFrame == UNCHANGED <<inputVars, leads, candidates, passOne, outcome>>

ProveStage ==
    /\ phase = "STAGE" /\ Stage <= Len(Stages)
    /\ \E best \in {Best(space, StageName)} :
          /\ space' = {c \in space : Objective(c, StageName) = best}
          /\ values' = Append(values, best)
    /\ \E c \in space' : crews' = c
    /\ proven' = TRUE
    /\ Observe
    /\ UNCHANGED <<phase, status>>
    /\ SolvingFrame

ProveLastStage ==
    /\ phase = "STAGE" /\ Stage > Len(Stages)
    /\ phase' = "ENDED"
    /\ status' = "OPTIMAL"
    /\ UNCHANGED <<crews, space, values, proven, checkpoint>>
    /\ SolvingFrame

MayTimeOut == phase = "STAGE" /\ Stage <= Len(Stages) /\ Stage \in TimeoutStages

\* CP-SAT returns a solution it could not prove optimal.
StopFeasible ==
    /\ MayTimeOut
    /\ \E c \in space : crews' = c /\ values' = Append(values, Objective(c, StageName))
    /\ phase' = "ENDED"
    /\ status' = "FEASIBLE"
    /\ proven' = FALSE
    /\ space' = {}
    /\ Observe
    /\ SolvingFrame

\* No time is left, or CP-SAT returns UNKNOWN: the last solution is kept, and
\* there is none before the first stage is proven.
MutantStopUnknown ==
    /\ MayTimeOut
    /\ phase' = "ENDED"
    /\ IF values = <<>> THEN status' = "UNKNOWN" /\ UNCHANGED values
       ELSE status' = "FEASIBLE" /\ values' = Append(values, Best(space, StageName))
    /\ proven' = FALSE
    /\ space' = {}
    /\ UNCHANGED <<crews, checkpoint>>
    /\ SolvingFrame
StopUnknown ==
    /\ MayTimeOut
    /\ phase' = "ENDED"
    /\ IF values = <<>> THEN status' = "UNKNOWN" /\ UNCHANGED values
       ELSE status' = "FEASIBLE" /\ values' = Append(values, Objective(crews, StageName))
    /\ proven' = FALSE
    /\ space' = {}
    /\ UNCHANGED <<crews, checkpoint>>
    /\ SolvingFrame

----------------------------------------------------------------------------
\* Adoption and the public result.

\* _result_has_usable_schedule, as far as the figures are not derived from the
\* crews in the first place.
Usable ==
    /\ status \in {"OPTIMAL", "FEASIBLE"}
    /\ \A p \in crews : p[1] \in Represented(leads)
    /\ \A f \in Flights : StaffCount(crews, f) <= Maximum(f)

AllProven == values # <<>> /\ proven

ValueOf(result, withLeads, name) ==
    {result.values[i] : i \in {k \in DOMAIN result.values : StagesOf(withLeads)[k] = name}}
ProvenIn(result, withLeads, name) ==
    \E i \in DOMAIN result.values :
        StagesOf(withLeads)[i] = name /\ (i < Len(result.values) \/ result.proven)

\* _has_proven_later_objective_improvement: the first later objective, by name,
\* that is not proven in both passes or that differs decides.
LaterImprovement ==
    \E i \in DOMAIN LaterStages :
        LET name == LaterStages[i]
            ordinary == ValueOf(passOne, FALSE, name)
            emergency == ValueOf(Result, TRUE, name)
            bothProven(n) == ProvenIn(passOne, FALSE, n) /\ ProvenIn(Result, TRUE, n)
        IN  /\ \A j \in 1..(i - 1) :
                  /\ bothProven(LaterStages[j])
                  /\ ValueOf(passOne, FALSE, LaterStages[j]) = ValueOf(Result, TRUE, LaterStages[j])
            /\ bothProven(name)
            /\ IF name \in Maximized THEN The(emergency) > The(ordinary)
               ELSE The(emergency) < The(ordinary)

MutantAllLeadsReported == TRUE
AllLeadsReported == ReportedLeads(crews, passOne.crews) = LeadAssignments(crews)

\* _emergency_adoption_decision
AdoptionDecision ==
    LET ordinary == CriticalScore(passOne.crews, FALSE)
        emergency == CriticalScore(crews, TRUE)
    IN  IF ~Usable \/ ~AllLeadsReported THEN "ATTEMPTED_NOT_ADOPTED_UNUSABLE"
        ELSE IF Below(emergency, ordinary) THEN "ATTEMPTED_NOT_ADOPTED_WORSE"
        ELSE IF /\ ~Below(ordinary, emergency)
                /\ ReportedLeads(crews, passOne.crews) = {}
                /\ ~LaterImprovement
             THEN "ATTEMPTED_NOT_ADOPTED_NO_IMPROVEMENT"
        ELSE IF CriticalNeeds(crews) # {} THEN "ATTEMPTED_ADOPTED_WITH_REMAINING_SHORTAGE"
        ELSE "ATTEMPTED_AND_ADOPTED"

MutantReadiness(schedule, withLeads, usable, warned) ==
    IF ~usable THEN "NO_USABLE_SCHEDULE"
    ELSE IF UnresolvedNeeds(schedule) # {} THEN "MANUAL_INTERVENTION_REQUIRED"
         ELSE IF warned THEN "READY_WITH_WARNINGS" ELSE "READY"
Readiness(schedule, withLeads, usable, warned) ==
    IF ~usable THEN "NO_USABLE_SCHEDULE"
    ELSE IF UnresolvedNeeds(schedule) # {} \/ UnsatisfiedBreaks(schedule, withLeads) # {}
         THEN "MANUAL_INTERVENTION_REQUIRED"
         ELSE IF warned THEN "READY_WITH_WARNINGS" ELSE "READY"

\* _finalize_result for the selected pass; "result" is what it publishes.
Finalized(result, withLeads, usable, disposition) ==
    LET reported == IF withLeads /\ usable
                    THEN ReportedLeads(result.crews, passOne.crews) ELSE {}
        proved == result.values # <<>> /\ result.proven
        declined == disposition \in {"ATTEMPTED_NOT_ADOPTED_UNUSABLE",
                                     "ATTEMPTED_NOT_ADOPTED_WORSE",
                                     "ATTEMPTED_NOT_ADOPTED_NO_IMPROVEMENT"}
    IN  [disposition |-> disposition,
         emergency |-> withLeads,
         result |-> result,
         reported |-> reported,
         readiness |-> Readiness(result.crews, withLeads, usable,
                                 reported # {} \/ declined \/ ~proved),
         staffing |-> IF usable /\ UnresolvedNeeds(result.crews) # {}
                      THEN "CRITICAL_SHORTAGE_REMAINS"
                      ELSE IF reported # {} THEN "LEAD_ASSISTED_SCHEDULE"
                      ELSE "NORMAL_SCHEDULE"]

FinalFrame ==
    UNCHANGED <<inputVars, candidates, crews, solverVars, checkpoint>>

FinishOrdinary ==
    /\ phase = "ENDED" /\ ~leads
    /\ ~Usable \/ CriticalNeeds(crews) = {} \/ ~config.allowLeads
    /\ phase' = "FINAL"
    /\ outcome' = Finalized(Result, FALSE, Usable,
           IF ~config.allowLeads THEN "NOT_ENABLED"
           ELSE IF ~Usable THEN "NOT_ATTEMPTED_NO_USABLE_SCHEDULE" ELSE "NOT_NEEDED")
    /\ UNCHANGED <<leads, passOne>>
    /\ FinalFrame

StartEmergency ==
    /\ phase = "ENDED" /\ ~leads
    /\ Usable /\ CriticalNeeds(crews) # {} /\ config.allowLeads
    /\ passOne' = Result
    /\ leads' = TRUE
    /\ phase' = "VALID"
    /\ UNCHANGED outcome
    /\ FinalFrame

FinishEmergency ==
    /\ phase = "ENDED" /\ leads
    /\ phase' = "FINAL"
    /\ \E disposition \in {AdoptionDecision} :
          outcome' = IF disposition \in Adopting
                     THEN Finalized(Result, TRUE, TRUE, disposition)
                     ELSE Finalized(passOne, FALSE, TRUE, disposition)
    /\ UNCHANGED <<leads, passOne>>
    /\ FinalFrame

PassDone == phase \in {"REFUSED", "RAISED", "FINAL"} /\ UNCHANGED passVars

PassNext ==
    \/ ValidateInput
    \/ BuildPass
    \/ ProveStage
    \/ ProveLastStage
    \/ StopFeasible
    \/ StopUnknown
    \/ FinishOrdinary
    \/ StartEmergency
    \/ FinishEmergency
    \/ PassDone

PassSpec == PassInit /\ [][PassNext]_passVars

----------------------------------------------------------------------------

Attains(schedule, recorded, names) ==
    \A i \in DOMAIN recorded : Objective(schedule, names[i]) = recorded[i]

(* Whenever a pass stops, after a proof, with an unproven solution or without
   one, the schedule it keeps has every value it recorded: a later stage never
   gave up what an earlier one had locked (_solve_lexicographically). *)
ResultsAreTruthful ==
    /\ phase \in {"STAGE", "ENDED"} => Attains(crews, values, Stages)
    /\ ~leads => Attains(checkpoint.crews, checkpoint.values, Stages)

(* The values proven so far are the best of the whole model in the order of the
   stages: no schedule the constraints allow beats them lexicographically. *)
Gains(name, from, to) == IF name \in Maximized THEN to > from ELSE to < from
Beats(schedule, recorded) ==
    \E i \in DOMAIN recorded :
        /\ Gains(Stages[i], recorded[i], Objective(schedule, Stages[i]))
        /\ \A j \in 1..(i - 1) : Objective(schedule, Stages[j]) = recorded[j]
ProvenValues == IF proven THEN values ELSE SubSeq(values, 1, Len(values) - 1)

ProvenValuesAreBest ==
    phase = "ENDED" /\ values # <<>> =>
        \A schedule \in Solutions : ~Beats(schedule, ProvenValues)

(* A checkpoint replaces one of the same pass only with a schedule that keeps
   every value of the one before, and none has a lead in it, so that a job that
   is stopped never publishes less than an earlier checkpoint had
   (checkpoint in _run_optimization_pass, BACKGROUND_JOBS.md). *)
CheckpointsNeverWorsen ==
    [][checkpoint' # checkpoint =>
          /\ LeadAssignments(checkpoint'.crews) = {}
          /\ Attains(checkpoint'.crews, checkpoint.values, StagesOf(FALSE))]_passVars

(* What is published beside the ordinary schedule.  Their critical scores are
   compared in lexicographic order (_emergency_adoption_decision on
   comparison_key): the first figure in which they differ is better, and those
   behind it, the satisfied breaks for one, may be worse.  When none differs,
   a lead is published only if the budget ended before the number of leads was
   minimized.  Each lead stands where the ordinary schedule left a need, would
   leave a need if taken away, and is reported
   (_derive_emergency_lead_assignments). *)
PublishedLeadsAreNeeded ==
    phase = "FINAL" /\ leads =>
        LET schedule == outcome.result.crews
            before == CriticalScore(passOne.crews, TRUE)
            after == CriticalScore(schedule, TRUE)
        IN  /\ after = before \/ Below(before, after)
            /\ after = before /\ LeadAssignments(schedule) # {} =>
                  Len(ProvenValues) <= Len(CriticalStages)
            /\ outcome.reported = LeadAssignments(schedule)
            /\ \A p \in LeadAssignments(schedule) :
                  /\ p[2] \in CriticalNeeds(passOne.crews)
                  /\ p[2] \in CriticalNeeds(schedule \ {p})

(* An emergency pass that is worse than the ordinary one had run out of time:
   one that proves its critical stages can always fall back on the ordinary
   schedule, which stays a solution of its model (_filter_emergency_candidates). *)
WorseOnlyOutOfTime ==
    phase = "FINAL" /\ outcome.disposition = "ATTEMPTED_NOT_ADOPTED_WORSE" =>
        Len(ProvenValues) < Len(CriticalStages)

(* The public fields, each decided on its own figures, tell one story: READY
   means nothing is missing, nothing unproven and no lead; a shortage status,
   a disposition with a remaining shortage and an open need come together
   (_finalize_result). *)
FieldsAgree ==
    phase = "FINAL" =>
        LET schedule == outcome.result.crews
            short == CriticalNeeds(schedule) # {}
        IN  /\ outcome.readiness = "READY" =>
                  /\ ~short /\ outcome.result.status = "OPTIMAL"
                  /\ LeadAssignments(schedule) = {}
                  /\ UnsatisfiedBreaks(schedule, TRUE) = {}
            /\ outcome.disposition = "ATTEMPTED_ADOPTED_WITH_REMAINING_SHORTAGE" => short
            /\ outcome.disposition \in {"NOT_NEEDED", "ATTEMPTED_AND_ADOPTED"} => ~short
            /\ outcome.readiness # "NO_USABLE_SCHEDULE" =>
                  (short <=> outcome.staffing = "CRITICAL_SHORTAGE_REMAINS")
            /\ short => outcome.readiness \in
                            {"MANUAL_INTERVENTION_REQUIRED", "NO_USABLE_SCHEDULE"}

(* The figures published for either pass are what scanning its schedule gives,
   breaks of leads included (_build_result). *)
PassFiguresAgree ==
    phase = "ENDED" /\ status # "UNKNOWN" =>
        BreaksAgree(crews) /\ StreaksAgree(crews) /\ StaffingAgrees(crews)

(* The emergency pass raises only when somebody has both an ordinary shift and a
   shift as a lead: the streaks of such an employee are modelled without leads
   and meet the assertion of _eligible_shift_index_for_assignment.  Nothing
   else can be new in it: a fixed assignment whose employee a lookup does not
   find has already raised in the ordinary pass. *)
MixedRoles(e) ==
    /\ e \in Represented(FALSE)
    /\ \E s \in ShiftsOf(e) : day.shifts[s].role = "RAMP_LEAD"

OnlyMixedRolesRaise ==
    phase = "RAISED" =>
        IF leads THEN \E e \in Employees : MixedRoles(e)
        ELSE \E a \in DOMAIN day.fixed : ~SpelledAlike(a)

----------------------------------------------------------------------------

(* "Require every selected Lead to have independently measurable critical
   value" (_constrain_emergency_lead_value): a proven emergency pass has a
   reason to report for each of its leads. *)
LeadsHaveMeasurableValue ==
    phase = "ENDED" /\ leads /\ status = "OPTIMAL" => AllLeadsReported

(* "Adopted only if it improves the implemented critical comparison without
   making protected outcomes worse" (OPERATIONAL_READINESS.md).  No run checks
   this: the code adopts a schedule of equal score with a lead, and one that
   covers more and satisfies fewer breaks, as the README tells. *)
AdoptionImproves ==
    phase = "FINAL" /\ outcome.disposition \in Adopting =>
        /\ Below(CriticalScore(passOne.crews, FALSE), CriticalScore(outcome.result.crews, TRUE))
        /\ UnsatisfiedBreaks(outcome.result.crews, TRUE)
               \subseteq UnsatisfiedBreaks(passOne.crews, FALSE)
=============================================================================
