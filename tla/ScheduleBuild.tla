---------------------------- MODULE ScheduleBuild ----------------------------
(***************************************************************************)
(* One pass up to its solver: the input is validated, the candidates are   *)
(* built, the CP-SAT model is built over them, and CP-SAT, which is not    *)
(* modelled, may answer with any solution of the model.                    *)
(***************************************************************************)
EXTENDS ScheduleResult

CONSTANTS
    Days,      \* the operational days an instance looks at
    Settings   \* the configurations it looks at

ASSUME ScheduleAssumption ==
    /\ \A d \in Days : d \in OperationalDays
    /\ \A c \in Settings : c \in Configurations

VARIABLES
    phase,     \* how far the pass is
    crews      \* the schedule of the solution

vars == <<day, config, leads, candidates, phase, crews>>

Init ==
    /\ day \in Days
    /\ config \in Settings
    /\ leads = FALSE
    /\ candidates = {}
    /\ crews = {}
    /\ phase = "INPUT"

\* build_candidate_assignments starts with validate_or_raise.
Validate ==
    /\ phase = "INPUT"
    /\ phase' = IF Issues = {} THEN "VALID" ELSE "REFUSED"
    /\ UNCHANGED <<day, config, leads, candidates, crews>>

\* The ordinary pass takes every legal candidate.  Building the model raises
\* when one of its lookups or assertions fails.
BuildModel ==
    /\ phase = "VALID"
    /\ candidates' = LegalCandidates(FALSE)
    /\ UNCHANGED <<day, config, leads, crews>>
    /\ phase' = IF BuildRaises' THEN "RAISED" ELSE "MODEL"

Solve ==
    /\ phase = "MODEL"
    /\ \E solution \in Solutions : crews' = solution
    /\ phase' = "SOLUTION"
    /\ UNCHANGED <<day, config, leads, candidates>>

Done == phase \in {"REFUSED", "RAISED", "SOLUTION"} /\ UNCHANGED vars

Next == Validate \/ BuildModel \/ Solve \/ Done

Spec == Init /\ [][Next]_vars

----------------------------------------------------------------------------

(* A day that passes validation can be scheduled: the model has a solution, if
   only the fixed assignments, shortages being soft, and building it raises
   only when a fixed assignment spells its employee with other inner white
   space than the employee record, which validation folds and the lookups of
   the optimizer do not (_build_model, validate_operational_day). *)
SpelledAlike(a) ==
    \E e \in Employees : day.employees[e].id = day.fixed[a].employee

ValidDaysHaveSchedules ==
    /\ phase = "RAISED" => \E a \in DOMAIN day.fixed : ~SpelledAlike(a)
    /\ phase = "MODEL" => Solves({})

(* Seen minute by minute, no schedule lets an employee work two flights at a
   time or outside one shift of a role that is allowed to work, or puts more
   people on a flight than it may have.  The model constrains only pairs of
   candidates; fixed work is kept apart by eligibility and by validation. *)
Minutes(f) == Window(f).start..(Window(f).end - 1)

SchedulesAreLegal ==
    phase = "SOLUTION" =>
        /\ \A p, q \in crews :
              p[1] = q[1] /\ p # q => Minutes(p[2]) \cap Minutes(q[2]) = {}
        /\ \A p \in crews :
              /\ day.employees[p[1]].enabled
              /\ \E s \in Shifts :
                    /\ day.shifts[s].employee = day.employees[p[1]].id
                    /\ day.shifts[s].role # "RAMP_LEAD"
                    /\ \A t \in Minutes(p[2]) : t \in day.shifts[s].start..(day.shifts[s].end - 1)
        /\ \A f \in Flights : StaffCount(crews, f) <= Maximum(f)

(* The linear encoding of breaks and streaks, with its prefix counts, leaves
   each variable exactly the value that scanning the final itinerary gives:
   neither a loose indicator nor an infeasible one. *)
ScansAgree == phase = "SOLUTION" => BreaksAgree(crews) /\ StreaksAgree(crews)

(* The same for staffing, qualification, workload and continuity, and every
   workload figure stays within the bound validation compared with the
   solver's integer range. *)
FiguresAgree ==
    phase = "SOLUTION" =>
        /\ StaffingAgrees(crews)
        /\ WorkloadsAgree(crews)
        /\ ContinuityAgrees(crews)
        /\ PairDistances([e \in Participants |-> Units(crews, e)]) <= MaxSolverInteger
=============================================================================
