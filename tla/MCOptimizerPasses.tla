-------------------------- MODULE MCOptimizerPasses --------------------------
(* Days of two flights with one or two agents and two leads; a time unit is ten
   minutes.  Leads may cover one flight or both, agents may lack the
   qualifications, be booked already, or be there for half the day. *)
EXTENDS OptimizerPasses

NoSide == [number |-> Absent, time |-> Absent]
Side(number, time) == [number |-> number, time |-> time]
Arrival(n, t) == [arrival |-> Side(n, t), departure |-> NoSide, heavy |-> FALSE]
Departure(n, t) == [arrival |-> NoSide, departure |-> Side(n, t), heavy |-> FALSE]

Id(name) == <<name, 0>>
Person(name, quals) == [id |-> Id(name), enabled |-> TRUE, quals |-> quals]
Shift(name, start, end, role) ==
    [employee |-> Id(name), start |-> start, end |-> end, role |-> role]
Agent(name, start, end) == Shift(name, start, end, "RAMP_AGENT")
Lead(name, start, end) == Shift(name, start, end, "RAMP_LEAD")

Both == {"PUSH", "CLOSE_OUT"}
Team(quals) ==
    <<Person("a1", quals), Person("a2", {}), Person("l1", Both), Person("l2", Both)>>

\* The windows overlap, follow each other closely, or leave a break between.
FlightPairs == { <<Departure(1, 6), Arrival(12, 6)>>, <<Departure(1, 6), Departure(12, 10)>>,
                 <<Arrival(1, 3), Departure(2, 12)>> }
Agents == { <<Agent("a1", 1, 13), Agent("a2", 1, 13)>>, <<Agent("a1", 1, 13)>> }
Leads == { <<Lead("l1", 3, 6), Lead("l2", 3, 6)>>, <<Lead("l1", 1, 13)>> }

DayOf(quals, shifts, flights, fixed) ==
    [employees |-> Team(quals), shifts |-> shifts, flights |-> flights, fixed |-> fixed]

OpenDays ==
    {DayOf(quals, agents \o others, flights, <<>>) :
        quals \in {{}, Both}, agents \in Agents, others \in Leads, flights \in FlightPairs}
FixedDays ==
    {DayOf({"PUSH"}, agents \o <<Lead("l1", 1, 13)>>, flights,
           <<[employee |-> Id("a1"), flight |-> flights[2]]>>) :
        agents \in Agents, flights \in FlightPairs}
MixedDays ==
    {DayOf({}, <<Agent("a1", 1, 8), Lead("a1", 8, 13)>>, flights, <<>>) : flights \in FlightPairs}
MCDays == OpenDays \cup FixedDays \cup MixedDays

Defaults ==
    [preparation |-> 1, offload |-> 2, departureWork |-> 3, minimumStaff |-> 2,
     normalStaff |-> 2, heavyStaff |-> 3, requiredBreak |-> 2, reset |-> 3, horizon |-> 4,
     expressThreshold |-> 10, expressFactor |-> 80, threeFactor |-> 120, scale |-> 10,
     allowLeads |-> TRUE, allowTrainees |-> FALSE, allowSupport |-> FALSE]
MCSettings == { Defaults, [Defaults EXCEPT !.minimumStaff = 1],
                [Defaults EXCEPT !.minimumStaff = 1, !.allowLeads = FALSE] }
MCTimeouts == {1, 7}
=============================================================================
