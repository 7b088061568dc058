--------------------------- MODULE MCScheduleBuild ---------------------------
(* Days of up to three flights and three employees; a time unit is ten
   minutes.  The windows touch, overlap, or leave gaps just below, at and
   above the break, the streak reset and the continuity horizon. *)
EXTENDS ScheduleBuild

NoSide == [number |-> Absent, time |-> Absent]
Side(number, time) == [number |-> number, time |-> time]
Arrival(n, t) == [arrival |-> Side(n, t), departure |-> NoSide, heavy |-> FALSE]
Departure(n, t) == [arrival |-> NoSide, departure |-> Side(n, t), heavy |-> FALSE]
Turn(n, a, m, d) == [arrival |-> Side(n, a), departure |-> Side(m, d), heavy |-> TRUE]

Id(name) == <<name, 0>>
Person(name, quals) == [id |-> Id(name), enabled |-> TRUE, quals |-> quals]
Shift(name, start, end, role) ==
    [employee |-> Id(name), start |-> start, end |-> end, role |-> role]
Agent(name, start, end) == Shift(name, start, end, "RAMP_AGENT")

Staff3 == <<Person("e1", {"PUSH"}), Person("e2", {"PUSH", "CLOSE_OUT"}), Person("e3", {})>>

First == {Arrival(1, 3), Departure(1, 5)}
Second == {Turn(12, 4, 12, 8), Arrival(12, 6), Departure(12, 9), Arrival(12, 8)}
Third == {Arrival(3, 9), Departure(3, 13), Arrival(13, 11)}

Shifts1 ==
    { <<Agent("e1", 2, 13)>>,
      <<Agent("e1", 2, 8), Agent("e1", 8, 13)>>,
      <<Agent("e1", 2, 9), Shift("e1", 9, 13, "TRAINEE")>>,
      <<Agent("e1", 2, 10), Agent("e1", 5, 13)>>,
      <<Agent("e1", 2, 5), Shift("e1", 5, 13, "RAMP_LEAD")>> }
OtherShifts == <<Agent("e2", 3, 13), Agent("e3", 3, 8), Agent("e3", 8, 11)>>

Give(name, flight) == [employee |-> Id(name), flight |-> flight]

FixedChoices(flights) ==
    { <<>>,
      <<Give("e1", flights[2])>>,
      <<Give("e1", flights[1]), Give("e1", flights[2])>>,
      <<Give("e2", flights[3]), Give("e1", flights[3])>> }

DaysOf(flights) ==
    {[employees |-> Staff3, shifts |-> shifts \o OtherShifts, flights |-> flights,
      fixed |-> fixed] : shifts \in Shifts1, fixed \in FixedChoices(flights)}

\* One defect each: the days validation is there for.
BrokenFlights ==
    { Arrival(Malformed, 6), Arrival(1, 6), Arrival(7, Absent), Arrival(Absent, 6),
      [arrival |-> NoSide, departure |-> NoSide, heavy |-> FALSE],
      Turn(7, 8, 7, 6), Turn(7, 4, 17, 8) }
Plain(second, employees, shifts) ==
    [employees |-> employees, shifts |-> shifts,
     flights |-> <<Arrival(1, 3), second>>, fixed |-> <<Give("e1", second)>>]
BrokenDays ==
    {Plain(flight, Staff3, <<Agent("e1", 2, 13)>>) : flight \in BrokenFlights}
    \cup {Plain(Arrival(12, 6), <<Person("e1", {}), Person(name, {})>>, <<Agent("e1", 2, 13)>>) :
            name \in {"e1", ""}}
    \cup {Plain(Arrival(12, 6), <<Person("e1", {})>>, shifts) :
            shifts \in { <<Agent("e2", 2, 13)>>, <<Agent("e1", 9, 9)>>,
                         <<Agent("e1", 2, 13), Agent("e1", 2, 13)>> }}

\* Validation takes the fixed assignment, whose employee the optimizer looks up
\* by the spelling.
SpacedDay(spelling) ==
    [employees |-> Staff3, shifts |-> <<Agent("e1", 2, 13)>> \o OtherShifts,
     flights |-> <<Arrival(1, 3), Arrival(12, 6)>>,
     fixed |-> <<[employee |-> <<"e1", spelling>>, flight |-> Arrival(1, 3)]>>]

MCDays == UNION {DaysOf(<<f, g, h>>) : f \in First, g \in Second, h \in Third} \cup BrokenDays
          \cup {SpacedDay(1)}

Defaults ==
    [preparation |-> 1, offload |-> 2, departureWork |-> 3, minimumStaff |-> 1,
     normalStaff |-> 2, heavyStaff |-> 3, requiredBreak |-> 2, reset |-> 3, horizon |-> 4,
     expressThreshold |-> 10, expressFactor |-> 80, threeFactor |-> 120, scale |-> 10,
     allowLeads |-> FALSE, allowTrainees |-> FALSE, allowSupport |-> FALSE]

MCSettings ==
    { Defaults,
      [Defaults EXCEPT !.minimumStaff = 2, !.normalStaff = 3, !.allowTrainees = TRUE],
      [Defaults EXCEPT !.scale = 1], [Defaults EXCEPT !.heavyStaff = 1],
      [Defaults EXCEPT !.offload = 0], [Defaults EXCEPT !.scale = 20] }
=============================================================================
