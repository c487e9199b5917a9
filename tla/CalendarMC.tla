------------------------------ MODULE CalendarMC ------------------------------
(* Rows and calendars for the runs of Calendar; an hour is 1, now lies after 0. *)
EXTENDS Calendar

CONSTANTS u1, u2

Row(s, t, flex, zone, uid) ==
    [start |-> s, end |-> t, flex |-> flex, zone |-> zone, ahead |-> 0, uid |-> uid, status |-> "confirmed"]
Meeting(s, t, flex) == Row(s, t, flex, "aware", NoUid)
Abroad(ahead, e) == [e EXCEPT !.ahead = ahead]

(* Two processes that import, one server: later and earlier than what is there. *)
StoreAlarms == {Meeting(5, 5, "high")}
StoreInvitations == {<<Row(3, 4, "high", "aware", u1), Row(7, 8, "high", "aware", u1)>>}
OneMilestone == {Meeting(-1, NoEnd, "high")}
Empty == {<<>>}

(* Entries of every kind the conflict rules tell apart, and entries whose  *)
(* offset makes them late in the list, hides one to come, and shows one    *)
(* that has begun.                                                         *)
Shapes == {Meeting(1, 2, "high"), Meeting(1, 3, "low"), Meeting(1, 4, "none"), Meeting(2, NoEnd, "high")}
Travelled == {Abroad(2, Meeting(1, 2, "low")), Abroad(-1, Meeting(1, 3, "high")), Abroad(1, Meeting(0, 3, "high"))}
Crowded == {<<a, b>> : a, b \in Shapes} \cup {<<a, Meeting(1, 3, "low")>> : a \in Travelled}
            \cup {<<Meeting(1, 2, "high"), Meeting(1, 2, "none"), Meeting(2, 3, "none"), Meeting(3, 4, "none")>>}
Late == {Meeting(3, 4, "high")}
Mail == {<<Row(3, 5, "high", "aware", u1), Row(2, 3, "low", "naive", u2)>>}
NoMail == {}
=============================================================================
