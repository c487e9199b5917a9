--------------------------- MODULE SpatialToolsMC ---------------------------
(* Two urls, one of them redirected to the other. *)
EXTENDS SpatialTools

CONSTANTS a1, u1, u2, name, signUp, lookAlike, toggles

El(tag, role, id, hidden, form) ==
    [tag |-> tag, role |-> role, id |-> id, traits |-> {}, hidden |-> hidden, form |-> form]
Own(k) == <<"own", k>>
Dotted == <<"own", 1, name>>   \* "user.name" beside "user"
\* A sign-up form: a field with an id, one without, a hidden one, a link with the id
\* of the first.  The list is full, and nothing is cut.
SignUp == <<El("input", "", Own(1), FALSE, TRUE), El("input", "", NoId, FALSE, TRUE),
            El("input", "", Own(2), TRUE, TRUE), El("button", "", NoId, FALSE, TRUE),
            El("a", "", Own(1), FALSE, FALSE)>>
\* Ids that look synthetic, before and after the elements that get the like; a field
\* whose id selects the caption before it; and a field that the cap cuts off.
LookAlike == <<[El("div", "", Own(1), FALSE, FALSE) EXCEPT !.traits = {name}],
               El("button", "", <<"button", 1>>, FALSE, FALSE), El("button", "", NoId, FALSE, FALSE),
               El("select", "", <<"input", 1>>, FALSE, FALSE), El("input", "", Dotted, FALSE, TRUE),
               El("textarea", "", NoId, FALSE, TRUE)>>
\* Elements that two selectors match, beside one of the same role, and an id that is
\* no selector.
Toggles == <<El("div", "checkbox", NoId, FALSE, FALSE), El("button", "checkbox", NoId, FALSE, FALSE),
             El("a", "", Own(3), FALSE, FALSE)>>

MCIds == {NoId, <<"button", 1>>, <<"input", 1>>, Dotted} \cup {Own(k) : k \in 1 .. 3}
MCCompound == [id \in {Dotted, Own(3)} |-> IF id = Dotted THEN {[id |-> Own(1), traits |-> {name}]} ELSE {}]
MCAgentOf == [c \in Calls |-> a1]
MCElements == [d \in Docs |-> CASE d = signUp -> SignUp [] d = toggles -> Toggles
                               [] d = lookAlike -> LookAlike [] OTHER -> <<>>]
MCSite == [u \in Urls |-> IF u = u1 THEN {signUp, toggles} ELSE {lookAlike}]
Redirected == [u \in Urls |-> IF u \in {u1, u2} THEN u ELSE u1]
=============================================================================
