-------------------------------- MODULE Sdom --------------------------------
(***************************************************************************)
(* spatial/serializer.py: what to_sdom makes of a page, as far as the ids  *)
(* go that interact uses.  A page is the sequence of its elements in       *)
(* document order:                                                         *)
(*   tag    "a" (with href), "button", "input", "select", "textarea", "div"*)
(*   role   "", "checkbox" or "radio"                                      *)
(*   id     its id attribute, NoId if it has none                          *)
(*   traits the classes, attributes and states CSS can ask it for          *)
(*   hidden what _is_visible sees: inline styles of it and its parents     *)
(*   form   it is inside a form                                            *)
(* A synthetic id ("b1") is the pair of the kind its letter stands for and *)
(* its number; a page may have such an id of its own.  An id need not be a *)
(* CSS identifier: "user.name" after a "#" asks for the id "user" and the  *)
(* class "name", "2nd" or "a:b" for nothing CSS knows.  Texts, headings,   *)
(* navigation and the page type are left out.                              *)
(***************************************************************************)
EXTENDS Integers, FiniteSets, SequencesExt

CONSTANTS Cap,   \* elements listed at most: 200
          Ids,   \* values of id attributes, and NoId
          NoId,
          Traits,
          Compound   \* for each id that is no CSS identifier: the selectors "#id" stands
                     \* for (an id and traits), none where it is not CSS at all

Selectors == <<"a", "button", "input", "select", "textarea", "checkbox", "radio">>
Kinds == {Selectors[k] : k \in DOMAIN Selectors}
PageElement == [tag: {"a", "button", "input", "select", "textarea", "div"}, role: {"", "checkbox", "radio"},
                id: Ids, traits: SUBSET Traits, hidden: BOOLEAN, form: BOOLEAN]
Selector == [id: Ids \ {NoId}, traits: SUBSET Traits]

ASSUME SdomAssumption ==
    /\ Cap \in Nat \ {0} /\ NoId \in Ids /\ NoId \notin Kinds \X Nat
    /\ DOMAIN Compound \subseteq Ids \ ({NoId} \cup (Kinds \X Nat))   \* synthetic ids are identifiers
    /\ \A id \in DOMAIN Compound : Compound[id] \subseteq Selector

(* An element has a place in the list for each selector it matches, so it  *)
(* may be listed twice; places are ordered by selector, and those of a     *)
(* selector as in the document.  Visible lists the elements of the shown   *)
(* places by rank: the number of places up to theirs.                      *)
Collected(page) == {x \in (DOMAIN Selectors) \X (DOMAIN page) : Selectors[x[1]] \in {page[x[2]].tag, page[x[2]].role}}
Shown(page) == {x \in Collected(page) : ~page[x[2]].hidden}
UpTo(x, y) == x[1] < y[1] \/ (x[1] = y[1] /\ x[2] <= y[2])
Visible(page) ==
    LET shown == Shown(page)
        Rank(y) == Cardinality({x \in shown : UpTo(x, y)})
    IN [n \in 1 .. Cardinality(shown) |-> (CHOOSE y \in shown : Rank(y) = n)[2]]

Kind(e) == IF e.role # "" THEN e.role ELSE e.tag   \* _assign_ids asks the role first
Position(page, i) == SelectInSeq(Visible(page), LAMBDA j : j = i)
Numbered(page, i) ==   \* the elements that have a number of this kind when i gets its own
    {j \in ToSet(Visible(page)) : /\ page[j].id = NoId /\ Kind(page[j]) = Kind(page[i])
                                  /\ Position(page, j) <= Position(page, i)}
AssignIdsToAll(page) ==   \* a mutant, and what the code did before: ids of their own are overwritten
    [i \in ToSet(Visible(page)) |->
        <<Kind(page[i]), Cardinality({j \in ToSet(Visible(page)) : /\ Kind(page[j]) = Kind(page[i])
                                                                  /\ Position(page, j) <= Position(page, i)})>>]
AssignIdsPerTag(page) ==  \* a mutant: numbered by tag, lettered by role
    [i \in ToSet(Visible(page)) |->
        IF page[i].id # NoId THEN page[i].id
        ELSE <<Kind(page[i]), Cardinality({j \in Numbered(page, i) : page[j].tag = page[i].tag})>>]
AssignIds(page) ==
    [i \in ToSet(Visible(page)) |->
        IF page[i].id # NoId THEN page[i].id ELSE <<Kind(page[i]), Cardinality(Numbered(page, i))>>]
\* The id of every element in the parsed page once _assign_ids is done.
Name(page, i) == IF i \in ToSet(Visible(page)) THEN AssignIds(page)[i] ELSE page[i].id

Interactive(page) ==
    LET list == Visible(page) IN
    [k \in 1 .. (IF Len(list) > Cap THEN Cap ELSE Len(list)) |-> [element |-> list[k], id |-> Name(page, list[k])]]
InForm(page) == {i \in DOMAIN page : page[i].form /\ page[i].tag \in {"input", "select", "textarea"}}
FieldsBeforeIds(page) == {page[i].id : i \in InForm(page)} \ {NoId}   \* a mutant: forms are read first
Fields(page) == {Name(page, i) : i \in InForm(page)} \ {NoId}

(* page.click(f"#{id}") in the live page, which has no synthetic ids: the  *)
(* first element in document order that the selector matches, 0 if there   *)
(* is none or Playwright cannot parse it.  The id is not escaped.          *)
IsIdentifier(id) == id \notin DOMAIN Compound
Matches(e, id) ==
    IF IsIdentifier(id) THEN e.id = id ELSE \E s \in Compound[id] : e.id = s.id /\ s.traits \subseteq e.traits
Locate(page, id) == SelectInSeq(page, LAMBDA e : Matches(e, id))
=============================================================================
