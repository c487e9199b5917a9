---------------------------- MODULE SpatialProofs ----------------------------
(***************************************************************************)
(* Theorems about the pool and the tools of spatial/.                      *)
(*                                                                         *)
(* SpatialTools, for any pages, sites and calls: the four safety           *)
(* properties its run checks.                                              *)
(* BrowserPool: with a single process the lock file and the event loop     *)
(* together keep launches of one profile apart, for any agents, calls,     *)
(* limit and faults; with any number of processes each pool exceeds its    *)
(* limit by no more than the calls in flight together.                     *)
(***************************************************************************)
EXTENDS BrowserPool, SpatialTools, FiniteSetTheorems, SequenceTheorems, WellFoundedInduction, TLAPS

Page == Seq(PageElement)

\* Natural numbers have a least one in every set.
LEMMA NatHasLeast ==
    ASSUME NEW T \in SUBSET Nat, T # {}
    PROVE  \E x \in T : \A y \in T : x <= y
<1> DEFINE R == {ss \in Nat \X Nat : ss[1] < ss[2]}
<1>1. OpToRel(<, Nat) = R
  BY DEF OpToRel
<1>2. IsWellFoundedOn(R, Nat)
  BY <1>1, NatLessThanWellFounded
<1>3. PICK x \in T : \A y \in T : <<y, x>> \notin R
  BY <1>2, WFMin
<1>4. \A y \in T : ~(y < x)
  BY <1>3
<1>5. QED BY <1>4

(***************************************************************************)
(* The list.  Every place has a rank of its own, so the ranks are all the  *)
(* numbers up to the number of places.                                     *)
(***************************************************************************)
\* What a page and the selectors are.
LEMMA PageShape ==
    ASSUME NEW d \in Page
    PROVE  /\ Len(d) \in Nat /\ DOMAIN d = 1..Len(d)
           /\ \A i \in DOMAIN d : d[i] \in PageElement
           /\ DOMAIN Selectors = 1..7
BY DEF Page, Selectors

RankOf(d, y) == Cardinality({x \in Shown(d) : UpTo(x, y)})

LEMMA RanksAreNumbers ==
    ASSUME NEW d \in Page
    PROVE  /\ IsFiniteSet(Shown(d)) /\ Cardinality(Shown(d)) \in Nat
           /\ \A y \in Shown(d) : RankOf(d, y) \in 1..Cardinality(Shown(d))
           /\ \A y, z \in Shown(d) : RankOf(d, y) = RankOf(d, z) => y = z
           /\ \A n \in 1..Cardinality(Shown(d)) : \E y \in Shown(d) : RankOf(d, y) = n
<1> DEFINE S == Shown(d)
           N == Cardinality(S)
           below(y) == {x \in S : UpTo(x, y)}
           rank == [y \in S |-> RankOf(d, y)]
<1>1. \A y \in S : y = <<y[1], y[2]>> /\ y[1] \in Nat /\ y[2] \in Nat
  BY PageShape DEF Shown, Collected
<1>2. IsFiniteSet(S) /\ N \in Nat
  <2>l. Len(d) \in Int /\ 1 \in Int /\ 7 \in Int
    BY PageShape
  <2>1. IsFiniteSet(1..7) /\ IsFiniteSet(1..Len(d))
    BY <2>l, FS_Interval
  <2>2. IsFiniteSet((1..7) \X (1..Len(d)))
    BY <2>1, FS_Product
  <2>3. S \subseteq (1..7) \X (1..Len(d))
    BY PageShape DEF Shown, Collected
  <2>4. QED BY <2>2, <2>3, FS_Subset, FS_CardinalityType
<1>3. ASSUME NEW y \in S
      PROVE  /\ IsFiniteSet(below(y)) /\ RankOf(d, y) = Cardinality(below(y))
             /\ RankOf(d, y) \in 1..N
  <2>1. below(y) \subseteq S /\ y \in below(y)
    BY <1>1 DEF UpTo
  <2>2. IsFiniteSet(below(y)) /\ Cardinality(below(y)) \in Nat /\ Cardinality(below(y)) <= N
    BY <1>2, <2>1, FS_Subset, FS_CardinalityType
  <2>3. Cardinality(below(y)) # 0
    BY <2>1, <2>2, FS_EmptySet
  <2>4. RankOf(d, y) = Cardinality(below(y))
    BY DEF RankOf
  <2>5. QED BY <1>2, <2>2, <2>3, <2>4
<1>4. ASSUME NEW y \in S, NEW z \in S, UpTo(y, z), y # z
      PROVE  RankOf(d, y) # RankOf(d, z)
  <2>1. below(y) \subseteq below(z) /\ z \in below(z) /\ z \notin below(y)
    BY <1>1, <1>4 DEF UpTo
  <2>2. Cardinality(below(y)) # Cardinality(below(z))
    BY <1>3, <2>1, FS_Subset
  <2>3. QED BY <1>3, <2>2
<1>5. \A y, z \in S : UpTo(y, z) \/ UpTo(z, y)
  BY <1>1 DEF UpTo
<1>6. rank \in Injection(S, 1..N)
  BY <1>3, <1>4, <1>5 DEF Injection, IsInjective
<1>7. IsFiniteSet(1..N) /\ Cardinality(1..N) = N
  BY <1>2, FS_Interval
<1>8. rank \in Surjection(S, 1..N)
  BY <1>6, <1>7, FS_Injection
<1>9. \A n \in 1..N : \E y \in S : rank[y] = n
  BY <1>8 DEF Surjection
<1>10. QED BY <1>2, <1>3, <1>4, <1>5, <1>9

\* A function on 1..n is a sequence.
LEMMA FunctionIsSequence ==
    ASSUME NEW X, NEW n \in Nat, NEW f \in [1..n -> X]
    PROVE  f \in Seq(X)
<1>1. f = [i \in 1..n |-> f[i]]
  OBVIOUS
<1>2. \A i \in 1..n : f[i] \in X
  OBVIOUS
<1>3. [i \in 1..n |-> f[i]] \in Seq(X)
  BY <1>2, IsASeq
<1>4. QED BY <1>1, <1>3

\* The list holds the visible elements that a selector matches, and no others.
LEMMA VisibleShape ==
    ASSUME NEW d \in Page
    PROVE  /\ Visible(d) \in Seq(DOMAIN d) /\ Len(Visible(d)) \in Nat
           /\ DOMAIN Visible(d) = 1..Len(Visible(d))
           /\ \A n \in 1..Len(Visible(d)) : Visible(d)[n] \in DOMAIN d /\ ~d[Visible(d)[n]].hidden
           /\ \A n \in 1..Len(Visible(d)) : \E k \in 1..7 :
                  Selectors[k] \in {d[Visible(d)[n]].tag, d[Visible(d)[n]].role}
           /\ \A i \in DOMAIN d : \A k \in 1..7 :
                  ~d[i].hidden /\ Selectors[k] \in {d[i].tag, d[i].role}
                      => \E n \in 1..Len(Visible(d)) : Visible(d)[n] = i
<1> DEFINE S == Shown(d)
           N == Cardinality(S)
           place(n) == CHOOSE y \in S : RankOf(d, y) = n
<1>1. N \in Nat /\ Visible(d) = [n \in 1..N |-> place(n)[2]]
  BY RanksAreNumbers DEF Visible, RankOf
<1>2. \A n \in 1..N : place(n) \in S /\ RankOf(d, place(n)) = n
  BY RanksAreNumbers
<1>3. \A y \in S : /\ y[1] \in 1..7 /\ y[2] \in DOMAIN d /\ y = <<y[1], y[2]>>
                   /\ Selectors[y[1]] \in {d[y[2]].tag, d[y[2]].role} /\ ~d[y[2]].hidden
  BY PageShape DEF Shown, Collected
<1>4. Visible(d) \in [1..N -> DOMAIN d]
  BY <1>1, <1>2, <1>3
<1>5. Visible(d) \in Seq(DOMAIN d) /\ Len(Visible(d)) = N
  <2>1. Visible(d) \in Seq(DOMAIN d)
    BY <1>1, <1>4, FunctionIsSequence
  <2>2. Len(Visible(d)) \in Nat /\ DOMAIN Visible(d) = 1..Len(Visible(d)) /\ DOMAIN Visible(d) = 1..N
    BY <1>4, <2>1, LenProperties
  <2>3. QED BY <1>1, <2>1, <2>2
<1>6. \A n \in 1..N : \E y \in S : Visible(d)[n] = y[2]
  BY <1>1, <1>2
<1>7. ASSUME NEW i \in DOMAIN d, NEW k \in 1..7, ~d[i].hidden, Selectors[k] \in {d[i].tag, d[i].role}
      PROVE  \E n \in 1..N : Visible(d)[n] = i
  <2>1. <<k, i>> \in S
    BY <1>7, PageShape DEF Shown, Collected
  <2>2. PICK n \in 1..N : place(n) = <<k, i>>
    <3>1. PICK n \in 1..N : n = RankOf(d, <<k, i>>)
      BY <2>1, RanksAreNumbers
    <3>2. ASSUME NEW y \in S, RankOf(d, y) = n PROVE y = <<k, i>>
      BY <2>1, <3>1, <3>2, RanksAreNumbers
    <3>3. QED BY <1>2, <3>2
  <2>3. QED BY <1>1, <2>2
<1>8. /\ \A n \in 1..N : Visible(d)[n] \in DOMAIN d /\ ~d[Visible(d)[n]].hidden
      /\ \A n \in 1..N : \E k \in 1..7 : Selectors[k] \in {d[Visible(d)[n]].tag, d[Visible(d)[n]].role}
  BY <1>3, <1>6
<1>9. DOMAIN Visible(d) = 1..N
  BY <1>4
<1>10. QED BY <1>1, <1>5, <1>7, <1>8, <1>9

(***************************************************************************)
(* Ids.  Elements that get a number of one kind get different ones, since  *)
(* the elements numbered up to one of them grow with its position.         *)
(***************************************************************************)
Shows(d) == ToSet(Visible(d))

\* Every selector has a kind of its own.
LEMMA KindsListed ==
    /\ \A k \in 1..7 : Selectors[k] \in Kinds
    /\ Kinds = {"a", "button", "input", "select", "textarea", "checkbox", "radio"}
<1>1. DOMAIN Selectors = 1..7
  BY DEF Selectors
<1>2. /\ Selectors[1] = "a" /\ Selectors[2] = "button" /\ Selectors[3] = "input" /\ Selectors[4] = "select"
      /\ Selectors[5] = "textarea" /\ Selectors[6] = "checkbox" /\ Selectors[7] = "radio"
  BY DEF Selectors
<1>3. 1..7 = {1, 2, 3, 4, 5, 6, 7}
  OBVIOUS
<1>4. Kinds = {Selectors[k] : k \in {1, 2, 3, 4, 5, 6, 7}}
  BY <1>1, <1>3 DEF Kinds
<1>5. QED BY <1>2, <1>3, <1>4

\* The elements listed; the visible fields of forms are among them.
LEMMA ShownElements ==
    ASSUME NEW d \in Page
    PROVE  /\ Shows(d) \subseteq DOMAIN d /\ IsFiniteSet(Shows(d))
           /\ \A i \in Shows(d) : ~d[i].hidden /\ Kind(d[i]) \in Kinds
           /\ \A i \in InForm(d) : ~d[i].hidden => i \in Shows(d)
<1>1. Shows(d) = {Visible(d)[n] : n \in 1..Len(Visible(d))}
  BY VisibleShape DEF Shows, ToSet
<1>2. Shows(d) \subseteq DOMAIN d /\ \A i \in Shows(d) : ~d[i].hidden
  BY <1>1, VisibleShape
<1>3. IsFiniteSet(DOMAIN d)
  <2>1. Len(d) \in Int /\ 1 \in Int /\ DOMAIN d = 1..Len(d)
    BY PageShape
  <2>2. QED BY <2>1, FS_Interval
<1>4. IsFiniteSet(Shows(d))
  BY <1>2, <1>3, FS_Subset
<1>5. ASSUME NEW i \in Shows(d) PROVE Kind(d[i]) \in Kinds
  <2>1. PICK k \in 1..7 : Selectors[k] \in {d[i].tag, d[i].role}
    BY <1>1, VisibleShape
  <2>2. d[i] \in PageElement
    BY <1>2, PageShape
  <2>3. Selectors[k] \in Kinds /\ Kinds = {"a", "button", "input", "select", "textarea", "checkbox", "radio"}
    BY KindsListed
  <2>4. QED BY <2>1, <2>2, <2>3 DEF Kind, PageElement
<1>6. ASSUME NEW i \in InForm(d), ~d[i].hidden PROVE i \in Shows(d)
  <2>1. i \in DOMAIN d /\ d[i].tag \in {Selectors[3], Selectors[4], Selectors[5]}
    BY DEF InForm, Selectors
  <2>2. \E k \in 1..7 : Selectors[k] \in {d[i].tag, d[i].role}
    BY <2>1
  <2>3. QED BY <1>1, <1>6, <2>1, <2>2, VisibleShape
<1>7. QED BY <1>2, <1>4, <1>5, <1>6

\* The position of a listed element is the first place of it.
LEMMA PositionFacts ==
    ASSUME NEW d \in Page, NEW i \in Shows(d)
    PROVE  Position(d, i) \in 1..Len(Visible(d)) /\ Visible(d)[Position(d, i)] = i
<1> DEFINE I == {n \in 1..Len(Visible(d)) : Visible(d)[n] = i}
<1>0. \E n \in 1..Len(Visible(d)) : Visible(d)[n] = i
  BY VisibleShape DEF Shows, ToSet
<1>1. I \in SUBSET Nat /\ I # {}
  BY <1>0
<1>2. Position(d, i) = Min(I)
  BY <1>1 DEF Position, SelectInSeq
<1>3. Min(I) \in I
  BY <1>1, NatHasLeast DEF Min
<1>4. QED BY <1>1, <1>2, <1>3

\* Where the id is a CSS identifier, #id finds an element that has it, if there is one.
LEMMA LocateFacts ==
    ASSUME NEW d \in Page, NEW id, IsIdentifier(id)
    PROVE  /\ (\A i \in DOMAIN d : d[i].id # id) => Locate(d, id) = 0
           /\ (\E i \in DOMAIN d : d[i].id = id) => Locate(d, id) \in DOMAIN d /\ d[Locate(d, id)].id = id
<1> DEFINE I == {n \in 1..Len(d) : d[n].id = id}
<1>1. I \in SUBSET Nat /\ DOMAIN d = 1..Len(d)
  BY PageShape
<1>2. Locate(d, id) = IF I # {} THEN Min(I) ELSE 0
  BY DEF Locate, Matches, SelectInSeq
<1>3. I # {} => Min(I) \in I
  BY <1>1, NatHasLeast DEF Min
<1>4. QED BY <1>1, <1>2, <1>3

\* Two elements of one kind never get the same number.
LEMMA NumbersDiffer ==
    ASSUME NEW d \in Page, NEW i \in Shows(d), NEW j \in Shows(d),
           d[i].id = NoId, d[j].id = NoId, Kind(d[i]) = Kind(d[j]),
           Cardinality(Numbered(d, i)) = Cardinality(Numbered(d, j))
    PROVE  i = j
<1>1. Position(d, i) \in Nat /\ Position(d, j) \in Nat
      /\ \A x \in Shows(d) : Position(d, x) \in Nat
  BY PositionFacts
<1>2. i \in Numbered(d, i) /\ j \in Numbered(d, j)
  BY <1>1 DEF Numbered, Shows
<1>3. Numbered(d, i) \subseteq Shows(d) /\ Numbered(d, j) \subseteq Shows(d)
  BY DEF Numbered, Shows
<1>4. IsFiniteSet(Numbered(d, i)) /\ IsFiniteSet(Numbered(d, j))
  BY <1>3, ShownElements, FS_Subset
<1>5. \/ Numbered(d, i) \subseteq Numbered(d, j)
      \/ Numbered(d, j) \subseteq Numbered(d, i)
  <2>1. CASE Position(d, i) <= Position(d, j)
    BY <1>1, <2>1 DEF Numbered, Shows
  <2>2. CASE Position(d, j) <= Position(d, i)
    BY <1>1, <2>2 DEF Numbered, Shows
  <2>3. QED BY <1>1, <2>1, <2>2
<1>6. Numbered(d, i) = Numbered(d, j)
  BY <1>4, <1>5, FS_Subset
<1>7. Position(d, i) <= Position(d, j) /\ Position(d, j) <= Position(d, i)
  BY <1>2, <1>6 DEF Numbered
<1>8. Position(d, i) = Position(d, j)
  BY <1>1, <1>7
<1>9. QED BY <1>8, PositionFacts

\* An id of its own is kept; a listed element without one gets kind and number.
LEMMA NameFacts ==
    ASSUME NEW d \in Page, NEW i \in DOMAIN d
    PROVE  /\ i \notin Shows(d) \/ d[i].id # NoId => Name(d, i) = d[i].id
           /\ i \in Shows(d) /\ d[i].id = NoId => Name(d, i) = <<Kind(d[i]), Cardinality(Numbered(d, i))>>
           /\ i \in Shows(d) => Name(d, i) # NoId
<1>1. i \in Shows(d) => Name(d, i) = IF d[i].id # NoId THEN d[i].id ELSE <<Kind(d[i]), Cardinality(Numbered(d, i))>>
  BY DEF Name, AssignIds, Shows
<1>2. i \notin Shows(d) => Name(d, i) = d[i].id
  BY DEF Name, Shows
<1>3. i \in Shows(d) => Cardinality(Numbered(d, i)) \in Nat
  <2>1. Numbered(d, i) \subseteq Shows(d)
    BY DEF Numbered, Shows
  <2>2. QED BY <2>1, ShownElements, FS_Subset, FS_CardinalityType
<1>4. i \in Shows(d) => <<Kind(d[i]), Cardinality(Numbered(d, i))>> \in Kinds \X Nat
  BY <1>3, ShownElements
<1>5. i \in Shows(d) => Name(d, i) # NoId
  BY <1>1, <1>4, SdomAssumption
<1>6. QED BY <1>1, <1>2, <1>5

(***************************************************************************)
(* The element list, and what the properties say of a single page.         *)
(***************************************************************************)
\* The entries are listed elements with their ids; the cap alone leaves any out.
LEMMA InteractiveShape ==
    ASSUME NEW d \in Page
    PROVE  LET list == Interactive(d) IN
           /\ list \in Seq({[element |-> i, id |-> Name(d, i)] : i \in Shows(d)})
           /\ Len(list) \in Nat /\ DOMAIN list = 1..Len(list)
           /\ \A i \in Shows(d) : Position(d, i) > Cap \/ \E k \in 1..Len(list) : list[k].element = i
<1> DEFINE v == Visible(d)
           m == IF Len(v) > Cap THEN Cap ELSE Len(v)
           list == Interactive(d)
           Listable == {[element |-> i, id |-> Name(d, i)] : i \in Shows(d)}
<1>1. m \in Nat /\ 1..m \subseteq 1..Len(v) /\ (Len(v) > m => m = Cap)
  BY VisibleShape, SdomAssumption
<1>2. list = [k \in 1..m |-> [element |-> v[k], id |-> Name(d, v[k])]]
  BY DEF Interactive
<1>3. \A k \in 1..Len(v) : v[k] \in Shows(d)
  BY VisibleShape DEF Shows, ToSet
<1>4. list \in [1..m -> Listable]
  BY <1>1, <1>2, <1>3
<1>5. list \in Seq(Listable)
  BY <1>1, <1>4, FunctionIsSequence
<1>6. Len(list) = m /\ DOMAIN list = 1..m
  <2>1. Len(list) \in Nat /\ DOMAIN list = 1..Len(list) /\ DOMAIN list = 1..m
    BY <1>4, <1>5, LenProperties
  <2>2. QED BY <1>1, <2>1
<1>7. ASSUME NEW i \in Shows(d) PROVE Position(d, i) > Cap \/ \E k \in 1..m : list[k].element = i
  <2>1. Position(d, i) \in 1..Len(v) /\ v[Position(d, i)] = i
    BY PositionFacts
  <2>2. CASE Position(d, i) \in 1..m
    BY <1>2, <2>1, <2>2
  <2>3. CASE Position(d, i) \notin 1..m
    BY <1>1, <2>1, <2>3, VisibleShape, SdomAssumption
  <2>4. QED BY <2>2, <2>3
<1>8. QED BY <1>1, <1>5, <1>6, <1>7

\* An entry is a listed element under its id.
LEMMA EntryFacts ==
    ASSUME NEW d \in Page, NEW t \in ToSet(Interactive(d))
    PROVE  t.element \in Shows(d) /\ t.element \in DOMAIN d /\ t.id = Name(d, t.element)
<1>1. PICK k \in 1..Len(Interactive(d)) : t = Interactive(d)[k]
  BY InteractiveShape DEF ToSet
<1>2. t \in {[element |-> i, id |-> Name(d, i)] : i \in Shows(d)}
  BY <1>1, InteractiveShape, ElementOfSeq
<1>3. QED BY <1>2, ShownElements

\* IdsTellApart, of one page.
LEMMA PageIdsTellApart ==
    ASSUME NEW d \in Page, NEW s \in ToSet(Interactive(d)), NEW t \in ToSet(Interactive(d)), s.id = t.id
    PROVE  s.element = t.element \/ \E e \in ToSet(d) : e.id = s.id
<1> DEFINE i == s.element
           j == t.element
<1>1. /\ i \in Shows(d) /\ i \in DOMAIN d /\ s.id = Name(d, i)
      /\ j \in Shows(d) /\ j \in DOMAIN d /\ t.id = Name(d, j)
  BY EntryFacts
<1>2. CASE d[i].id # NoId
  <2>1. d[i].id = s.id /\ d[i] \in ToSet(d)
    BY <1>1, <1>2, NameFacts DEF ToSet
  <2>2. QED BY <2>1
<1>3. CASE d[j].id # NoId
  <2>1. d[j].id = s.id /\ d[j] \in ToSet(d)
    BY <1>1, <1>3, NameFacts DEF ToSet
  <2>2. QED BY <2>1
<1>4. CASE d[i].id = NoId /\ d[j].id = NoId
  <2>1. Name(d, i) = <<Kind(d[i]), Cardinality(Numbered(d, i))>>
    BY <1>1, <1>4, NameFacts
  <2>2. Name(d, j) = <<Kind(d[j]), Cardinality(Numbered(d, j))>>
    BY <1>1, <1>4, NameFacts
  <2>3. Name(d, i) = Name(d, j)
    BY <1>1
  <2>4. Kind(d[i]) = Kind(d[j])
    BY <2>1, <2>2, <2>3
  <2>5. Cardinality(Numbered(d, i)) = Cardinality(Numbered(d, j))
    BY <2>1, <2>2, <2>3
  <2>6. QED BY <1>1, <1>4, <2>4, <2>5, NumbersDiffer
<1>5. QED BY <1>2, <1>3, <1>4

\* FormsNameTheirFields, of one page.
LEMMA PageFormsName ==
    ASSUME NEW d \in Page
    PROVE  LET list == ToSet(Interactive(d))
               listed == {e.id : e \in {x \in list : x.element \in InForm(d)}} IN
           /\ listed \subseteq Fields(d)
           /\ \A f \in Fields(d) \ listed :
                  \E i \in InForm(d) : Name(d, i) = f /\ (d[i].hidden \/ Position(d, i) > Cap)
<1> DEFINE list == ToSet(Interactive(d))
           listed == {e.id : e \in {x \in list : x.element \in InForm(d)}}
<1>1. ASSUME NEW x \in list, x.element \in InForm(d) PROVE x.id \in Fields(d)
  <2>1. x.id = Name(d, x.element) /\ x.id # NoId
    BY EntryFacts, NameFacts
  <2>2. QED BY <1>1, <2>1 DEF Fields
<1>2. ASSUME NEW f \in Fields(d) \ listed
      PROVE  \E i \in InForm(d) : Name(d, i) = f /\ (d[i].hidden \/ Position(d, i) > Cap)
  <2>1. PICK i \in InForm(d) : f = Name(d, i)
    BY DEF Fields
  <2>2. i \in DOMAIN d /\ d[i].hidden \in BOOLEAN
    BY PageShape DEF InForm, PageElement
  <2>3. CASE d[i].hidden
    BY <2>1, <2>3
  <2>4. CASE ~d[i].hidden
    <3>1. i \in Shows(d)
      BY <2>4, ShownElements
    <3>2. ASSUME NEW k \in 1..Len(Interactive(d)), Interactive(d)[k].element = i PROVE FALSE
      <4>1. Interactive(d)[k] \in list
        BY InteractiveShape DEF ToSet
      <4>2. Interactive(d)[k].id = f
        BY <2>1, <3>2, <4>1, EntryFacts
      <4>3. QED BY <3>2, <4>1, <4>2
    <3>3. QED BY <2>1, <3>1, <3>2, InteractiveShape
  <2>5. QED BY <2>2, <2>3, <2>4
<1>3. QED BY <1>1, <1>2

\* NeverActsOnAnother, of one page: an identifier that names one element finds it
\* or nothing.
LEMMA PageLocates ==
    ASSUME NEW d \in Page, NEW t \in ToSet(Interactive(d)), IsIdentifier(t.id), NEW named,
           named = {i \in DOMAIN d : Name(d, i) = t.id}, Cardinality(named) = 1
    PROVE  Locate(d, t.id) = IF named = {i \in DOMAIN d : d[i].id = t.id} THEN t.element ELSE 0
<1> DEFINE own == {i \in DOMAIN d : d[i].id = t.id}
<1>1. t.element \in Shows(d) /\ t.element \in named /\ t.id # NoId
  BY EntryFacts, NameFacts
<1>2. named = {t.element}
  <2>1. Len(d) \in Int /\ 1 \in Int /\ DOMAIN d = 1..Len(d) /\ named \subseteq DOMAIN d
    BY PageShape
  <2>2. IsFiniteSet(named)
    BY <2>1, FS_Interval, FS_Subset
  <2>3. PICK x : named = {x}
    BY <2>2, FS_Singleton
  <2>4. QED BY <1>1, <2>3
<1>3. own \subseteq named
  BY <1>1, NameFacts
<1>4. CASE own = named
  BY <1>2, <1>4, LocateFacts
<1>5. CASE own # named
  <2>1. own = {}
    BY <1>2, <1>3, <1>5
  <2>2. QED BY <1>5, <2>1, LocateFacts
<1>6. QED BY <1>4, <1>5

(***************************************************************************)
(* The state.  A call that has loaded a page is still on it, unless others *)
(* moved the page (Browses), so the label it answers with is true          *)
(* (Labelled).  What an agent was last shown, what a call took from that,  *)
(* and the content a call has got, are of the live page as long as the     *)
(* agent or the call is current (Sees, Aims), so an interact that is       *)
(* current acts on the page its target was listed for (Hits).              *)
(***************************************************************************)
Views == [url: Urls \cup {Blank}, doc: Docs]
Entries == UNION {ToSet(Interactive(Elements[d])) : d \in Docs}
TypeInv ==
    /\ page \in [Agents -> Views] /\ seen \in [Agents -> {ToSdom(d) : d \in Docs}]
    /\ stage \in [Calls -> {"idle", "browser", "command", "loaded", "captured"}]
    /\ tool \in [Calls -> {"browse_to", "extract_page_state", "interact", None}]
    /\ target \in [Calls -> Urls \cup Entries \cup {None}]
    /\ shot \in [Calls -> Views]
    /\ DOMAIN result = Calls /\ DOMAIN hit = Calls
    /\ crossed \in [Calls -> BOOLEAN] /\ current \subseteq Agents \cup Calls

Live(c) == page[AgentOf[c]]
Browses(c) ==
    /\ stage[c] # "idle" /\ tool[c] = "browse_to" => target[c] \in Urls
    /\ stage[c] = "loaded" => tool[c] = "browse_to"
    /\ stage[c] = "loaded" /\ ~crossed[c] => Live(c).url = Lands[target[c]]
    /\ stage[c] = "captured" /\ ~crossed[c] => shot[c].url = Live(c).url
    /\ stage[c] = "captured" /\ ~crossed[c] /\ tool[c] = "browse_to" => shot[c].url = Lands[target[c]]
Labelled(c) ==
    result[c] # None =>
        \/ result[c].label = result[c].url \/ crossed[c]
        \/ result[c].asked # None /\ Lands[result[c].asked] # result[c].asked
Aims(c) ==
    c \in current =>
        /\ stage[c] \in {"browser", "command"} /\ tool[c] = "interact"
               => target[c] \in ToSet(Interactive(Elements[Live(c).doc]))
        /\ stage[c] = "captured" => shot[c].doc = Live(c).doc
Hits(c) ==
    hit[c] # None /\ hit[c].same /\ Cardinality(hit[c].named) = 1 /\ IsIdentifier(hit[c].id)
        => hit[c].found = (IF hit[c].real THEN hit[c].listed ELSE 0)
Sees(a) == a \in current => seen[a] = ToSdom(page[a].doc)

CallOK(c) == Browses(c) /\ Labelled(c) /\ Aims(c) /\ Hits(c)
ToolsInv == TypeInv /\ (\A c \in Calls : CallOK(c)) /\ (\A a \in Agents : Sees(a))

\* A call or an agent of which nothing changed but others' pages stays as it is.
Rests(c) ==
    /\ stage'[c] = stage[c] /\ tool'[c] = tool[c] /\ target'[c] = target[c] /\ shot'[c] = shot[c]
    /\ result'[c] = result[c] /\ hit'[c] = hit[c] /\ (crossed[c] => crossed'[c])
    /\ stage[c] \in {"loaded", "captured"} /\ ~crossed'[c] => Live(c)'.url = Live(c).url
    /\ c \in current' => c \in current /\ Live(c)' = Live(c)
SeesAsBefore(a) == a \in current' => a \in current /\ page'[a] = page[a] /\ seen'[a] = seen[a]

LEMMA RestsOK == ASSUME NEW c \in Calls, TypeInv, CallOK(c), Rests(c) PROVE CallOK(c)'
<1>1. Browses(c)'
  BY DEF CallOK, Browses, Rests, TypeInv
<1>2. Labelled(c)'
  BY DEF CallOK, Labelled, Rests
<1>3. Aims(c)'
  BY DEF CallOK, Aims, Rests
<1>4. Hits(c)'
  BY DEF CallOK, Hits, Rests
<1>5. QED BY <1>1, <1>2, <1>3, <1>4 DEF CallOK

LEMMA SeesOn == ASSUME NEW a \in Agents, Sees(a), SeesAsBefore(a) PROVE Sees(a)'
BY DEF Sees, SeesAsBefore

\* What Moves leaves of the pages and of the history.
LEMMA MovesFacts ==
    ASSUME TypeInv, NEW a \in Agents, NEW p \in Views, NEW c, Moves(a, p, c)
    PROVE  /\ page' \in [Agents -> Views] /\ page'[a] = p /\ seen' = seen
           /\ crossed' \in [Calls -> BOOLEAN] /\ current' \subseteq current
           /\ \A d \in Calls : crossed[d] => crossed'[d]
           /\ \A d \in Calls \ {c} : stage[d] \in {"loaded", "captured"} /\ ~crossed'[d] => Live(d)'.url = Live(d).url
           /\ \A d \in Calls : d \in current' => Live(d)' = Live(d)
           /\ \A b \in Agents : b \in current' => page'[b] = page[b]
<1>1. page' \in [Agents -> Views] /\ page'[a] = p /\ seen' = seen /\ \A b \in Agents : b # a => page'[b] = page[b]
  BY DEF Moves, TypeInv
<1>2. crossed' \in [Calls -> BOOLEAN] /\ \A d \in Calls : crossed[d] => crossed'[d]
  BY DEF Moves, TypeInv
<1>3. \A d \in Calls : AgentOf[d] \in Agents
  BY SpatialAssumption
<1>4. ASSUME NEW d \in Calls \ {c}, stage[d] \in {"loaded", "captured"}, ~crossed'[d]
      PROVE  Live(d)'.url = Live(d).url
  <2>1. CASE AgentOf[d] = a
    <3>1. p.url = page[a].url
      BY <1>4, <2>1 DEF Moves
    <3>2. QED BY <1>1, <2>1, <3>1 DEF Live
  <2>2. CASE AgentOf[d] # a
    BY <1>1, <1>3, <2>2 DEF Live
  <2>3. QED BY <2>1, <2>2
<1>5. current' \subseteq current /\ (p # page[a] => a \notin current' /\ \A d \in Calls : d \in current' => AgentOf[d] # a)
  BY DEF Moves
<1>6. \A d \in Calls : d \in current' => Live(d)' = Live(d)
  BY <1>1, <1>3, <1>5 DEF Live
<1>7. \A b \in Agents : b \in current' => page'[b] = page[b]
  BY <1>1, <1>5
<1>8. QED BY <1>1, <1>2, <1>4, <1>5, <1>6, <1>7

\* What navigation can show is a view; calls are nobody's agent.
LEMMA SitesAreViews ==
    /\ BlankPage \in Views
    /\ \A u \in Urls : Lands[u] \in Urls /\ PagesAt(Lands[u]) \subseteq Views
    /\ \A d \in Docs : Elements[d] \in Page
    /\ \A c \in Calls : AgentOf[c] \in Agents /\ AgentOf[c] # c /\ c \notin Agents
BY SpatialAssumption DEF BlankPage, Views, PagesAt, Page

\* A step of call c that leaves the others' calls at rest.
LEMMA OneStep ==
    ASSUME ToolsInv, TypeInv', NEW c \in Calls, CallOK(c)',
           \A d \in Calls \ {c} : Rests(d), \A a \in Agents : SeesAsBefore(a) \/ Sees(a)'
    PROVE  ToolsInv'
<1>1. ASSUME NEW d \in Calls PROVE CallOK(d)'
  BY RestsOK DEF ToolsInv
<1>2. ASSUME NEW a \in Agents PROVE Sees(a)'
  BY SeesOn DEF ToolsInv
<1>3. QED BY <1>1, <1>2 DEF ToolsInv

\* One lemma for each action.
LEMMA StartKeeps ==
    ASSUME ToolsInv, NEW c \in Calls, NEW name, NEW what, Start(c, name, what),
           \/ name = "browse_to" /\ what \in Urls
           \/ name = "extract_page_state" /\ what = None
           \/ name = "interact" /\ what \in ToSet(seen[AgentOf[c]].interactive)
    PROVE  ToolsInv'
<1>1. /\ TypeInv /\ CallOK(c) /\ AgentOf[c] \in Agents /\ c \notin Agents /\ Sees(AgentOf[c])
  BY SitesAreViews DEF ToolsInv
<1>2. name = "interact" => \E d \in Docs : /\ seen[AgentOf[c]] = ToSdom(d) /\ what \in ToSet(Interactive(Elements[d]))
  BY <1>1 DEF TypeInv, ToSdom
<1>3. what \in Urls \cup Entries \cup {None}
  BY <1>2 DEF Entries
<1>4. /\ stage'[c] = "browser" /\ tool'[c] = name /\ target'[c] = what /\ result'[c] = None /\ hit'[c] = None
      /\ UNCHANGED <<page, seen, shot>>
      /\ c \in current' => name = "interact" /\ AgentOf[c] \in current
      /\ \A x : x # c => (x \in current' <=> x \in current)
  BY <1>1 DEF Start, view, TypeInv
<1>5. TypeInv'
  BY <1>1, <1>3 DEF Start, view, TypeInv
<1>6. \A d \in Calls \ {c} : Rests(d)
  BY <1>1, <1>4 DEF Start, Rests, Live, TypeInv
<1>7. \A a \in Agents : SeesAsBefore(a)
  BY <1>1, <1>4 DEF SeesAsBefore
<1>8. Browses(c)' /\ Labelled(c)' /\ Hits(c)'
  BY <1>4 DEF Browses, Labelled, Hits
<1>9. Aims(c)'
  <2>1. ASSUME c \in current' PROVE target'[c] \in ToSet(Interactive(Elements[Live(c)'.doc]))
    <3>1. seen[AgentOf[c]] = ToSdom(Live(c).doc) /\ name = "interact"
      BY <1>1, <1>4, <2>1 DEF Sees, Live
    <3>2. what \in ToSet(Interactive(Elements[Live(c).doc]))
      BY <3>1 DEF ToSdom
    <3>3. QED BY <1>4, <3>2 DEF Live
  <2>2. QED BY <1>4, <2>1 DEF Aims
<1>10. QED BY <1>5, <1>6, <1>7, <1>8, <1>9, OneStep DEF CallOK

LEMMA GotBrowserKeeps == ASSUME ToolsInv, NEW c \in Calls, GotBrowser(c) PROVE ToolsInv'
<1>1. TypeInv /\ CallOK(c)
  BY DEF ToolsInv
<1>2. TypeInv'
  BY <1>1 DEF GotBrowser, Goto, Error, Answer, view, TypeInv
<1>3. \A d \in Calls \ {c} : Rests(d)
  BY <1>1 DEF GotBrowser, Goto, Error, Answer, view, Rests, Live, TypeInv
<1>4. \A a \in Agents : SeesAsBefore(a)
  BY DEF GotBrowser, view, SeesAsBefore
<1>5. CASE Goto(c, "command") /\ UNCHANGED result
  <2>1. stage'[c] = "command" /\ stage[c] = "browser" /\ UNCHANGED <<tool, target, result, page, shot, crossed, current, hit>>
    BY <1>1, <1>5 DEF GotBrowser, Goto, view, TypeInv
  <2>2. CallOK(c)'
    BY <1>1, <2>1 DEF CallOK, Browses, Labelled, Aims, Hits, Live
  <2>3. QED BY <1>2, <1>3, <1>4, <2>2, OneStep
<1>6. CASE Error(c)
  <2>1. stage'[c] = "idle" /\ result'[c] = None /\ UNCHANGED hit
    BY <1>1, <1>6 DEF GotBrowser, Error, Answer, TypeInv
  <2>2. CallOK(c)'
    BY <1>1, <2>1 DEF CallOK, Browses, Labelled, Aims, Hits
  <2>3. QED BY <1>2, <1>3, <1>4, <2>2, OneStep
<1>7. QED BY <1>5, <1>6 DEF GotBrowser

\* A call that answers None has nothing more to keep but what it hit.
LEMMA ErrorIsOK ==
    ASSUME TypeInv, NEW c \in Calls, Error(c), Hits(c)' PROVE CallOK(c)'
<1>1. stage'[c] = "idle" /\ result'[c] = None
  BY DEF Error, Answer, TypeInv
<1>2. QED BY <1>1 DEF CallOK, Browses, Labelled, Aims

LEMMA NavigateKeeps == ASSUME ToolsInv, NEW c \in Calls, Navigate(c) PROVE ToolsInv'
<1> DEFINE a == AgentOf[c]
<1>1. TypeInv /\ CallOK(c) /\ a \in Agents /\ stage[c] = "command" /\ tool[c] = "browse_to" /\ target[c] \in Urls
  BY SitesAreViews DEF ToolsInv, CallOK, Browses, Navigate
<1>2. PICK p \in Views : /\ Moves(a, p, c)
                         /\ \/ Goto(c, "loaded") /\ UNCHANGED result /\ p.url = Lands[target[c]]
                            \/ Error(c)
  <2>1. CASE \E p \in PagesAt(Lands[target[c]]) : /\ Moves(a, p, c)
                                                  /\ \/ Goto(c, "loaded") /\ UNCHANGED result
                                                     \/ Error(c)
    BY <1>1, <2>1, SitesAreViews DEF PagesAt
  <2>2. CASE Moves(a, page[a], c) /\ Error(c)
    BY <1>1, <2>2 DEF TypeInv
  <2>3. QED BY <2>1, <2>2 DEF Navigate
<1>3. /\ page' \in [Agents -> Views] /\ page'[a] = p /\ seen' = seen /\ UNCHANGED <<shot, hit>>
      /\ crossed' \in [Calls -> BOOLEAN] /\ current' \subseteq current
  BY <1>1, <1>2, MovesFacts DEF Navigate
<1>4. TypeInv'
  BY <1>1, <1>2, <1>3 DEF Goto, Error, Answer, TypeInv
<1>5. ASSUME NEW d \in Calls \ {c} PROVE Rests(d)
  <2>1. stage'[d] = stage[d] /\ tool'[d] = tool[d] /\ target'[d] = target[d] /\ result'[d] = result[d]
    BY <1>1, <1>2 DEF Goto, Error, Answer, TypeInv
  <2>2. QED BY <1>1, <1>2, <1>3, <2>1, MovesFacts DEF Rests
<1>6. ASSUME NEW b \in Agents PROVE SeesAsBefore(b)
  BY <1>1, <1>2, MovesFacts DEF SeesAsBefore
<1>7. CASE Goto(c, "loaded") /\ UNCHANGED result /\ p.url = Lands[target[c]]
  <2>1. stage'[c] = "loaded" /\ UNCHANGED <<tool, target, result>>
    BY <1>1, <1>7 DEF Goto, TypeInv
  <2>2. crossed[c] => crossed'[c]
    BY <1>1, <1>2, MovesFacts
  <2>3. Browses(c)'
    BY <1>1, <1>3, <1>7, <2>1 DEF Browses, Live
  <2>4. CallOK(c)'
    BY <1>1, <1>3, <2>1, <2>2, <2>3 DEF CallOK, Labelled, Aims, Hits
  <2>5. QED BY <1>4, <1>5, <1>6, <2>4, OneStep
<1>8. CASE Error(c)
  <2>1. Hits(c)'
    BY <1>1, <1>3 DEF CallOK, Hits
  <2>2. QED BY <1>1, <1>4, <1>5, <1>6, <1>8, <2>1, ErrorIsOK, OneStep
<1>9. QED BY <1>2, <1>7, <1>8

LEMMA CaptureKeeps == ASSUME ToolsInv, NEW c \in Calls, Capture(c) PROVE ToolsInv'
<1>1. TypeInv /\ CallOK(c) /\ AgentOf[c] \in Agents /\ c \notin Agents
  BY SitesAreViews DEF ToolsInv
<1>2. TypeInv'
  BY <1>1 DEF Capture, Goto, view, TypeInv
<1>3. /\ stage'[c] = "captured" /\ shot'[c] = Live(c) /\ UNCHANGED <<page, tool, target, result, crossed, hit>>
      /\ \/ stage[c] = "loaded"
         \/ stage[c] = "command" /\ tool[c] = "extract_page_state"
  BY <1>1 DEF Capture, Goto, view, Live, TypeInv
<1>4. ASSUME NEW d \in Calls \ {c} PROVE Rests(d)
  BY <1>1 DEF Capture, Goto, view, Rests, Live, TypeInv
<1>5. ASSUME NEW a \in Agents PROVE SeesAsBefore(a)
  BY <1>1 DEF Capture, view, SeesAsBefore
<1>6. CallOK(c)'
  BY <1>1, <1>3 DEF CallOK, Browses, Labelled, Aims, Hits, Live
<1>7. QED BY <1>2, <1>4, <1>5, <1>6, OneStep

LEMMA SerializeKeeps == ASSUME ToolsInv, NEW c \in Calls, Serialize(c) PROVE ToolsInv'
<1> DEFINE a == AgentOf[c]
           sdom == [asked |-> target[c], url |-> shot[c].url,
                    label |-> IF tool[c] = "browse_to" THEN target[c] ELSE page[a].url]
<1>1. TypeInv /\ CallOK(c) /\ a \in Agents /\ c \notin Agents /\ stage[c] = "captured"
  BY SitesAreViews DEF ToolsInv, Serialize
<1>2. /\ stage'[c] = "idle" /\ result'[c] = sdom /\ UNCHANGED <<page, crossed, hit>>
      /\ seen'[a] = ToSdom(shot[c].doc) /\ \A b \in Agents : b # a => seen'[b] = seen[b]
      /\ a \in current' => c \in current
      /\ \A x : x # a => (x \in current' <=> x \in current)
  BY <1>1 DEF Serialize, Answer, TypeInv
<1>3. shot[c].doc \in Docs /\ BlankPage \in Views
  BY <1>1, SitesAreViews DEF TypeInv, Views
<1>4. TypeInv'
  BY <1>1, <1>3 DEF Serialize, Answer, TypeInv
<1>5. ASSUME NEW d \in Calls \ {c} PROVE Rests(d)
  <2>1. d # a
    BY <1>1, SitesAreViews
  <2>2. d \in current' => d \in current
    BY <1>2, <2>1
  <2>3. stage'[d] = stage[d] /\ tool'[d] = tool[d] /\ target'[d] = target[d] /\ shot'[d] = shot[d] /\ result'[d] = result[d]
    BY <1>1 DEF Serialize, Answer, TypeInv
  <2>4. QED BY <1>2, <2>2, <2>3 DEF Rests, Live
<1>6. ASSUME NEW b \in Agents PROVE SeesAsBefore(b) \/ Sees(b)'
  <2>1. CASE b = a
    BY <1>1, <1>2, <2>1 DEF Sees, CallOK, Aims, Live
  <2>2. CASE b # a
    BY <1>2, <2>2 DEF SeesAsBefore
  <2>3. QED BY <2>1, <2>2
<1>7. Labelled(c)'
  <2>1. CASE crossed[c]
    BY <1>2, <2>1 DEF Labelled
  <2>2. CASE ~crossed[c] /\ tool[c] = "browse_to"
    <3>1. target[c] \in Urls /\ shot[c].url = Lands[target[c]]
      BY <1>1, <2>2 DEF CallOK, Browses
    <3>2. target[c] # None
      BY <3>1, SpatialAssumption
    <3>3. result'[c].label = target[c] /\ result'[c].asked = target[c] /\ result'[c].url = shot[c].url
      BY <1>2, <2>2
    <3>4. QED BY <3>1, <3>2, <3>3 DEF Labelled
  <2>3. CASE ~crossed[c] /\ tool[c] # "browse_to"
    <3>1. shot[c].url = page[a].url
      BY <1>1, <2>3 DEF CallOK, Browses, Live
    <3>2. result'[c].label = result'[c].url
      BY <1>2, <2>3, <3>1
    <3>3. QED BY <3>2 DEF Labelled
  <2>4. QED BY <2>1, <2>2, <2>3
<1>8. CallOK(c)'
  BY <1>1, <1>2, <1>7 DEF CallOK, Browses, Aims, Hits
<1>9. QED BY <1>4, <1>5, <1>6, <1>8, OneStep

LEMMA PerformKeeps == ASSUME ToolsInv, NEW c \in Calls, Perform(c) PROVE ToolsInv'
<1> DEFINE a == AgentOf[c]
           d == Elements[page[a].doc]
           named == {i \in DOMAIN d : Name(d, i) = target[c].id}
           entry == [listed |-> target[c].element, id |-> target[c].id, found |-> Locate(d, target[c].id), named |-> named,
                     real |-> named = {i \in DOMAIN d : d[i].id = target[c].id}, same |-> c \in current]
<1>1. TypeInv /\ CallOK(c) /\ a \in Agents /\ stage[c] = "command" /\ tool[c] = "interact"
  BY SitesAreViews DEF ToolsInv, Perform
<1>2. PICK p \in Views : Moves(a, p, c) /\ Error(c)
  <2>1. CASE Moves(a, page[a], c) /\ Error(c)
    BY <1>1, <2>1 DEF TypeInv
  <2>2. CASE Answer(c, None) /\ \E p \in {page[a]} \cup UNION {PagesAt(Lands[u]) : u \in Urls} : Moves(a, p, c)
    <3>1. {page[a]} \cup UNION {PagesAt(Lands[u]) : u \in Urls} \subseteq Views
      BY <1>1, SitesAreViews DEF TypeInv
    <3>2. QED BY <2>2, <3>1 DEF Error
  <2>3. QED BY <2>1, <2>2 DEF Perform
<1>3. hit' = [hit EXCEPT ![c] = entry] /\ UNCHANGED shot
  BY DEF Perform
<1>4. TypeInv'
  BY <1>1, <1>2, <1>3, MovesFacts DEF Error, Answer, TypeInv
<1>5. ASSUME NEW e \in Calls \ {c} PROVE Rests(e)
  <2>1. stage'[e] = stage[e] /\ tool'[e] = tool[e] /\ target'[e] = target[e] /\ result'[e] = result[e] /\ hit'[e] = hit[e]
    BY <1>1, <1>2, <1>3 DEF Error, Answer, TypeInv
  <2>2. QED BY <1>1, <1>2, <1>3, <2>1, MovesFacts DEF Rests
<1>6. ASSUME NEW b \in Agents PROVE SeesAsBefore(b)
  BY <1>1, <1>2, MovesFacts DEF SeesAsBefore
<1>7. Hits(c)'
  <2>1. hit'[c] = entry
    BY <1>1, <1>3 DEF TypeInv
  <2>2. /\ hit'[c].found = Locate(d, target[c].id) /\ hit'[c].named = named /\ hit'[c].listed = target[c].element
        /\ hit'[c].id = target[c].id
        /\ hit'[c].real = (named = {i \in DOMAIN d : d[i].id = target[c].id}) /\ hit'[c].same = (c \in current)
    BY <2>1
  <2>3. ASSUME c \in current, Cardinality(named) = 1, IsIdentifier(target[c].id)
        PROVE  Locate(d, target[c].id) =
                   IF named = {i \in DOMAIN d : d[i].id = target[c].id} THEN target[c].element ELSE 0
    <3>1. target[c] \in ToSet(Interactive(d))
      BY <1>1, <2>3 DEF CallOK, Aims, Live
    <3>2. d \in Page
      BY <1>1, SitesAreViews DEF TypeInv, Views
    <3>3. QED BY <2>3, <3>1, <3>2, PageLocates
  <2>4. QED BY <2>2, <2>3 DEF Hits
<1>8. QED BY <1>1, <1>2, <1>4, <1>5, <1>6, <1>7, ErrorIsOK, OneStep

\* The page moves by itself, or with the browser.
LEMMA WorldKeeps ==
    ASSUME ToolsInv, NEW a \in Agents, NEW p \in Views, Moves(a, p, None), UNCHANGED <<call, shot, result, hit>>
    PROVE  ToolsInv'
<1>1. TypeInv /\ UNCHANGED <<stage, tool, target, shot, result, hit>>
  BY DEF ToolsInv, call
<1>2. TypeInv'
  BY <1>1, MovesFacts DEF TypeInv
<1>3. \A d \in Calls : d # None
  BY SpatialAssumption
<1>4. ASSUME NEW d \in Calls PROVE CallOK(d)'
  <2>1. Rests(d)
    BY <1>1, <1>3, MovesFacts DEF Rests
  <2>2. QED BY <1>1, <2>1, RestsOK DEF ToolsInv
<1>5. ASSUME NEW b \in Agents PROVE Sees(b)'
  <2>1. SeesAsBefore(b)
    BY <1>1, MovesFacts DEF SeesAsBefore
  <2>2. QED BY <2>1, SeesOn DEF ToolsInv
<1>6. QED BY <1>2, <1>4, <1>5 DEF ToolsInv

LEMMA ToolsInvInit == ToolsInit => ToolsInv
<1> SUFFICES ASSUME ToolsInit PROVE ToolsInv
  OBVIOUS
<1>1. BlankPage \in Views /\ Blank \in Docs
  BY SitesAreViews, SpatialAssumption
<1>2. TypeInv
  BY <1>1 DEF ToolsInit, TypeInv
<1>3. \A c \in Calls : CallOK(c)
  BY DEF ToolsInit, CallOK, Browses, Labelled, Aims, Hits
<1>4. \A a \in Agents : Sees(a)
  BY DEF ToolsInit, Sees
<1>5. QED BY <1>2, <1>3, <1>4 DEF ToolsInv

LEMMA ToolsInvNext == ToolsInv /\ [ToolsNext]_toolsVars => ToolsInv'
<1> SUFFICES ASSUME ToolsInv, [ToolsNext]_toolsVars PROVE ToolsInv'
  OBVIOUS
<1>1. ASSUME NEW c \in Calls, BrowseTo(c) PROVE ToolsInv'
  BY <1>1, StartKeeps DEF BrowseTo
<1>2. ASSUME NEW c \in Calls, Extract(c) PROVE ToolsInv'
  BY <1>2, StartKeeps DEF Extract
<1>3. ASSUME NEW c \in Calls, Interact(c) PROVE ToolsInv'
  BY <1>3, StartKeeps DEF Interact
<1>4. ASSUME NEW a \in Agents, PageChanges(a) PROVE ToolsInv'
  <2>1. PICK p \in PagesAt(page[a].url) : Moves(a, p, None)
    BY <1>4 DEF PageChanges
  <2>2. page[a].url \in Urls
    BY <1>4 DEF PageChanges, ToolsInv, TypeInv, Views
  <2>3. p \in Views
    BY <2>1, <2>2, SpatialAssumption DEF PagesAt, Views
  <2>4. QED BY <1>4, <2>1, <2>3, WorldKeeps DEF PageChanges
<1>5. ASSUME NEW a \in Agents, NewBrowser(a) PROVE ToolsInv'
  BY <1>5, SitesAreViews, WorldKeeps DEF NewBrowser
<1>6. CASE UNCHANGED toolsVars
  <2>1. UNCHANGED <<page, seen, stage, tool, target, shot, result, crossed, current, hit>>
    BY <1>6 DEF toolsVars, view, call
  <2>2. TypeInv'
    BY <2>1 DEF ToolsInv, TypeInv
  <2>3. ASSUME NEW c \in Calls PROVE CallOK(c)'
    BY <2>1, RestsOK DEF ToolsInv, Rests, Live
  <2>4. ASSUME NEW a \in Agents PROVE Sees(a)'
    BY <2>1, SeesOn DEF ToolsInv, SeesAsBefore
  <2>5. QED BY <2>2, <2>3, <2>4 DEF ToolsInv
<1>7. QED BY <1>1, <1>2, <1>3, <1>4, <1>5, <1>6, GotBrowserKeeps, NavigateKeeps, CaptureKeeps,
             SerializeKeeps, PerformKeeps DEF ToolsNext, Begin, Step

LEMMA ToolsInvHolds == ToolsSpec => []ToolsInv
BY ToolsInvInit, ToolsInvNext, PTL DEF ToolsSpec

\* The label of an SDOM is the url of its page, up to redirects and others' moves.
THEOREM LabelsAlwaysTrue == ToolsSpec => []LabelsAreTrue
<1>1. ToolsInv => LabelsAreTrue
  BY DEF ToolsInv, CallOK, Labelled, LabelsAreTrue
<1>2. QED BY <1>1, ToolsInvHolds, PTL

\* On a page that has not changed, interact with an id that names one element and is
\* a CSS identifier acts on no other element.
THEOREM AlwaysActsOnItsOwn == ToolsSpec => []NeverActsOnAnother
<1>1. ToolsInv => NeverActsOnAnother
  BY DEF ToolsInv, CallOK, Hits, NeverActsOnAnother
<1>2. QED BY <1>1, ToolsInvHolds, PTL

\* What an agent was last shown was made of a document.
LEMMA SeenIsOfADocument ==
    ASSUME ToolsInv, NEW a \in Agents
    PROVE  LET d == Elements[seen[a].doc] IN
           d \in Page /\ seen[a].interactive = Interactive(d) /\ seen[a].fields = Fields(d)
<1>1. PICK d \in Docs : seen[a] = ToSdom(d)
  BY DEF ToolsInv, TypeInv
<1>2. QED BY <1>1, SitesAreViews DEF ToSdom

\* Ids of an SDOM tell its elements apart, but for ids the page itself has.
THEOREM IdsAlwaysTellApart == ToolsSpec => []IdsTellApart
<1>1. ASSUME ToolsInv PROVE IdsTellApart
  <2> SUFFICES ASSUME NEW a \in Agents,
                      NEW j \in DOMAIN seen[a].interactive, NEW k \in DOMAIN seen[a].interactive,
                      seen[a].interactive[j].id = seen[a].interactive[k].id
               PROVE  \/ seen[a].interactive[j].element = seen[a].interactive[k].element
                      \/ \E e \in ToSet(Elements[seen[a].doc]) : e.id = seen[a].interactive[j].id
    BY DEF IdsTellApart
  <2>1. seen[a].interactive[j] \in ToSet(seen[a].interactive) /\ seen[a].interactive[k] \in ToSet(seen[a].interactive)
    BY DEF ToSet
  <2>2. QED BY <1>1, <2>1, SeenIsOfADocument, PageIdsTellApart
<1>2. QED BY <1>1, ToolsInvHolds, PTL

\* The forms of an SDOM name their listed fields, and of the others only hidden ones
\* and those whose place is past the cap.
THEOREM FormsAlwaysName == ToolsSpec => []FormsNameTheirFields
<1>1. ASSUME ToolsInv PROVE FormsNameTheirFields
  <2> SUFFICES ASSUME NEW a \in Agents
               PROVE  LET doc == Elements[seen[a].doc]
                          listed == {e.id : e \in {x \in ToSet(seen[a].interactive) : x.element \in InForm(doc)}} IN
                      /\ listed \subseteq seen[a].fields
                      /\ \A f \in seen[a].fields \ listed :
                            \E i \in InForm(doc) : Name(doc, i) = f /\ (doc[i].hidden \/ Position(doc, i) > Cap)
    BY DEF FormsNameTheirFields
  <2>1. Elements[seen[a].doc] \in Page
    BY <1>1, SeenIsOfADocument
  <2>2. QED BY <1>1, <2>1, SeenIsOfADocument, PageFormsName
<1>2. QED BY <1>1, ToolsInvHolds, PTL

-----------------------------------------------------------------------------
(* BrowserPool.                                                            *)
USE PoolAssumption

(***************************************************************************)
(* The type invariant.                                                     *)
(***************************************************************************)
LEMMA AdmitOutcome ==
    ASSUME NEW c, NEW a, NEW held, Admit(c, a, held)
    PROVE  \/ Return(c, "full")
           \/ Return(c, "inuse")
           \/ WaitAt(c, "claim") /\ held \notin Procs
<1>1. CASE Cardinality(Cached(ProcOf[c])) >= MaxInstances
  BY <1>1 DEF Admit
<1>2. CASE ~(Cardinality(Cached(ProcOf[c])) >= MaxInstances)
  BY <1>2 DEF Admit
<1>3. QED BY <1>1, <1>2

LEMMA AdmitType ==
    ASSUME TypeOK, NEW c \in Calls, NEW a, NEW held, Admit(c, a, held)
    PROVE  /\ pc' \in [Calls -> {"idle", "closing", "claim", "launch", "hung"}]
           /\ attempt' \in [Calls -> 0 .. 3]
           /\ answer' \in [Calls -> {"none", "open", "dead", "full", "inuse", "failed"}]
<1>1. CASE Return(c, "full")
  BY <1>1 DEF Return, TypeOK
<1>2. CASE Return(c, "inuse")
  BY <1>2 DEF Return, TypeOK
<1>3. CASE WaitAt(c, "claim")
  BY <1>3 DEF WaitAt, TypeOK
<1>4. QED BY <1>1, <1>2, <1>3, AdmitOutcome

\* Caches, lock files, calls and answers keep their types.
THEOREM PoolTypeCorrect == Spec => []TypeOK
<1>1. Init => TypeOK
  BY DEF Init, TypeOK
<1>2. TypeOK /\ [Next]_vars => TypeOK'
  <2> SUFFICES ASSUME TypeOK, [Next]_vars PROVE TypeOK'
    OBVIOUS
  <2>1. ASSUME NEW c \in Calls, NEW a \in Agents, Get(c, a) PROVE TypeOK'
    <3>1. agent' \in [Calls -> Agents] /\ faults' = faults /\ files' = files /\ lock' = lock
      BY <2>1 DEF Get, Reuse, Evict, Enter, TypeOK
    <3>2. CASE Reuse(c, a)
      BY <3>1, <3>2 DEF Reuse, Return, TypeOK
    <3>3. CASE Evict(c, a)
      BY <3>1, <3>3 DEF Evict, WaitAt, TypeOK
    <3>4. CASE Enter(c, a)
      BY <3>1, <3>4, AdmitType DEF Enter, TypeOK
    <3>5. QED BY <2>1, <3>2, <3>3, <3>4 DEF Get
  <2>2. ASSUME NEW c \in Calls, CloseEnds(c) PROVE TypeOK'
    BY <2>2, AdmitType DEF CloseEnds, TypeOK
  <2>3. ASSUME NEW c \in Calls, Claim(c) PROVE TypeOK'
    BY <2>3 DEF Claim, TypeOK
  <2>4. ASSUME NEW c \in Calls, Launched(c) PROVE TypeOK'
    BY <2>4 DEF Launched, Return, TypeOK
  <2>5. ASSUME NEW c \in Calls, Fails(c) PROVE TypeOK'
    <3>1. faults' \in Nat /\ UNCHANGED <<files, lock, agent>>
      BY <2>5 DEF Fails, LaunchFails, HealthFails, TypeOK
    <3>2. CASE Retry(c)
      BY <3>1, <3>2 DEF Retry, TypeOK
    <3>3. CASE Return(c, "failed") /\ UNCHANGED cache
      BY <3>1, <3>3 DEF Return, TypeOK
    <3>4. CASE /\ cache' = [cache EXCEPT ![ProcOf[c]][agent[c]] = "dead"]
               /\ Return(c, "dead")
      BY <3>1, <3>4 DEF Return, TypeOK
    <3>5. QED BY <2>5, <3>2, <3>3, <3>4 DEF Fails, LaunchFails, HealthFails
  <2>6. ASSUME NEW p \in Procs, NEW a \in Agents, BrowserDies(p, a) PROVE TypeOK'
    BY <2>6 DEF BrowserDies, task, TypeOK
  <2>7. ASSUME NEW p \in Procs, ProcessDies(p) PROVE TypeOK'
    BY <2>7 DEF ProcessDies, Restart, TypeOK
  <2>8. ASSUME NEW p \in Procs, Shutdown(p) PROVE TypeOK'
    BY <2>8 DEF Shutdown, Restart, TypeOK
  <2>9. ASSUME NEW c \in Calls, Hangs(c) PROVE TypeOK'
    BY <2>9 DEF Hangs, TypeOK
  <2>10. CASE UNCHANGED vars
    BY <2>10 DEF vars, TypeOK
  <2>11. QED
    BY <2>1, <2>2, <2>3, <2>4, <2>5, <2>6, <2>7, <2>8, <2>9, <2>10 DEF Next, Progress
<1>3. QED BY <1>1, <1>2, PTL DEF Spec

(***************************************************************************)
(* One process.  A profile is closed, claimed or launched by one call at a *)
(* time, and only while it is not cached; the lock is the process's own    *)
(* from the claim until the close, and not before the claim.  A launch     *)
(* that hangs goes on in all of this.                                      *)
(***************************************************************************)
Engaged(c) == pc[c] \in {"closing", "claim", "launch", "hung"}
Locked(p, a) == lock[a] = p /\ a \in files[p]

OneAtATime(p) ==
    \A c \in Calls : Engaged(c) =>
        /\ cache[p][agent[c]] = "none"
        /\ \A d \in Calls : Engaged(d) /\ agent[d] = agent[c] => d = c
Held(p) ==
    /\ \A a \in Agents : cache[p][a] # "none" => Locked(p, a)
    /\ \A c \in Calls : pc[c] \in {"closing", "launch", "hung"} => Locked(p, agent[c])
OneWriter(p) ==
    \A c \in Calls : pc[c] = "claim" =>
        /\ lock[agent[c]] # p
        /\ \A d \in Calls : pc[d] = "claim" => d = c

PoolInv(p) == TypeOK /\ OneAtATime(p) /\ Held(p) /\ OneWriter(p)

\* A call that returns leaves the other calls as they are.
LEMMA ReturnKeeps ==
    ASSUME NEW p, Procs = {p}, PoolInv(p), NEW c \in Calls, NEW v, Return(c, v),
           \A d \in Calls : d # c => agent'[d] = agent[d],
           UNCHANGED <<cache, files, lock>>
    PROVE  OneAtATime(p)' /\ Held(p)' /\ OneWriter(p)'
<1>1. pc'[c] = "idle" /\ \A d \in Calls : d # c => pc'[d] = pc[d]
  BY DEF Return, PoolInv, TypeOK
<1>2. OneAtATime(p)'
  BY <1>1 DEF OneAtATime, Engaged, PoolInv
<1>3. Held(p)'
  BY <1>1 DEF Held, Locked, PoolInv
<1>4. OneWriter(p)'
  BY <1>1 DEF OneWriter, PoolInv
<1>5. QED BY <1>2, <1>3, <1>4

LEMMA GetKeeps ==
    ASSUME NEW p, Procs = {p}, PoolInv(p),
           NEW c \in Calls, NEW a \in Agents, Get(c, a)
    PROVE  OneAtATime(p)' /\ Held(p)' /\ OneWriter(p)'
<1>1. ProcOf[c] = p /\ pc[c] = "idle" /\ \A d \in Calls : pc[d] # "claim"
  BY DEF Get, LoopFree
<1>2. agent'[c] = a /\ \A d \in Calls : d # c => agent'[d] = agent[d]
  BY DEF Get, PoolInv, TypeOK
<1>3. CASE Reuse(c, a)
  BY <1>2, <1>3, ReturnKeeps DEF Reuse
<1>4. CASE Evict(c, a)
  <2>1. /\ cache[p][a] = "dead" /\ cache'[p][a] = "none"
        /\ \A b \in Agents : b # a => cache'[p][b] = cache[p][b]
        /\ UNCHANGED <<files, lock>>
    BY <1>1, <1>4 DEF Evict, PoolInv, TypeOK
  <2>2. pc'[c] = "closing" /\ \A d \in Calls : d # c => pc'[d] = pc[d]
    BY <1>4 DEF Evict, WaitAt, PoolInv, TypeOK
  <2>3. \A d \in Calls : Engaged(d) => agent[d] # a
    BY <2>1 DEF PoolInv, OneAtATime
  <2>4. \A d \in Calls : agent[d] \in Agents
    BY DEF PoolInv, TypeOK
  <2>5. OneAtATime(p)'
    BY <1>1, <1>2, <2>1, <2>2, <2>3, <2>4 DEF OneAtATime, Engaged, PoolInv
  <2>6. Held(p)'
    BY <1>2, <2>1, <2>2 DEF Held, Locked, PoolInv
  <2>7. OneWriter(p)'
    BY <1>1, <2>2 DEF OneWriter
  <2>8. QED BY <2>5, <2>6, <2>7
<1>5. CASE Enter(c, a)
  <2>1. CASE Return(c, "full") \/ Return(c, "inuse")
    BY <1>2, <1>5, <2>1, ReturnKeeps DEF Enter
  <2>2. CASE WaitAt(c, "claim") /\ lock[a] \notin Procs
    <3>1. pc'[c] = "claim" /\ \A d \in Calls : d # c => pc'[d] = pc[d]
      BY <2>2 DEF WaitAt, PoolInv, TypeOK
    <3>2. cache[p][a] = "none" /\ lock[a] # p /\ UNCHANGED <<cache, files, lock>>
      BY <1>1, <1>5, <2>2 DEF Enter
    <3>3. \A d \in Calls : Engaged(d) => agent[d] # a
      BY <1>1, <3>2 DEF PoolInv, Held, Locked, Engaged
    <3>4. OneAtATime(p)'
      BY <1>1, <1>2, <3>1, <3>2, <3>3 DEF OneAtATime, Engaged, PoolInv
    <3>5. Held(p)'
      BY <1>2, <3>1, <3>2 DEF Held, Locked, PoolInv
    <3>6. OneWriter(p)'
      BY <1>1, <1>2, <3>1, <3>2 DEF OneWriter
    <3>7. QED BY <3>4, <3>5, <3>6
  <2>3. QED BY <1>5, <2>1, <2>2, AdmitOutcome DEF Enter
<1>6. QED BY <1>3, <1>4, <1>5 DEF Get

LEMMA CloseKeeps ==
    ASSUME NEW p, Procs = {p}, PoolInv(p), NEW c \in Calls, CloseEnds(c)
    PROVE  OneAtATime(p)' /\ Held(p)' /\ OneWriter(p)'
<1> DEFINE a == agent[c]
<1>1. ProcOf[c] = p /\ pc[c] = "closing" /\ a \in Agents
      /\ \A d \in Calls : pc[d] # "claim"
  BY DEF CloseEnds, LoopFree, PoolInv, TypeOK
<1>2. /\ cache[p][a] = "none" /\ a \in files[p]
      /\ \A d \in Calls : Engaged(d) /\ agent[d] = a => d = c
  BY <1>1 DEF PoolInv, OneAtATime, Held, Locked, Engaged
<1>3. /\ Admit(c, a, "free") /\ UNCHANGED <<cache, agent>>
      /\ lock' = [lock EXCEPT ![a] = "free"]
      /\ files' = [files EXCEPT ![p] = @ \ {a}]
  BY <1>1, <1>2 DEF CloseEnds
<1>4. /\ lock'[a] # p /\ \A b \in Agents : b # a => lock'[b] = lock[b]
      /\ \A b \in Agents : b # a => (b \in files'[p] <=> b \in files[p])
  BY <1>1, <1>3 DEF PoolInv, TypeOK
<1>5. pc'[c] \in {"idle", "claim"} /\ \A d \in Calls : d # c => pc'[d] = pc[d]
  BY <1>3, AdmitOutcome DEF Return, WaitAt, PoolInv, TypeOK
<1>6. OneAtATime(p)'
  BY <1>1, <1>2, <1>3, <1>5 DEF OneAtATime, Engaged, PoolInv
<1>7. Held(p)'
  <2>1. \A b \in Agents : cache'[p][b] # "none" => b # a /\ Locked(p, b)'
    BY <1>2, <1>3, <1>4 DEF Held, Locked, PoolInv
  <2>2. ASSUME NEW d \in Calls, pc'[d] \in {"closing", "launch", "hung"}
        PROVE  Locked(p, agent[d])'
    <3>1. d # c /\ agent[d] # a /\ agent[d] \in Agents
      BY <1>2, <1>5, <2>2 DEF Engaged, PoolInv, TypeOK
    <3>2. QED BY <1>3, <1>4, <1>5, <2>2, <3>1 DEF Held, Locked, PoolInv
  <2>3. QED BY <1>3, <2>1, <2>2 DEF Held
<1>8. OneWriter(p)'
  BY <1>1, <1>3, <1>4, <1>5 DEF OneWriter
<1>9. QED BY <1>6, <1>7, <1>8

LEMMA ClaimKeeps ==
    ASSUME NEW p, Procs = {p}, PoolInv(p), NEW c \in Calls, Claim(c)
    PROVE  OneAtATime(p)' /\ Held(p)' /\ OneWriter(p)'
<1> DEFINE a == agent[c]
<1>1. /\ ProcOf[c] = p /\ pc[c] = "claim" /\ a \in Agents
      /\ pc'[c] = "launch" /\ \A d \in Calls : d # c => pc'[d] = pc[d]
      /\ UNCHANGED <<cache, agent>>
  BY DEF Claim, PoolInv, TypeOK
<1>2. /\ lock'[a] = p /\ \A b \in Agents : b # a => lock'[b] = lock[b]
      /\ a \in files'[p] /\ files[p] \subseteq files'[p]
  BY <1>1 DEF Claim, PoolInv, TypeOK
<1>3. OneAtATime(p)'
  BY <1>1 DEF OneAtATime, Engaged, PoolInv
<1>4. Held(p)'
  <2>1. \A b \in Agents : Locked(p, b) => Locked(p, b)'
    BY <1>2 DEF Locked
  <2>2. QED BY <1>1, <1>2, <2>1 DEF Held, Locked, PoolInv, TypeOK
<1>5. OneWriter(p)'
  BY <1>1 DEF OneWriter, PoolInv
<1>6. QED BY <1>3, <1>4, <1>5

\* A launch ends: c returns, and the profile is cached or not.
LEMMA LaunchEndKeeps ==
    ASSUME NEW p, Procs = {p}, PoolInv(p), NEW c \in Calls, pc[c] = "launch",
           NEW v, Return(c, v), NEW state,
           cache' = [cache EXCEPT ![ProcOf[c]][agent[c]] = state],
           UNCHANGED <<files, lock, agent>>
    PROVE  OneAtATime(p)' /\ Held(p)' /\ OneWriter(p)'
<1>1. pc'[c] = "idle" /\ \A d \in Calls : d # c => pc'[d] = pc[d]
  BY DEF Return, PoolInv, TypeOK
<1>2. /\ ProcOf[c] = p /\ Locked(p, agent[c])
      /\ \A d \in Calls : Engaged(d) /\ agent[d] = agent[c] => d = c
  BY DEF PoolInv, OneAtATime, Held, Engaged
<1>3. \A b \in Agents : b # agent[c] => cache'[p][b] = cache[p][b]
  BY <1>2 DEF PoolInv, TypeOK
<1>4. OneAtATime(p)'
  <2>1. ASSUME NEW d \in Calls, Engaged(d)'
        PROVE  d # c /\ Engaged(d) /\ cache'[p][agent[d]] = "none"
    <3>1. d # c /\ Engaged(d)
      BY <1>1, <2>1 DEF Engaged
    <3>2. agent[d] # agent[c] /\ agent[d] \in Agents
      BY <1>2, <3>1 DEF PoolInv, TypeOK
    <3>3. QED BY <1>3, <3>1, <3>2 DEF OneAtATime, PoolInv
  <2>2. QED BY <2>1 DEF OneAtATime, PoolInv
<1>5. Held(p)'
  BY <1>1, <1>2, <1>3 DEF Held, Locked, PoolInv
<1>6. OneWriter(p)'
  BY <1>1 DEF OneWriter, PoolInv
<1>7. QED BY <1>4, <1>5, <1>6

LEMMA FailsKeeps ==
    ASSUME NEW p, Procs = {p}, PoolInv(p), NEW c \in Calls, Fails(c)
    PROVE  OneAtATime(p)' /\ Held(p)' /\ OneWriter(p)'
<1>1. pc[c] = "launch" /\ UNCHANGED <<files, lock, agent>>
  BY DEF Fails, LaunchFails, HealthFails
<1>2. CASE Retry(c)
  BY <1>1, <1>2 DEF Retry, PoolInv, OneAtATime, Held, OneWriter, Engaged, Locked
<1>3. CASE Return(c, "failed") /\ UNCHANGED cache
  BY <1>1, <1>3, ReturnKeeps
<1>4. CASE /\ cache' = [cache EXCEPT ![ProcOf[c]][agent[c]] = "dead"]
           /\ Return(c, "dead")
  BY <1>1, <1>4, LaunchEndKeeps
<1>5. QED BY <1>2, <1>3, <1>4 DEF Fails, LaunchFails, HealthFails

\* A launch that hangs keeps what it has.
LEMMA HangsKeeps ==
    ASSUME NEW p, Procs = {p}, PoolInv(p), NEW c \in Calls, Hangs(c)
    PROVE  OneAtATime(p)' /\ Held(p)' /\ OneWriter(p)'
<1>1. /\ pc[c] = "launch" /\ pc'[c] = "hung" /\ \A d \in Calls : d # c => pc'[d] = pc[d]
      /\ UNCHANGED <<cache, files, lock, agent>>
  BY DEF Hangs, PoolInv, TypeOK
<1>2. OneAtATime(p)'
  BY <1>1 DEF OneAtATime, Engaged, PoolInv
<1>3. Held(p)' /\ OneWriter(p)'
  BY <1>1 DEF Held, Locked, OneWriter, PoolInv
<1>4. QED BY <1>2, <1>3

\* A new process: no call is engaged, nothing is cached.
LEMMA RestartKeeps ==
    ASSUME NEW p, Procs = {p}, PoolInv(p), Restart(p)
    PROVE  OneAtATime(p)' /\ Held(p)' /\ OneWriter(p)'
<1>1. \A c \in Calls : pc'[c] = "idle"
  BY DEF Restart
<1>2. \A a \in Agents : cache'[p][a] = "none"
  BY DEF Restart, PoolInv, TypeOK
<1>3. QED BY <1>1, <1>2 DEF OneAtATime, Held, OneWriter, Engaged

LEMMA PoolStep ==
    ASSUME NEW p, Procs = {p}, PoolInv(p), TypeOK', [Next]_vars
    PROVE  PoolInv(p)'
<1>1. ASSUME NEW c \in Calls, NEW a \in Agents, Get(c, a) PROVE PoolInv(p)'
  BY <1>1, GetKeeps DEF PoolInv
<1>2. ASSUME NEW c \in Calls, CloseEnds(c) PROVE PoolInv(p)'
  BY <1>2, CloseKeeps DEF PoolInv
<1>3. ASSUME NEW c \in Calls, Claim(c) PROVE PoolInv(p)'
  BY <1>3, ClaimKeeps DEF PoolInv
<1>4. ASSUME NEW c \in Calls, Launched(c) PROVE PoolInv(p)'
  BY <1>4, LaunchEndKeeps DEF Launched, PoolInv
<1>5. ASSUME NEW c \in Calls, Fails(c) PROVE PoolInv(p)'
  BY <1>5, FailsKeeps DEF PoolInv
<1>6. ASSUME NEW q \in Procs, NEW a \in Agents, BrowserDies(q, a) PROVE PoolInv(p)'
  <2>1. /\ q = p /\ cache[p][a] = "open" /\ cache'[p][a] = "dead"
        /\ \A b \in Agents : b # a => cache'[p][b] = cache[p][b]
        /\ UNCHANGED <<files, lock, pc, agent>>
    BY <1>6 DEF BrowserDies, task, PoolInv, TypeOK
  <2>2. \A c \in Calls : agent[c] \in Agents
    BY DEF PoolInv, TypeOK
  <2>3. OneAtATime(p)'
    BY <2>1, <2>2 DEF OneAtATime, Engaged, PoolInv
  <2>4. Held(p)' /\ OneWriter(p)'
    BY <2>1 DEF Held, Locked, OneWriter, PoolInv
  <2>5. QED BY <2>3, <2>4 DEF PoolInv
<1>7. ASSUME NEW q \in Procs, ProcessDies(q) \/ Shutdown(q) PROVE PoolInv(p)'
  <2>1. q = p /\ Restart(p)
    BY <1>7 DEF ProcessDies, Shutdown
  <2>2. QED BY <2>1, RestartKeeps DEF PoolInv
<1>8. ASSUME NEW c \in Calls, Hangs(c) PROVE PoolInv(p)'
  BY <1>8, HangsKeeps DEF PoolInv
<1>9. CASE UNCHANGED vars
  BY <1>9 DEF vars, PoolInv, OneAtATime, Held, OneWriter, Engaged, Locked
<1>10. QED
  BY <1>1, <1>2, <1>3, <1>4, <1>5, <1>6, <1>7, <1>8, <1>9 DEF Next, Progress

LEMMA PoolInvariant ==
    ASSUME NEW p, Procs = {p}
    PROVE  Spec => []PoolInv(p)
<1>1. Init => PoolInv(p)
  BY DEF Init, PoolInv, TypeOK, OneAtATime, Held, OneWriter, Engaged
<1>2. PoolInv(p) /\ TypeOK' /\ [Next]_vars => PoolInv(p)'
  BY PoolStep
<1>3. QED BY <1>1, <1>2, PoolTypeCorrect, PTL DEF Spec

\* One process never launches a profile twice at once, nor one it has cached.
THEOREM NoDoubleLaunch ==
    ASSUME NEW p, Procs = {p}
    PROVE  Spec => []LaunchesOnce
<1>1. PoolInv(p) => LaunchesOnce
  BY DEF PoolInv, OneAtATime, Engaged, LaunchesOnce, Launching
<1>2. QED BY <1>1, PoolInvariant, PTL

\* One process holds the lock of every profile it has open or is opening.
THEOREM ProfileInUseIsLocked ==
    ASSUME NEW p, Procs = {p}
    PROVE  Spec => []UseIsLocked
<1>1. PoolInv(p) => UseIsLocked
  BY DEF PoolInv, Held, Locked, UseIsLocked
<1>2. QED BY <1>1, PoolInvariant, PTL

(***************************************************************************)
(* Any number of processes.  A call claims only while fewer than           *)
(* max_instances are cached, so just after that even all callers at the    *)
(* claim or the launch stay one below the two limits together; every other *)
(* step turns a launch into at most one instance, or drops either.         *)
(***************************************************************************)
Callers(p) == {c \in Calls : ProcOf[c] = p}
Bounded(p) ==
    Callers(p) # {} /\ MaxInstances > 0 =>
        Cardinality(Cached(p)) + Cardinality(Launching(p))
            <= MaxInstances + Cardinality(Callers(p)) - 1
CountsInv ==
    /\ TypeOK
    /\ \A p \in Procs : IsFiniteSet(Cached(p)) /\ Bounded(p)

LEMMA LaunchingCount ==
    ASSUME NEW p
    PROVE  /\ IsFiniteSet(Callers(p)) /\ Cardinality(Callers(p)) \in Nat
           /\ Callers(p) # {} => Cardinality(Callers(p)) > 0
           /\ IsFiniteSet(Launching(p)) /\ Cardinality(Launching(p)) \in Nat
           /\ Cardinality(Launching(p)) <= Cardinality(Callers(p))
<1>1. Callers(p) \subseteq Calls /\ Launching(p) \subseteq Callers(p)
  BY DEF Callers, Launching
<1>2. IsFiniteSet(Callers(p)) /\ Cardinality(Callers(p)) \in Nat
  BY <1>1, FS_Subset, FS_CardinalityType
<1>3. IsFiniteSet(Launching(p)) /\ Cardinality(Launching(p)) \in Nat
      /\ Cardinality(Launching(p)) <= Cardinality(Callers(p))
  BY <1>1, <1>2, FS_Subset, FS_CardinalityType
<1>4. Callers(p) # {} => Cardinality(Callers(p)) > 0
  BY <1>2, FS_EmptySet
<1>5. QED BY <1>2, <1>3, <1>4

\* Where neither set gains a member, the bound stays.
LEMMA FewerStayBounded ==
    ASSUME NEW p, IsFiniteSet(Cached(p)), Bounded(p),
           Cached(p)' \subseteq Cached(p), Launching(p)' \subseteq Launching(p)
    PROVE  IsFiniteSet(Cached(p))' /\ Bounded(p)'
<1>1. IsFiniteSet(Cached(p)') /\ Cardinality(Cached(p)') \in Nat
      /\ Cardinality(Cached(p)) \in Nat
      /\ Cardinality(Cached(p)') <= Cardinality(Cached(p))
  BY FS_Subset, FS_CardinalityType
<1>2. Cardinality(Launching(p)') \in Nat /\ Cardinality(Launching(p)) \in Nat
      /\ Cardinality(Launching(p)') <= Cardinality(Launching(p))
  BY LaunchingCount, FS_Subset, FS_CardinalityType
<1>3. Callers(p)' = Callers(p) /\ Cardinality(Callers(p)) \in Nat
  BY LaunchingCount DEF Callers
<1>4. QED BY <1>1, <1>2, <1>3 DEF Bounded

\* A call that passes the checks leaves room for every caller of its process.
LEMMA AdmitBounded ==
    ASSUME CountsInv, NEW c \in Calls, NEW a, NEW held, Admit(c, a, held),
           UNCHANGED cache, NEW p \in Procs
    PROVE  IsFiniteSet(Cached(p))' /\ Bounded(p)'
<1>1. Cached(p)' = Cached(p) /\ IsFiniteSet(Cached(p)) /\ Bounded(p)
  BY DEF Cached, CountsInv
<1>2. CASE \E v : Return(c, v)
  <2>1. Launching(p)' \subseteq Launching(p)
    BY <1>2 DEF Return, Launching, CountsInv, TypeOK
  <2>2. QED BY <1>1, <2>1, FewerStayBounded
<1>3. CASE WaitAt(c, "claim") /\ ProcOf[c] # p
  <2>1. Launching(p)' \subseteq Launching(p)
    BY <1>3 DEF WaitAt, Launching, CountsInv, TypeOK
  <2>2. QED BY <1>1, <2>1, FewerStayBounded
<1>4. CASE ~(Cardinality(Cached(p)) >= MaxInstances)
  <2>1. Cardinality(Cached(p)') \in Nat /\ Cardinality(Cached(p)') < MaxInstances
    BY <1>1, <1>4, FS_CardinalityType
  <2>2. Launching(p)' \subseteq Callers(p) /\ Callers(p)' = Callers(p)
    BY DEF Launching, Callers
  <2>3. Cardinality(Launching(p)') \in Nat
        /\ Cardinality(Launching(p)') <= Cardinality(Callers(p))
        /\ Cardinality(Callers(p)) \in Nat
    BY <2>2, LaunchingCount, FS_Subset, FS_CardinalityType
  <2>4. QED BY <1>1, <2>1, <2>2, <2>3 DEF Bounded
<1>5. QED
  BY <1>2, <1>3, <1>4 DEF Admit

\* A launch that ends in the cache is one launch less.
LEMMA LaunchEndBounded ==
    ASSUME CountsInv, NEW c \in Calls, pc[c] = "launch", NEW v, Return(c, v),
           NEW state,
           cache' = [cache EXCEPT ![ProcOf[c]][agent[c]] = state],
           NEW p \in Procs
    PROVE  IsFiniteSet(Cached(p))' /\ Bounded(p)'
<1>1. IsFiniteSet(Cached(p)) /\ Bounded(p) /\ Cardinality(Cached(p)) \in Nat
  BY FS_CardinalityType DEF CountsInv
<1>2. Launching(p)' = Launching(p) \ {c}
  BY DEF Return, Launching, CountsInv, TypeOK
<1>3. CASE ProcOf[c] # p
  <2>1. Cached(p)' \subseteq Cached(p)
    BY <1>3 DEF Cached, CountsInv, TypeOK
  <2>2. QED BY <1>1, <1>2, <2>1, FewerStayBounded
<1>4. CASE ProcOf[c] = p
  <2> DEFINE more == Cached(p) \cup {agent[c]}
  <2>1. Cached(p)' \subseteq more
    BY <1>4 DEF Cached, CountsInv, TypeOK
  <2>2. IsFiniteSet(more) /\ Cardinality(more) <= Cardinality(Cached(p)) + 1
        /\ Cardinality(more) \in Nat
    <3>1. IsFiniteSet(more) /\ Cardinality(more) =
            IF agent[c] \in Cached(p) THEN Cardinality(Cached(p))
            ELSE Cardinality(Cached(p)) + 1
      BY <1>1, FS_AddElement
    <3>2. QED BY <1>1, <3>1
  <2>3. IsFiniteSet(Cached(p)') /\ Cardinality(Cached(p)') \in Nat
        /\ Cardinality(Cached(p)') <= Cardinality(Cached(p)) + 1
    BY <1>1, <2>1, <2>2, FS_Subset, FS_CardinalityType
  <2>4. c \in Launching(p)
    BY <1>4 DEF Launching
  <2>5. Cardinality(Launching(p)') = Cardinality(Launching(p)) - 1
        /\ Cardinality(Launching(p)) \in Nat
    BY <1>2, <2>4, LaunchingCount, FS_RemoveElement
  <2>6. Callers(p)' = Callers(p) /\ Cardinality(Callers(p)) \in Nat
    BY LaunchingCount DEF Callers
  <2>7. QED BY <1>1, <2>3, <2>5, <2>6 DEF Bounded
<1>5. QED BY <1>3, <1>4

LEMMA CountsStep ==
    ASSUME CountsInv, TypeOK', [Next]_vars
    PROVE  CountsInv'
<1> SUFFICES ASSUME NEW p \in Procs
             PROVE  IsFiniteSet(Cached(p))' /\ Bounded(p)'
  BY DEF CountsInv
<1>0. TypeOK /\ IsFiniteSet(Cached(p)) /\ Bounded(p)
  BY DEF CountsInv
<1>1. ASSUME NEW c \in Calls, NEW a \in Agents, Get(c, a)
      PROVE  IsFiniteSet(Cached(p))' /\ Bounded(p)'
  <2>1. CASE Reuse(c, a)
    <3>1. Cached(p)' \subseteq Cached(p) /\ Launching(p)' \subseteq Launching(p)
      BY <1>0, <2>1 DEF Reuse, Return, Cached, Launching, TypeOK
    <3>2. QED BY <1>0, <3>1, FewerStayBounded
  <2>2. CASE Evict(c, a)
    <3>1. Cached(p)' \subseteq Cached(p) /\ Launching(p)' \subseteq Launching(p)
      BY <1>0, <2>2 DEF Evict, WaitAt, Cached, Launching, TypeOK
    <3>2. QED BY <1>0, <3>1, FewerStayBounded
  <2>3. CASE Enter(c, a)
    BY <2>3, AdmitBounded DEF Enter
  <2>4. QED BY <1>1, <2>1, <2>2, <2>3 DEF Get
<1>2. ASSUME NEW c \in Calls, CloseEnds(c)
      PROVE  IsFiniteSet(Cached(p))' /\ Bounded(p)'
  BY <1>2, AdmitBounded DEF CloseEnds
<1>3. ASSUME NEW c \in Calls, Claim(c)
      PROVE  IsFiniteSet(Cached(p))' /\ Bounded(p)'
  <2>1. Cached(p)' \subseteq Cached(p) /\ Launching(p)' \subseteq Launching(p)
    BY <1>0, <1>3 DEF Claim, Cached, Launching, TypeOK
  <2>2. QED BY <1>0, <2>1, FewerStayBounded
<1>4. ASSUME NEW c \in Calls, Launched(c)
      PROVE  IsFiniteSet(Cached(p))' /\ Bounded(p)'
  BY <1>4, LaunchEndBounded DEF Launched
<1>5. ASSUME NEW c \in Calls, Fails(c)
      PROVE  IsFiniteSet(Cached(p))' /\ Bounded(p)'
  <2>1. CASE UNCHANGED cache /\ (Retry(c) \/ Return(c, "failed"))
    <3>1. Cached(p)' \subseteq Cached(p) /\ Launching(p)' \subseteq Launching(p)
      BY <1>0, <2>1 DEF Retry, Return, Cached, Launching, TypeOK
    <3>2. QED BY <1>0, <3>1, FewerStayBounded
  <2>2. CASE /\ cache' = [cache EXCEPT ![ProcOf[c]][agent[c]] = "dead"]
             /\ Return(c, "dead")
    BY <1>5, <2>2, LaunchEndBounded DEF Fails
  <2>3. QED BY <1>5, <2>1, <2>2 DEF Fails, LaunchFails, HealthFails, Retry
<1>6. ASSUME NEW q \in Procs, NEW a \in Agents, BrowserDies(q, a)
      PROVE  IsFiniteSet(Cached(p))' /\ Bounded(p)'
  <2>1. Cached(p)' \subseteq Cached(p) /\ Launching(p)' \subseteq Launching(p)
    BY <1>0, <1>6 DEF BrowserDies, task, Cached, Launching, TypeOK
  <2>2. QED BY <1>0, <2>1, FewerStayBounded
<1>7. ASSUME NEW q \in Procs, ProcessDies(q) \/ Shutdown(q)
      PROVE  IsFiniteSet(Cached(p))' /\ Bounded(p)'
  <2>1. Restart(q)
    BY <1>7 DEF ProcessDies, Shutdown
  <2>2. Cached(p)' \subseteq Cached(p) /\ Launching(p)' \subseteq Launching(p)
    BY <1>0, <2>1 DEF Restart, Cached, Launching, TypeOK
  <2>3. QED BY <1>0, <2>2, FewerStayBounded
<1>8. ASSUME NEW c \in Calls, Hangs(c)
      PROVE  IsFiniteSet(Cached(p))' /\ Bounded(p)'
  <2>1. Cached(p)' \subseteq Cached(p) /\ Launching(p)' \subseteq Launching(p)
    BY <1>0, <1>8 DEF Hangs, Cached, Launching, TypeOK
  <2>2. QED BY <1>0, <2>1, FewerStayBounded
<1>9. CASE UNCHANGED vars
  <2>1. Cached(p)' \subseteq Cached(p) /\ Launching(p)' \subseteq Launching(p)
    BY <1>9 DEF vars, Cached, Launching
  <2>2. QED BY <1>0, <2>1, FewerStayBounded
<1>10. QED
  BY <1>1, <1>2, <1>3, <1>4, <1>5, <1>6, <1>7, <1>8, <1>9 DEF Next, Progress

\* Whatever the number of processes, calls and agents, a pool exceeds
\* max_instances by no more than the calls that were in flight together.
THEOREM LimitNearlyHolds == Spec => []OvershootBounded
<1>1. Init => CountsInv
  <2> SUFFICES ASSUME Init, NEW p \in Procs
               PROVE  IsFiniteSet(Cached(p)) /\ Bounded(p)
    BY DEF CountsInv, Init, TypeOK
  <2>1. Cached(p) = {} /\ Launching(p) = {}
    BY DEF Init, Cached, Launching
  <2>2. IsFiniteSet(Cached(p)) /\ Cardinality(Cached(p)) = 0
        /\ Cardinality(Launching(p)) = 0
    BY <2>1, FS_EmptySet
  <2>3. QED BY <2>2, LaunchingCount DEF Bounded
<1>2. CountsInv /\ TypeOK' /\ [Next]_vars => CountsInv'
  BY CountsStep
<1>3. CountsInv => OvershootBounded
  BY DEF CountsInv, Bounded, Callers, OvershootBounded
<1>4. QED BY <1>1, <1>2, <1>3, PoolTypeCorrect, PTL DEF Spec
=============================================================================
