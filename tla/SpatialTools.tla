---------------------------- MODULE SpatialTools ----------------------------
(***************************************************************************)
(* spatial/tools.py: browse_to, interact and extract_page_state of agents  *)
(* with one persistent page each.  Every await is a place where another    *)
(* call of the same agent, a script of the page or a new browser may move  *)
(* the page: get_browser, goto, content, click.  What get_browser does is  *)
(* module BrowserPool's; here it returns or it does not.                   *)
(*                                                                         *)
(* Abstracted: the actions of interact act on the element "#id" selects or *)
(* fail; extract_mode and mode are read and not used by the code.          *)
(***************************************************************************)
EXTENDS Spatial, Sdom

CONSTANTS
    AgentOf,    \* the agent that makes a call
    Urls,
    Docs, Elements,   \* documents, and the elements of each (a page of module Sdom)
    Site,       \* Site[u]: the documents the page at u may hold
    Lands,      \* Lands[u]: where goto(u) ends, redirects followed
    Blank,      \* about:blank and its document, without elements
    None

ASSUME SpatialAssumption ==
    /\ AgentOf \in [Calls -> Agents] /\ Agents \cap Calls = {} /\ None \notin Calls
    /\ Lands \in [Urls -> Urls] /\ {Blank, None} \cap Urls = {}
    /\ Blank \in Docs /\ Elements \in [Docs -> Seq(PageElement)] /\ Elements[Blank] = <<>>
    /\ Site \in [Urls -> SUBSET Docs]

VARIABLES
    page,       \* each agent's live page: its url and document
    seen,       \* the SDOM each agent last got, with the document it was made of
    stage, tool,   \* where each call is, and what it is
    target,     \* the url of a browse_to, the entry of an interact
    shot,       \* the content a call has got from the browser
    result,     \* the SDOM it answered: the url asked for, its label, its page's url;
                \* None for errors and for interact
    crossed,    \* (history) others changed the page's url since it was loaded
    current,    \* (history) agents and calls whose page is still the one they saw
    hit         \* (history) what an interact selected

view == <<page, seen>>
call == <<stage, tool, target>>
toolsVars == <<view, call, shot, result, crossed, current, hit>>

BlankPage == [url |-> Blank, doc |-> Blank]
ToSdom(d) == [doc |-> d, interactive |-> Interactive(Elements[d]), fields |-> Fields(Elements[d])]
ToolsInit ==
    /\ page = [a \in Agents |-> BlankPage] /\ seen = [a \in Agents |-> ToSdom(Blank)]
    /\ stage = [c \in Calls |-> "idle"] /\ tool = [c \in Calls |-> None]
    /\ target = [c \in Calls |-> None] /\ shot = [c \in Calls |-> BlankPage]
    /\ result = [c \in Calls |-> None] /\ crossed = [c \in Calls |-> FALSE]
    /\ current = {} /\ hit = [c \in Calls |-> None]

Goto(c, place) == stage' = [stage EXCEPT ![c] = place] /\ UNCHANGED <<tool, target>>
Answer(c, value) ==
    /\ stage' = [stage EXCEPT ![c] = "idle"] /\ target' = [target EXCEPT ![c] = None]
    /\ tool' = [tool EXCEPT ![c] = None] /\ result' = [result EXCEPT ![c] = value]
Error(c) == Answer(c, None)
\* The page of a becomes p: by call c, or by itself (c = None).
Moves(a, p, c) ==
    /\ page' = [page EXCEPT ![a] = p] /\ UNCHANGED seen
    /\ current' = IF p = page[a] THEN current ELSE current \ ({a} \cup {d \in Calls : AgentOf[d] = a})
    /\ crossed' = [d \in Calls |-> \/ crossed[d]
                                   \/ /\ d # c /\ AgentOf[d] = a /\ stage[d] \in {"loaded", "captured"}
                                      /\ p.url # page[a].url]
PagesAt(u) == [url : {u}, doc : Site[u]]

Start(c, name, what) ==
    /\ stage[c] = "idle" /\ stage' = [stage EXCEPT ![c] = "browser"]
    /\ tool' = [tool EXCEPT ![c] = name] /\ target' = [target EXCEPT ![c] = what]
    /\ result' = [result EXCEPT ![c] = None] /\ crossed' = [crossed EXCEPT ![c] = FALSE] /\ hit' = [hit EXCEPT ![c] = None]
    /\ current' = (IF name = "interact" /\ AgentOf[c] \in current THEN current \cup {c} ELSE current \ {c})
    /\ UNCHANGED <<view, shot>>
BrowseTo(c) == \E u \in Urls : Start(c, "browse_to", u)
Extract(c) == Start(c, "extract_page_state", None)
Interact(c) == \E e \in ToSet(seen[AgentOf[c]].interactive) : Start(c, "interact", e)
GotBrowser(c) ==
    /\ stage[c] = "browser" /\ UNCHANGED <<view, shot, crossed, current, hit>>
    /\ \/ Goto(c, "command") /\ UNCHANGED result
       \/ Error(c)
Navigate(c) ==           \* page.goto; it may fail before or after the page is another
    /\ stage[c] = "command" /\ tool[c] = "browse_to" /\ UNCHANGED <<shot, hit>>
    /\ \/ \E p \in PagesAt(Lands[target[c]]) : /\ Moves(AgentOf[c], p, c)
                                               /\ \/ Goto(c, "loaded") /\ UNCHANGED result
                                                  \/ Error(c)
       \/ Moves(AgentOf[c], page[AgentOf[c]], c) /\ Error(c)
CaptureEarly(c) ==       \* a mutant: content() does not wait for goto()
    /\ stage[c] = "command" /\ tool[c] # "interact"
    /\ shot' = [shot EXCEPT ![c] = page[AgentOf[c]]] /\ current' = current \cup {c}
    /\ Goto(c, "captured") /\ UNCHANGED <<view, result, crossed, hit>>
Capture(c) ==            \* page.content()
    /\ \/ stage[c] = "loaded"
       \/ stage[c] = "command" /\ tool[c] = "extract_page_state"
    /\ shot' = [shot EXCEPT ![c] = page[AgentOf[c]]] /\ current' = current \cup {c}
    /\ Goto(c, "captured") /\ UNCHANGED <<view, result, crossed, hit>>
Serialize(c) ==          \* extract_page_state asks page.url after the await
    LET a == AgentOf[c] IN
    /\ stage[c] = "captured" /\ seen' = [seen EXCEPT ![a] = ToSdom(shot[c].doc)]
    /\ current' = (IF c \in current THEN current \cup {a} ELSE current \ {a})
    /\ Answer(c, [asked |-> target[c], url |-> shot[c].url,
                   label |-> IF tool[c] = "browse_to" THEN target[c] ELSE page[a].url])
    /\ shot' = [shot EXCEPT ![c] = BlankPage] /\ UNCHANGED <<page, crossed, hit>>
Perform(c) ==            \* page.click and the like; what it does may move the page
    LET a == AgentOf[c]
        d == Elements[page[a].doc]
        found == Locate(d, target[c].id)
        named == {i \in DOMAIN d : Name(d, i) = target[c].id} IN
    /\ stage[c] = "command" /\ tool[c] = "interact" /\ UNCHANGED shot
    /\ hit' = [hit EXCEPT ![c] = [listed |-> target[c].element, id |-> target[c].id, found |-> found, named |-> named,
                                 real |-> named = {i \in DOMAIN d : d[i].id = target[c].id}, same |-> c \in current]]
    /\ \/ found = 0 /\ Error(c) /\ Moves(a, page[a], c)
       \/ found # 0 /\ Answer(c, None) /\ \E p \in {page[a]} \cup UNION {PagesAt(Lands[u]) : u \in Urls} : Moves(a, p, c)
PageChanges(a) ==        \* a script of the page
    /\ page[a].url # Blank /\ \E p \in PagesAt(page[a].url) \ {page[a]} : Moves(a, p, None)
    /\ UNCHANGED <<call, shot, result, hit>>
NewBrowser(a) ==         \* the pool replaced a dead browser
    /\ page[a] # BlankPage /\ Moves(a, BlankPage, None) /\ UNCHANGED <<call, shot, result, hit>>

Begin(c) == BrowseTo(c) \/ Extract(c) \/ Interact(c)
Step(c) == GotBrowser(c) \/ Navigate(c) \/ Capture(c) \/ Serialize(c) \/ Perform(c)
ToolsNext == \/ \E c \in Calls : Begin(c) \/ Step(c)
        \/ \E a \in Agents : PageChanges(a) \/ NewBrowser(a)
ToolsSpec == ToolsInit /\ [][ToolsNext]_toolsVars

-----------------------------------------------------------------------------
(* The url an SDOM is labelled with is that of the page it shows, unless   *)
(* goto was redirected (browse_to keeps the url it was asked for) or       *)
(* something else moved the page between the awaits (tools.py:140-144,     *)
(* 220).                                                                   *)
LabelsAreTrue ==
    \A c \in Calls : result[c] # None => LET sdom == result[c] IN
        \/ sdom.label = sdom.url \/ crossed[c]
        \/ sdom.asked # None /\ Lands[sdom.asked] # sdom.asked

(* On a page that has not changed since the agent saw it, an id that names *)
(* one element and is a CSS identifier reaches that element if the id is   *)
(* the element's own, and none if it is synthetic: interact never acts on  *)
(* another element.  With other ids it may: tools.py:172-194 put the id    *)
(* into the selector as it is.                                             *)
NeverActsOnAnother ==
    \A c \in Calls : hit[c] # None => LET h == hit[c] IN
        h.same /\ Cardinality(h.named) = 1 /\ IsIdentifier(h.id) => h.found = (IF h.real THEN h.listed ELSE 0)

(* Two entries of an SDOM have one id only if they are one element, or the *)
(* page itself gives another element that id (serializer.py:305-308).      *)
IdsTellApart ==
    \A a \in Agents : LET list == seen[a].interactive IN
        \A j, k \in DOMAIN list : list[j].id = list[k].id =>
            list[j].element = list[k].element \/ \E e \in ToSet(Elements[seen[a].doc]) : e.id = list[j].id

(* A form names every field of it that is listed, and beyond those only    *)
(* fields that are hidden with an id of their own, or whose place in the   *)
(* list is past the cap.                                                   *)
FormsNameTheirFields ==
    \A a \in Agents :
        LET doc == Elements[seen[a].doc]
            listed == {e.id : e \in {x \in ToSet(seen[a].interactive) : x.element \in InForm(doc)}} IN
        /\ listed \subseteq seen[a].fields
        /\ \A f \in seen[a].fields \ listed :
               \E i \in InForm(doc) : Name(doc, i) = f /\ (doc[i].hidden \/ Position(doc, i) > Cap)
=============================================================================
