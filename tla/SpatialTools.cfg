\* Two calls of one agent, a redirected url, three documents, lists cut at four, two ids that are no CSS identifiers.
CONSTANTS
    Calls = {c1, c2}
    Agents = {a1}
    AgentOf <- MCAgentOf
    Urls = {u1, u2, u3}
    Docs = {Blank, signUp, toggles, lookAlike}
    signUp = signUp
    toggles = toggles
    lookAlike = lookAlike
    Elements <- MCElements
    Site <- MCSite
    Lands <- Redirected
    Blank = Blank
    None = None
    NoId = NoId
    Ids <- MCIds
    Traits = {name}
    name = name
    Compound <- MCCompound
    Cap = 4
    a1 = a1
    u1 = u1
    u2 = u2
SPECIFICATION ToolsSpec
INVARIANTS LabelsAreTrue NeverActsOnAnother IdsTellApart FormsNameTheirFields
