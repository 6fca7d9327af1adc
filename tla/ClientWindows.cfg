SPECIFICATION Spec
CONSTANTS
    People = {p1, p2}
    Rooms = {r1}
    Admins = {p1}
    You = You
    None = None
    Lists <- SomeLists
    Histories <- OneHistory
    Searches <- SomeSearches
    Anything <- Everything
    MaxCalls = 2
    p1 = p1
    p2 = p2
    r1 = r1
    b1 = b1
    b2 = b2
INVARIANTS
    PanelIsTarget
    RowsLead
    
    AsksAsMeant
