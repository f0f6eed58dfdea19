CONSTANTS
    Employees = {e1, e2}
    Nobody = Nobody
    Screens = {s1}
    Offices = {o1, o2}
    NoOffice = NoOffice
    Taps = {t1}
    MaxDepth = 3
    MaxUnsaved = 3
SPECIFICATION MCSpec
 
INVARIANT ProvedOnly
INVARIANT MixedNeedsTwo
INVARIANT MemoryAgrees
INVARIANT CentreIsAnOffice
 
PROPERTY IdKnown
PROPERTY LoginOpensOffices
PROPERTY LoadingEnds
