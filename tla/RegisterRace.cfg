CONSTANTS
    p1 = p1
    p2 = p2
    t1 = t1
    t2 = t2
    Ids = {"e1", "e2"}
    Phones = {p1, p2}
    Taps = {t1, t2}
    Phone <- TwoPhones
    MaxDocs = 3

SPECIFICATION DirectorySpec
INVARIANT UniqueIds
