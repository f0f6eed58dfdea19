CONSTANTS
    Employees = {e1}
    Nobody = Nobody
    Screens = {s1}
    Texts = {"a", "b"}
    MaxQueue = 2
    ReadsMayFail = FALSE

SPECIFICATION Spec
PROPERTY EditedOnce
