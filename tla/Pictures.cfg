CONSTANTS
    e1 = e1
    e2 = e2
    Employees = {e1, e2}
    Nobody = Nobody
    Screens = {s1, s2}
    Lower <- LowerTwo
    MaxQueue = 2

SYMMETRY Symmetry
SPECIFICATION Spec
INVARIANT OwnPicture
INVARIANT LinkedFileExists
