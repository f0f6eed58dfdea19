CONSTANTS
    Employees = {e1, e2}
    Nobody = Nobody
    Screens = {s1}
    Texts = {"a"}
    MaxQueue = 1
    ReadsMayFail = TRUE
SPECIFICATION CareSpec
INVARIANT OwnProfile
INVARIANT ShownIsOwn
 
PROPERTY EditedWithCare
 
 
