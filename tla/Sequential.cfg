CONSTANTS
    d1 = d1
    s1 = s1
    s2 = s2
    Devices = {d1}
    Slots = {s1}
    Owner <- OneSlot
    HalfDay = 1
    MaxDay = 1
    MaxQueue = 2
    Hasty = TRUE
    ReadsMayFail = TRUE
SPECIFICATION CareSpec
INVARIANT CheckInOfItsDay
 
 
 
 
PROPERTY SubmitEnds
