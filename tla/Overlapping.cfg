CONSTANTS
    d1 = d1
    s1 = s1
    s2 = s2
    Devices = {d1}
    Slots = {s1, s2}
    Owner <- Overlapping
    HalfDay = 1
    MaxDay = 1
    MaxQueue = 2
    Hasty = TRUE
    ReadsMayFail = TRUE

SPECIFICATION Spec
INVARIANT RecordsPosted
 
INVARIANT OutAfterIn
INVARIANT OutNeedsIn
INVARIANT CheckedInIsReal
 
PROPERTY RecordsRefined
SYMMETRY SwapSlots
