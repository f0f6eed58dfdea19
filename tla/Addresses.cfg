CONSTANTS
    Homes = {s1}
    Slides = {c1}
    NoAddress = NoAddress
    MaxPlace = 2
SPECIFICATION MCSpec
 
INVARIANT OnePlace
PROPERTY Located
