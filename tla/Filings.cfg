CONSTANTS
    Employees = {e1, e2}
    Nobody = Nobody
    Screens = {s1, s2}

SYMMETRY Symmetry
SPECIFICATION Spec
INVARIANT OneEmployee
