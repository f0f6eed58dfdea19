CONSTANTS
    Employees = {e1, e2}
    Nobody = Nobody
    Screens = {s1}
    Year = 2
    MaxTime = 3
SPECIFICATION FairSpec
INVARIANT OwnRecords
 
PROPERTY RecordsAppear
