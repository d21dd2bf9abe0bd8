SPECIFICATION Spec
CONSTANTS
    o1 = o1
    o2 = o2
    o3 = o3
    Owner = {o1, o2, o3}
    Top = 2
    Cmd = {"SETLK64"}
    Mode = {"RDONLY", "RDWR"}
INVARIANTS
    TypeOK
    NoConflict
    Canonical
    GetlkRoundTrip

    
SYMMETRY MCSymmetry
