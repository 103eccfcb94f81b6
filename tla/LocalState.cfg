CONSTANTS
    Commands = {c1, c2, c3}
    Others = {old, other}
    Old = old
    Absent = Absent
    Torn = Torn
    Blank = Blank
    NoKey = NoKey
    Nobody = Nobody
SPECIFICATION Spec
SYMMETRY Symmetry
CHECK_DEADLOCK FALSE
INVARIANTS
    TypeOK
    OneIdentity
    NoMixture
    
