SPECIFICATION Spec
CONSTANTS
    Worker = 1
    Calls = {"current", "givenup"}
    Keys = {k1, k2, k3, k4}
SYMMETRY KeySymmetry
INVARIANTS
    TypeOK
    GrantedKeyOpens
    NoPanic
    PreparedStopsBlinking
