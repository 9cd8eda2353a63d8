SPECIFICATION Spec
CONSTANTS
    c1 = c1
    c2 = c2
    a1 = a1
    a2 = a2
    NoApp = NoApp
    Clients = {c1, c2}
    Apps = {a1, a2}
    PatchTargets = {"withdrawn"}
SYMMETRY Symmetry
INVARIANTS
    OneAssembly
    PackageCoherent
    DecidedIsReleased
PROPERTY
    NoWayBack
CHECK_DEADLOCK FALSE
