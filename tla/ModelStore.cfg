SPECIFICATION Spec
CONSTANTS
    c1 = c1
    c2 = c2
    Clients = {c1, c2}
    MaxEnrolments = 3
    Cleanups = {"remove", "rename", "clear"}
    FirstFiles <- MCFirstFiles
    FirstLegacies <- MCFirstLegacies
INVARIANTS NothingLostNothingBack MeantModel
SYMMETRY Symmetry
CHECK_DEADLOCK FALSE
