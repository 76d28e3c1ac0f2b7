SPECIFICATION FilesSpec
CONSTANTS
    WORD <- MCWord
    MAX_INCLUDE_DEPTH = 8
    Systems <- MCSystems
    Users = {"alice"}
    ADMIN_LINES <- MCAdminLines
    MaxEvents = 3
INVARIANTS
    DropInHasWallet
    AllOrNothing
    LockScreenStarts
    StacksStayGuarded
PROPERTIES
    BaseStays
