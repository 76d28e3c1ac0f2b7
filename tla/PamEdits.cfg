\* One login manager, and an administrator who edits a file copied for face unlock.
SPECIFICATION FilesSpec
CONSTANTS
    WORD <- MCWord
    MAX_INCLUDE_DEPTH = 8
    Systems <- MCOneSystem
    Users = {"alice"}
    ADMIN_LINES <- MCAdminLines
    MaxEvents = 1
INVARIANTS
    BaseKept
