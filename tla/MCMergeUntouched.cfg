\* One claim of the repository that the code does not keep.
CONSTANTS
    Phones = {"tablet", "phone"}
    Keyed = {"chore", "milk"}
    Settings = {"lists"}
    Leftover = {"archive"}
    LastEdit = 2
SPECIFICATION MergeSpec
PROPERTIES
    UntouchedTakesTheirs
CHECK_DEADLOCK FALSE
