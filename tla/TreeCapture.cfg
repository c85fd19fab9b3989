SPECIFICATION Spec
CHECK_DEADLOCK FALSE
CONSTANTS
    Kinds = {"bundle", "release", "snapshot"}
    None = None
    MaxChanges = 2
INVARIANTS
    CaptureIsWhole
    BundleFilesWerePresent
    BundleDirectoriesHeld
