SPECIFICATION Spec
CONSTANTS
    Sections = {s1, s2}
    MaxVersions = 2
    MaxEditions = 2
    MaxFiles = 3
    Nothing = Nothing
CHECK_DEADLOCK FALSE
INVARIANT MetadataTellTheReport
PROPERTY BackupsStand
