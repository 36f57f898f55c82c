SPECIFICATION EditorSpec
CONSTANTS
    Stems <- ScriptStems
    Order <- ScriptOrder
    Generated <- Plan
    Additions <- Components
    Names = {"get", "post"}
    CreateBackup = TRUE
    MaxBackups = 1
    MaxElements = 4
    MaxChanges = 3
    MaxStops = 1
    Torn = Torn
    None = None
CHECK_DEADLOCK FALSE
INVARIANT BackupsAreTheHistory ChangesKeepIds
