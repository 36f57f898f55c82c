SPECIFICATION Spec
CONSTANTS
    Surfaces = {"web_ui", "a2a"}
    Turns = {u1, u2}
    RunIds = {r1}
    Requests = {{}, {"script"}, {"start", "script"}}
    Limit = 2
    Window = 2
    MaxTexts = 3
    MaxTasks = 2
    MaxClock = 1
    MaxFailures = 1
    Nothing = Nothing
SYMMETRY Symmetry
CHECK_DEADLOCK FALSE
INVARIANT PromptIsTheConversation NoRunIsGuessed OneMintPerTurn
