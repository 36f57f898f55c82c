SPECIFICATION FairSpec
CONSTANTS
  Turns = {t1, t2}
  Children = {c1, c2}
  Nobody = Nobody
  Surfaces = {"web_ui", "a2a"}
CHECK_DEADLOCK FALSE
INVARIANTS
  PendingIsExact
  ParentsShareConversation
PROPERTY
  QueuedChildrenStart
