SPECIFICATION Spec
CONSTANTS
  Tasks = {t1}
  Hooked = {t1}
  Clients = {c1, c2}
  Nobody = Nobody
  MaxTurns = 2
  MaxStops = 1
SYMMETRY Symmetry
CHECK_DEADLOCK FALSE
INVARIANTS
  TypeOK
  OwnerIsLatest
  AskedIsUnowned
  ResultSeesEveryTurn
  PromptIsOpen
  StampsFollowStatus
  NoticesAreTrue
  OutcomeIsPosted
PROPERTY
  ImplementsContract
