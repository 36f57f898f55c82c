SPECIFICATION FairSpec
CONSTANTS
  Tasks = {t1}
  Humans = {h1, h2}
  Nobody = Nobody
  MaxPrompts = 2
CHECK_DEADLOCK FALSE
INVARIANTS
  TypeOK
  ActedOnApproval
  AcknowledgedStands
PROPERTY
  GatesEnd
