SPECIFICATION ProvSpec
CONSTANTS
  Forms = {f1, f2}
  NoForm = none
INVARIANTS JoinHasCredentials JoinUsesOneForm
PROPERTY StoredIsUsed
CHECK_DEADLOCK FALSE
