SPECIFICATION FairSpec
CONSTANTS
  c1 = c1
  c2 = c2
  Fields = {"name", "description"}
  Conflicts = {c1, c2}
  Budgets <- MCBudgets
INVARIANTS
  TypeOK
  OneSavePerPage
  DraftsSavedOnce
  BannerIsTrue
PROPERTIES
  NothingShownIsUndone
  LockedRecordsStay
  AnswersStand
  SavesEnd
CHECK_DEADLOCK FALSE
