SPECIFICATION Spec
CONSTANTS
  Account = {mum, dad}
  NoUser = NoUser
  MaxTaps = 2
INVARIANTS IdsAgree LogoutHolds ProfileHasUser ParentOnce
PROPERTY IdIsStored
