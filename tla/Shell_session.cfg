CONSTANTS
  Askers = {a1, a2}
  MaxAsks = 3
  Nobody = Nobody
SPECIFICATION Spec
INVARIANTS KeysFollowTheQuestion RunningIsReal TextIsOfWhatIsShown
PROPERTIES PermissionIsKept QuestionEnds ShellComesBack SessionEnds
CHECK_DEADLOCK FALSE
