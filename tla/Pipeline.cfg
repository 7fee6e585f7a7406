\* Up to three commands, two at a time, of one name that has two layouts.
SPECIFICATION Spec
CONSTANTS
  Procs = {a, b}
  Nobody = Nobody
  Layouts = {one, two}
  NoConfig = NoConfig
  NoRun = NoRun
  Kinds = {"deploy", "rollback", "inspect", "init", "config", "auth", "destroy"}
  Keep = 1
  Retain = 2
  MaxTip = 2
  MaxCommands = 3
  MaxFaults = 1
SYMMETRY Alike
INVARIANTS
  TypeOK
PROPERTIES
  SuccessServesFresh
  LockedAttemptsRecorded
  LatestNeverOlder
  NoStagingLeft
  DestroyLeavesNothing
  AuthLeavesUsableKey
  ReleaseStoreSpec
CHECK_DEADLOCK FALSE
