CONSTANTS
  None = None
  StateNames = {"PRE_INITIALIZED", "READY", "STARTING", "RUNNING", "STOPPING", "STOPPED", "RESUMING", "DEGRADING", "DEGRADED", "FAULTING", "FAULTED", "DISPOSING", "DISPOSED"}
  Traders = {"TRADER-001"}
  Components = {"Actor-1"}
  Types = {"Actor"}
  Reasons = {None, "maintenance"}
  Uuids = {"u1", "u2"}
  Configs = {cfg1}
  Stamps = {0, 5}
  Instance = i1
  RegClocks = {k1, k2}
  SetupLen = 3
SPECIFICATION Spec
INVARIANT ComponentStateChangedRoundTrip EachClockAdvancedOnce
