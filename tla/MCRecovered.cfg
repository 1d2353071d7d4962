CONSTANTS
  Server = {"n", "o", "r"}
  None = None
  MaxEvents = 0
  Width = 3
  Address <- MCAddress
  MaxHosts = 4
  Request = {}
  Target = {}
  Network = {}
  MaxTries = 3
  Successor = {"n"}
SPECIFICATION MCWebhookSpec
INVARIANTS RecoveredFollowsNewPrimary
CHECK_DEADLOCK FALSE
