CONSTANTS
  Server = {"n", "o", "r"}
  None = None
  MaxEvents = 2
  Width = 3
  Address <- MCAddress
  MaxHosts = 4
  Request = {q1}
  Target = {"o"}
  Network <- MCNetwork
  MaxTries = 3
  Successor = {"n"}
SPECIFICATION MCWebhookSpec
INVARIANTS ScanCoversNetwork DowntimeEndsWithRecovery
PROPERTIES QuietSyncIsCurrent OnlyReplicasAreFreed WebhookIsAnsweredOrSuperseded
CHECK_DEADLOCK FALSE
