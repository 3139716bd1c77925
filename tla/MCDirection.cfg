CONSTANTS
  Flow <- MCFlow
  NoPort <- MCNoPort
  Loopback = {"lo"}
  Unspecified = {"zero"}
  DeviceLists <- MCDeviceLists
  Interface = "eth0"
  LinkTypes = {"ethernet", "sll"}
  SelfExport <- MCSelfExport
  MaxQueued = 1
  MaxFlows = 3
  MaxChanges = 1
SPECIFICATION Spec
INVARIANTS TypeOK LabelNotStale NeverAGuess OneViewPerMap
