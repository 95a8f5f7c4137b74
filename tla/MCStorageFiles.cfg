SPECIFICATION MCSpec
CONSTANTS
  Docs <- AllDocs
  Faults = {"kill", "torn", "command", "fetch", "save"}
  MaxApplies = 4
  MaxFaults = 2
  None = None
  Kinds = {"genesis","binary"}
  Troubles = {"offline","request","stream","restart"}
  MaxTroubles = 1
  MaxChannel = 1
INVARIANTS StorageSound KeysOfGenesis TransfersSound
PROPERTY FilesArriveServed
CHECK_DEADLOCK FALSE
