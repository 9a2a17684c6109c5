SPECIFICATION Spec
CONSTANTS
  Names <- MCNames
  Order <- MCOrder
  Primary = "Proxy"
  Backup = "Standby"
  Builtins = {"DIRECT"}
  Sources <- MCSources
  Users <- MCUsers
  FirstFiles <- MCFirstFiles
  MaxSyncs = 2
  Probe = "probe"
INVARIANTS
  SyncedTemplatesRender
  DropIsExact
  OwnerGetsTheSource
  SyncIsAllOrNothing
CHECK_DEADLOCK FALSE
