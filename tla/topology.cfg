SPECIFICATION Spec
CONSTANTS
  NoPort = "-"
  SrcPorts = {"a1", "a2"}
  DstPorts = {"b1", "b2"}
  Cables <- Parallel
  Confidence <- ConfidenceTable
  Networks <- AllNetworks
  Races <- AllRaces
  Labels = {"label"}
  NoLabel = "none"
  Sessions = {"run", "reclassify", "operator"}
  NoObservation = NoObservation
  MaxId = 3
  None = "none"
  Hosts <- AllHosts
  Servers = {"S"}
  Kits <- AllKits
  Wires <- AllWires
  ManualRoles = {"CORE_SWITCH", "ACCESS_SWITCH"}
  CoreScore = 50
  FloorScore = 50
INVARIANTS
  TypeOK LinksAreSound RaceIsHarmless CommittedMapHolds
PROPERTIES
  ObservationsKept DuplicatesHeal MapSettles RolesAreSound
