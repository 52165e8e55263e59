SPECIFICATION Spec
CONSTANTS
  NoName = NoName
  Primitives = {"Int", "String", "Boolean", "Date"}
  DeliveryModes = {"at_least_once", "at_most_once", "effectively_once"}
  DerivedTrigger <- MCDerivedTrigger
  U32 = 8
  IntMax = 7
  Files <- MCFiles
INVARIANTS
  MachinesAreSound ModelsHold PipelinesAgree
  ContractsLand ScenariosHold CasesResolve DecisionsSettle DeploymentsFit
PROPERTY MeetsContract
