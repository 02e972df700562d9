SPECIFICATION Spec
CONSTANTS
  Clients = {"c1", "c2"}
  Infos = {"i1", "i2"}
  Filters <- MCFilters
  Topics <- MCTopics
INVARIANTS
  TypeOK
  NoDeadBranches
  RouterAgreesWithAcl
PROPERTY
  ImplementsTable
