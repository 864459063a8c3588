CONSTANTS
  Letters = {"a", "b", "x"}
  Names <- DistinctNames
  MaxFiles = 3
  SectorParts = 4
  Data = {"v1", "v2"}
  Stats = {"s1"}
  MaxCrash = 2
SPECIFICATION Spec
INVARIANTS TableSound HandleIsOwn OnlyUnsavedDeletesAreDamaged
PROPERTIES ImplementsSaveSpec
CHECK_DEADLOCK FALSE
