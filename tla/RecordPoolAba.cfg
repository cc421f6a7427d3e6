CONSTANTS
  None = None
  Capacity = 2
  Allocators = {"a1", "a2"}
  Freers = {"a1", "a2"}
SPECIFICATION Spec
INVARIANT ExclusiveOwner
