SPECIFICATION Spec
CONSTANTS
  Months = 4
INVARIANTS TypeOK StoresAgree
PROPERTIES MemKeepsPromise
