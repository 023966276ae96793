SPECIFICATION Spec
CONSTANTS
  Months = 3
PROPERTIES SqlKeepsPromise
