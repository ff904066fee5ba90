CONSTANTS
  Bits <- MCBits
  Args <- MCArgs
  Schemas <- MCSchemas
SPECIFICATION Spec
INVARIANTS IntegersExact RowsReadBack KeysOrdered
CHECK_DEADLOCK FALSE
