SPECIFICATION OriginSpec
CONSTANTS
  Own = own
  Foreign = foreign
  None = None
  Bad = Bad
INVARIANTS OwnPagesConnect
CHECK_DEADLOCK FALSE
