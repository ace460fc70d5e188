CONSTANTS
  Items = {i1, i2}
  MaxAge = 2
SPECIFICATION ExpirySpec
INVARIANTS UpdatedStay
CHECK_DEADLOCK FALSE
