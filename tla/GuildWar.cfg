SPECIFICATION Spec
CONSTANTS
  War = {1, 2, 3}
  Kind <- MCKind
  Reservation = {1, 2}
  NoReservation = NoReservation
  NoRow = NoRow
  ReserveTime = 1
  WaitTime = 1
  FieldTime = 1
  MapTime = 1
  MaxTime = 3
  MaxRequest = 4
  MaxFault = 1
  MaxStart = 1
INVARIANTS PaidOnce StartedOnce  StakeIsKept
CHECK_DEADLOCK FALSE
