SPECIFICATION NightSpec
CONSTANTS
  k1 = k1 k2 = k2 d1 = d1 u1 = u1 e1 = e1 e2 = e2 b1 = b1 b2 = b2 x = x y = y
  Ticks = {k1, k2} Desks = {d1}
  SlotHours = {1} AutoEndHours = 1
  Mixes <- MCMixes
  MaxHour = 3 MaxNights = 2 MaxNightFaults = 1
  Attendees = {u1} Doors = {e1, e2}
  Booths = {b1, b2} Choices = {x, y}
  MaxUnderWay = 2
CHECK_DEADLOCK FALSE
INVARIANTS
  NightTypeOK
  OneActiveSession SlotOpensOnce OneOpenCheckIn OneVoteEach NothingLeftOpen
PROPERTIES
  ForgottenSessionEnds
