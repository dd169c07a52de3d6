SPECIFICATION FairSpec
CONSTANTS
  a1 = a1 a2 = a2
  k1 = k1
  r1 = r1 r2 = r2
  None = None
  Apps = {a1, a2}
  Coaches = {k1}
  CoachOf <- MCCoachOf
  DefaultCard <- MCCards
  Requests = {r1, r2}
  Kinds = {"pay", "cancel", "bill", "close", "payout"}
  MaxRequests = 2
  MaxFaults = 1
INVARIANTS
  ChargedAsRecorded MoneyBehindEveryRow
PROPERTIES
  EveryoneBilled
