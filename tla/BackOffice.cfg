SPECIFICATION OfficeSpec
CONSTANTS
  t1 = t1 p1 = p1 p2 = p2 c1 = c1 c2 = c2 c3 = c3 c4 = c4 m1 = m1 m2 = m2 w = w
  a1 = a1 k1 = k1 u1 = u1 u2 = u2 r1 = r1 r2 = r2 s1 = s1 s2 = s2
  TimedTurns = {t1} Pollers = {p1, p2} TimerCalls = {c1, c2}
  GameLengths = {0, 2} WarnBefore = 2 Extension = 1 BatchSize = 1
  MaxClock = 3 MaxTimerCalls = 2 MaxJobFaults = 1 MaxTimersAtOnce = 2
  Members = {m1, m2} Walkin = w SeatCalls = {c1, c2, c3} Capacity = 1
  Students = {a1} FeeCalls = {c1, c2, c3} LastMonth = 2
  GuestCalls = {c1, c2, c3, c4} MaxGuestsPerDay = 1
  Applicants = {k1} HiringCalls = {c1, c2, c3, c4}
  People = {u1} OperatorCalls = {c1, c2, c3, c4}
  Taps = {c1, c2} AccessLife = 1 RefreshLife = 2 MaxSecond = 3 MaxMishaps = 2
  Duellists = {u1, u2} Matches = {r1, r2} RallySockets = {s1, s2} MaxRestarts = 1
CHECK_DEADLOCK FALSE
INVARIANTS
  OfficeTypeOK
  JobRunsOnce NoEarlyNotice KnownSeatsFit OneApplicationEach FlagFollowsRecord
  FreeSeatToFirst OneClassPerHire LeadersWereApproved NobodyWaitsForNothing
  SignedOutForCause RunsOnceUnlessLost
  OneMatchEach ReturnedPlayersStay
PROPERTIES
  DueJobRuns ConfirmationStays OnlyForwards AbandonedMatchEnds
