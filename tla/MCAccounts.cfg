SPECIFICATION AccountsSpec
CONSTANTS
  Slots = {r1, r2}
  Plans = {"premium"}
  MaxTime = 2
  Period = 1
  ChargeDays = 2
  AdminDates = {3}
  MaxAsked = 2
  MaxSubs = 2
  MaxEvents = 3
  MaxCharges = 1
  MaxGrants = 1
  MaxCrashes = 1
  Guessers = {g1, g2, g3}
  Threshold = 2
  Budget = 3
  LockTime = 2
  LastTime = 3
  MaxTries = 4
  Callers = {c1, c2}
  KeyIds = {k1}
  OtpLimit = 1
  LastStep = 2
  MaxIds = 2
  MaxVersion = 2
  MaxSecrets = 1
SYMMETRY AccountsSymmetry
INVARIANT NeverOverExtended
INVARIANT GuessesBounded
INVARIANT SessionsJustified
INVARIANT NothingUsedTwice
PROPERTY PaidTimeKept
PROPERTY AbandonedCheckoutHarmless
PROPERTY ChangesNeedFreshProof
CHECK_DEADLOCK FALSE
