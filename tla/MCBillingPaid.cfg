SPECIFICATION FairSpec
CONSTANTS
  Slots = {r1, r2}
  r1 = r1
  r2 = r2
  Plans = {"premium"}
  MaxTime = 2
  Period = 1
  ChargeDays = 2
  AdminDates = {3}
  MaxAsked = 2
  MaxSubs = 2
  MaxEvents = 3
  MaxCharges = 0
  MaxGrants = 0
  MaxCrashes = 0
PROPERTY ChargedCustomerServed
CHECK_DEADLOCK FALSE
