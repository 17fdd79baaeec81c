SPECIFICATION FairSpec
CONSTANTS
  s1 = s1
  u1 = u1
  u2 = u2
  r1 = r1
  r2 = r2
  cron = cron
  admin = admin
  None = None
  Shares = {s1}
  Uploads = {u1, u2}
  Requests = {r1}
  Cleaners = {cron}
  Admins = {}
  ShareOf <- AllInOneShare
  FileLimit = 1
  UploadLimit = 1
  MaxFaults = 1
CHECK_DEADLOCK FALSE
PROPERTY ExpiredShareRemoved
PROPERTY StaleUploadRemoved
