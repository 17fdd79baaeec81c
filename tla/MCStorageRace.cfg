SPECIFICATION Spec
CONSTANTS
  s1 = s1
  u1 = u1
  u2 = u2
  r1 = r1
  r2 = r2
  cron = cron
  admin = admin
  None = None
  Shares = {s1}
  Uploads = {u1}
  Requests = {r1, r2}
  Cleaners = {cron, admin}
  Admins = {admin}
  ShareOf <- AllInOneShare
  FileLimit = 1
  UploadLimit = 1
  MaxFaults = 1
SYMMETRY RequestSymmetry
INVARIANT NoOrphanObject
INVARIANT OpenMultipartTracked
INVARIANT DeletedShareLeavesNothing
PROPERTY ObjectsLostOnlyByDeletion
PROPERTY CatalogSpec
CHECK_DEADLOCK FALSE
