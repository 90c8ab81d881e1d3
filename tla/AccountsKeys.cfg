SPECIFICATION Spec
CONSTANTS
  r1 = r1
  r2 = r2
  r3 = r3
  NoKey = NoKey
  Attempts = {r1, r2, r3}
  Names = {"ann", "bob"}
  Emails = {"a@x", "b@x"}
  Devices = {r1, r2}
  MaxKeys = 3
  Faults = {"db"}
INVARIANTS
  TypeOK
  UniqueUsers
  AtomicRegistration
  DirectoryFollowsDevice
PROPERTIES
  RegistrySpec
  RequestsAnswered
CHECK_DEADLOCK FALSE
