SPECIFICATION MembershipSpec
CONSTANTS
  t1 = t1
  t2 = t2
  ann = ann
  bob = bob
  d1 = d1
  d2 = d2
  admin = admin
  reader = reader
  r1 = r1
  r2 = r2
  r3 = r3
  Tenants <- MCTenants
  Actors <- MCActors
  Documents <- MCDocuments
  Roles <- MCRoles
  Admin = admin
  Owner <- MCOwner
  Requests <- MCRequests
  Calls <- MCCalls
  Seeds <- MCSeeds
  AccessFaults = {"authorize", "select", "commit"}
  AccessAckLoss = {"commit"}
SYMMETRY MCSymmetry
INVARIANTS
  TypeOK
  RevokedStaysOut
PROPERTY
  ImplementsDirectory
CHECK_DEADLOCK FALSE
