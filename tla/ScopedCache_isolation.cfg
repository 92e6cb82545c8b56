SPECIFICATION Spec
CONSTANTS
  NoCaller = NoCaller
  NoResource = NoResource
  NoTenant = NoTenant
  Admin = admin
  u1 = u1
  u2 = u2
  t1 = t1
  t2 = t2
  analyst = analyst
  c1 = c1
  c2 = c2
  c3 = c3
  Users = {u1, u2}
  Tenants = {t1, t2}
  Resources = {r1}
  Roles = {admin, analyst}
  FirstTenant <- TwoTenants
  FirstRoles <- Mixed
  DefaultRights <- Seeded
  FirstOwner <- OwnedByFirst
  Callers = {c1, c2}
  Processes = {p1}
  OneStatement = FALSE
  MayRegister = TRUE
  MaxEntries = 1
  MaxGrants = 1
  MaxChanges = 2
CHECK_DEADLOCK FALSE
SYMMETRY CallerSymmetry
INVARIANTS
  TypeOK
  ReadersOnly
  Isolated
