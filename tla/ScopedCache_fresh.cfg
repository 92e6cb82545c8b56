SPECIFICATION Spec
CONSTANTS
  NoCaller = NoCaller
  NoResource = NoResource
  NoTenant = NoTenant
  Admin = admin
  u1 = u1
  u2 = u2
  t1 = t1
  t2 = t2
  analyst = analyst
  c1 = c1
  c2 = c2
  c3 = c3
  Users = {u1}
  Tenants = {t1}
  Resources = {r1}
  Roles = {admin, analyst}
  FirstTenant <- OneTenant
  FirstRoles <- Analysts
  DefaultRights <- Seeded
  FirstOwner <- OwnedByFirst
  Callers = {c1, c2, c3}
  Processes = {p1, p2}
  OneStatement = TRUE
  MayRegister = FALSE
  MaxEntries = 1
  MaxGrants = 0
  MaxChanges = 1
CHECK_DEADLOCK FALSE
SYMMETRY CallerSymmetry
INVARIANTS
  Fresh
  NoGoneAnswer
