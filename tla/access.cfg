SPECIFICATION Spec
CONSTANTS
  User = {b, u, v}
  Boss = b
  Object = {d, t}
  Task = {t}
  NoObject = NoObject
  Request = {r1, r2}
  MaxRequests = 4
SYMMETRY Alike
INVARIANTS AccessInv UserAsDecided BindingAsDecided
PROPERTIES GrantsComeFromAdmins LastAdminStays
CHECK_DEADLOCK FALSE
