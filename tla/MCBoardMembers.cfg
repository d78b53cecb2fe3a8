SPECIFICATION Spec
CONSTANTS
  Users = {u1, u2, u3}
  Guests = {u3}
  ChannelUsers = {u2, u3}
  Requests = {r1, r2}
  None = None
SYMMETRY MCSymmetry
INVARIANTS MembersInv DeletionReachesMembers
PROPERTIES LastAdminKept AddNeverDemotes
CHECK_DEADLOCK FALSE
