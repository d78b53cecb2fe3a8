SPECIFICATION Spec
CONSTANTS
  Users = {u1, u2, u3}
  Guests = {u3}
  ChannelUsers = {u2, u3}
  Requests = {r1, r2}
  None = None
INVARIANTS AnotherAdminRemains
CHECK_DEADLOCK FALSE
