SPECIFICATION Spec
CONSTANTS
  u1 = u1  u2 = u2  u3 = u3
  m1 = m1  m2 = m2  m3 = m3
  i1 = i1  i2 = i2
  s1 = s1  s2 = s2
  Users <- MCUsers
  MemberIds <- MCMemberIds
  InviteIds <- MCInviteIds
  Slots <- MCSlots
  Assignable <- MCAdmin
  Creator = u1
  CreatorRow = m1
  NoUser = NoUser
  NoMember = NoMember
  NoInvite = NoInvite
SYMMETRY Symm
INVARIANTS TypeOK AtMostOneOwner PointerAgrees TokenAdmitsOnce OneRowPerUser
PROPERTY ImplementsOwnership
CHECK_DEADLOCK FALSE
