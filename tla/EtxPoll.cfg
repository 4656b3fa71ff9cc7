\* Two sysfs processes and two applications, with poll() or epoll each.
SPECIFICATION FairSpec
CONSTANTS
  s1 = s1
  s2 = s2
  a1 = a1
  a2 = a2
  Sysfs = {s1, s2}
  Apps = {a1, a2}
INVARIANTS
  TypeOK
  NoLostWakeup
  NoPermissionLost
PROPERTIES
  LostOnlyByCtl
  PermissionsAreUsed
