SPECIFICATION FairSpec
CONSTANTS
  Sessions = {s1, s2}
  NoSession = NoSession
  MaxPending = 2
INVARIANTS
  TypeOK
  SessionsSound
PROPERTIES
  RendersOnlyWhenReady
  FollowsLifecycle
  StartSettles
  FramesKeepComing
