SPECIFICATION Spec
CONSTANTS
  server = server
  follower = follower
  second = second
  k1 = k1
  k2 = k2
  k3 = k3
  Nodes = {server, follower, second}
  Keys = {k1, k2, k3}
  Blocks = {1, 2}
  Uni <- MCUni
  Home <- MCHome
  Static <- MCStatic
  Addable <- MCAddable
  BatchSize = 2
  MaxDisturbances = 1
CHECK_DEADLOCK FALSE
INVARIANTS SyncedIsCovered
PROPERTIES FollowerCatchesUp RequestIsAnswered
