SPECIFICATION WalkSpec
INVARIANTS WalkTypeInv PanelsAndLockBelongToWalk NoGhostInput RemoteInItsPlace
PROPERTIES EnterInHand ExitLeaves
