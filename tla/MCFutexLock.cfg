CONSTANT Thread = {t1, t2, t3}
SPECIFICATION Spec
INVARIANTS SleeperRemembered
PROPERTY ImplementsLock
