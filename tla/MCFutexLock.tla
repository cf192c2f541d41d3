----------------------------- MODULE MCFutexLock -----------------------------
\* FutexLock for TLC: three threads, so that one can overwrite the word while
\* a second holds the lock and a third sleeps on it.
EXTENDS FutexLock
=============================================================================
