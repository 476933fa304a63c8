---------------------------- MODULE MCSpinRWLock ----------------------------
(* Small instances of SpinRWLock: three threads, tickets modulo 4 (the      *)
(* smallest wheel three threads cannot wrap), and the sets of entry points. *)
EXTENDS SpinRWLock

CONSTANTS t1, t2, t3

MCThreads == {t1, t2, t3}
AllOps == {"write", "trywrite", "read", "tryread", "upgrade", "degrade"}
WriterOps == {"write"}
ScopedOps == {"write", "read"}
=============================================================================
