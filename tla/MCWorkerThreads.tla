--------------------------- MODULE MCWorkerThreads ---------------------------
EXTENDS WorkerThreads

CONSTANTS t1, t2, t3, f1

ThreeThreads == {t1, t2, t3}
OneFile == {f1}
OneWorker == {self}
=============================================================================
