---------------------------- MODULE MCDatabasePool ----------------------------
(* Instances of DatabasePool for TLC.                                      *)
EXTENDS DatabasePool

CONSTANTS t1, t2, t3

TwoThreads == {t1, t2}

ThreeThreads == {t1, t2, t3}

=============================================================================
