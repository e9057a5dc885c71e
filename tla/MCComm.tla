------------------------------- MODULE MCComm -------------------------------
(* Model-checking instance of Comm: the names of its threads. *)
EXTENDS Comm

CONSTANTS t1, t2, t3

MCThreads == {t1, t2, t3}
=============================================================================
