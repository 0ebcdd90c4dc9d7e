----------------------------- MODULE MCManager -----------------------------
(* Small instances of Manager for TLC. *)
EXTENDS Manager, TLC

CONSTANTS a, b, k1, k2, t1, t2, t3

Setup(ids, calls, capacity, budget) == [ids |-> ids, calls |-> calls, capacity |-> capacity, budget |-> budget]
One == {<<a, k1>>}
Aging   == Setup(One, {"load", "expiry", "renewal", "shutdown"}, 2, 0)
Failing == Setup(One, {"load", "fail", "reset", "finish"}, 2, 0)
Storing == Setup(One, {"store", "finish", "shutdown"}, 2, 0)
Mixed   == Setup(One, {"load", "store", "doubt"}, 2, 0)
Turns   == Setup({<<a, k1>>, <<b, k2>>}, {"load"}, 2, 1)
Brimful == Setup({<<a, k1>>, <<b, k2>>}, {"load", "fail", "expiry"}, 1, 0)
MCSetups == {Aging, Failing, Storing, Mixed, Turns, Brimful}
Aged == {Setup(One, {"load", "expiry"}, 2, 0)}
=============================================================================
