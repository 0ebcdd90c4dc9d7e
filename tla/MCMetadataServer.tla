-------------------------- MODULE MCMetadataServer --------------------------
(* A small instance of MetadataServer for TLC. *)
EXTENDS MetadataServer, TLC

CONSTANTS ask1, ask2, id1, id2, c1, c2, l1, l2

Apart  == ask1 :> id1 @@ ask2 :> id2
Shared == ask1 :> id1 @@ ask2 :> id1      \* a client that uses a request id twice
Pair == {[threads |-> 2, entries |-> 2, names |-> Shared, uses |-> {"release"}],
         [threads |-> 1, entries |-> 1, names |-> Apart, uses |-> {"release", "renew"}]}
=============================================================================
