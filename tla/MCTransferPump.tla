-------------------------- MODULE MCTransferPump --------------------------
(* Small instances of TransferPump for TLC: two jobs that share one row,   *)
(* the one in many small keys; or two jobs with a row each.                *)
EXTENDS TransferPump, TLC

CONSTANTS long, back, put, get, x1, x2

Sizes == [j \in Jobs |-> CASE j = long -> <<1, 1, 1, 1>> [] j = back -> <<1, 2>>
                           [] j = put  -> <<1, 1>>       [] j = get  -> <<1>>]
Asked == {{long}, {put, get}}
OneOrTwo == {[rows |-> {x1}, jobs |-> {long, back}], [rows |-> {x1, x2}, jobs |-> {put, get}]}
=============================================================================
