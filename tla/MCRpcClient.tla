---------------------------- MODULE MCRpcClient ----------------------------
(* A small instance of RpcClient for TLC: fanout() to two ranks beside one *)
(* call(), with a credit less than they ask for, and fanout() to one rank  *)
(* beside two, with a credit for each: then one call may hold the wire,    *)
(* the other wait for it, and the worker sleep while work is queued.       *)
EXTENDS RpcClient, TLC

CONSTANTS r1, r2, a, b, w
MCPlans == {{r1, r2, a}, {r1, a, b}}
MCPending == ({r1, r2, a} :> 2) @@ ({r1, a, b} :> 3)
=============================================================================
