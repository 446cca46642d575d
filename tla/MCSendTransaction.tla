-------------------------- MODULE MCSendTransaction --------------------------
(***************************************************************************)
(* A small instance of SendTransaction: a node that restarts twice, with   *)
(* the operator's pair in the configuration of the first and the last run, *)
(* so that what a client sends is taken, refused and taken again; and two  *)
(* calls, so that one may retry the transaction of the other.              *)
(***************************************************************************)
EXTENDS SendTransaction, TLC

CONSTANTS valid, invalid, secret

AllTxs == {valid, invalid, Empty}

InvalidTxs == {invalid}

OneConfig == {[indexer_rpc_url |-> None, rpc_url |-> NodeUrl, poll_ms |-> 1]}

Unset == <<None, None>>

OneFile == <<"cache">>

Pair == [user |-> "operator", pass |-> secret]

SetPair == <<None, Pair>>

ThreeRuns == <<"zebra", "zebra", "zebra">>

NoRun == {}

PairAtEnds == [r \in Runs |-> IF r = 2 THEN {} ELSE {Pair}]

SameFile == [k \in Kinds |-> "cache"]
=============================================================================
