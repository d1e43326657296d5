------------------------------- MODULE MCRpc -------------------------------
(***************************************************************************)
(* An instance of RpcChannel for TLC.                                      *)
(***************************************************************************)
EXTENDS RpcChannel, TLC

CONSTANTS heartbeat, replication

TwoCallers == {heartbeat, replication}

=============================================================================
