---------------------------- MODULE MCRPCResponse ----------------------------
(* Small instances of RPCResponse for TLC.                                  *)
EXTENDS RPCResponse, TLC
=============================================================================
