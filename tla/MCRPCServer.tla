----------------------------- MODULE MCRPCServer -----------------------------
(* Small instances of RPCServer for TLC.                                    *)
EXTENDS RPCServer

=============================================================================
