-------------------------- MODULE MCOutboundDispatch --------------------------
(* OutboundDispatch on small instances.                                     *)
EXTENDS OutboundDispatch

CONSTANTS d1, r1, r2

=============================================================================
