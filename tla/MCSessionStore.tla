--------------------------- MODULE MCSessionStore ----------------------------
(* Instances of SessionStore for TLC: one conversation.                     *)
EXTENDS SessionStore
=============================================================================
