----------------------------- MODULE MCCommsLink -----------------------------
(* One connection, from the queue at one host to that at the other.        *)
EXTENDS CommsLink
=============================================================================
