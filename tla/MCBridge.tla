------------------------------ MODULE MCBridge ------------------------------
(* A broker or none, the client of an attempt beside the next one's, and one
   announcement at a time beside the loop's own publishing. *)
EXTENDS Bridge
=============================================================================
