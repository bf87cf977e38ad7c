------------------------------- MODULE MCLive -------------------------------
(* One page, a socket that is going and one that comes, two fetches.  The
   region is the overview's: it is rendered from what waits for a review too,
   and does not answer to that topic. *)
EXTENDS Live, TLC

CONSTANTS activity, waitingForYou, run, review

MCTopicOf == (activity :> run) @@ (waitingForYou :> review)
=============================================================================
