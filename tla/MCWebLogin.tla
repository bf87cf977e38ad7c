----------------------------- MODULE MCWebLogin -----------------------------
(* Two passwords, one broker, one page saving beside `gpb passwd`, two
   requests.  Nothing tells the requests apart, nor the passwords. *)
EXTENDS WebLogin, TLC

CONSTANTS w1, w2, r1, r2

Interchangeable == Permutations(Requests) \union Permutations(Passwords)
=============================================================================
