----------------------------- MODULE LoginLimit -----------------------------
(***************************************************************************)
(* What the login guard promises, whatever runs at once: wrong passwords   *)
(* are tried one after another, Limit of them at most before a lockout,    *)
(* and none during one.                                                    *)
(***************************************************************************)
EXTENDS Naturals

CONSTANT Limit

VARIABLES
    tries,      \* wrong passwords since the last right one, lockout or start
    lockedOut   \* whether everybody is locked out

LimitInit == tries = 0 /\ lockedOut = FALSE

TryWrong == ~lockedOut /\ tries < Limit /\ tries' = tries + 1 /\ UNCHANGED lockedOut

TryRight == ~lockedOut /\ tries' = 0 /\ UNCHANGED lockedOut

LockOut == tries = Limit /\ tries' = 0 /\ lockedOut' = TRUE

PeriodEnds == lockedOut /\ lockedOut' = FALSE /\ UNCHANGED tries

(* The guard lives in the process's memory. *)
Restart == tries' = 0 /\ lockedOut' = FALSE

LimitNext == TryWrong \/ TryRight \/ LockOut \/ PeriodEnds \/ Restart

LimitSpec == LimitInit /\ [][LimitNext]_<<tries, lockedOut>>
=============================================================================
