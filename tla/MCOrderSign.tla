---------------------------- MODULE MCOrderSign -----------------------------
(***************************************************************************)
(* Instances of OrderSign: the one of the configuration, and one in which  *)
(* there is a single index order and the program is restarted once.  A     *)
(* behaviour is of one of them.                                            *)
(***************************************************************************)
EXTENDS OrderSign, TLC

CONSTANTS m1, t1

VARIABLE index

I == INSTANCE OrderSign WITH
        Order <- {m1}, Taken <- {}, Index <- {m1}, Price <- {10, 11, 12}, Relinks <- FALSE,
        MaxClicks <- 2, MaxNotifs <- 2, MaxFaults <- 1, MaxLogouts <- 0, MaxRestarts <- 1

SignInit == (index = TRUE /\ I!Init) \/ (index = FALSE /\ Init)

SignNext == ((index /\ I!Next) \/ (~index /\ Next)) /\ UNCHANGED index
SignSpec == SignInit /\ [][SignNext]_<<vars, index>>
=============================================================================
