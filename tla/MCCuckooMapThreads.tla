-------------------------- MODULE MCCuckooMapThreads --------------------------
(***************************************************************************)
(* One map for all, with the three calls that take no Finding.             *)
(***************************************************************************)
EXTENDS CuckooMapThreads, TLC

CONSTANT m1

MCShared == m1 :> WithGuard
=============================================================================
