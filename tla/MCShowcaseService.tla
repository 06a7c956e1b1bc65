-------------------------- MODULE MCShowcaseService --------------------------
(***************************************************************************)
(* Three concurrent requests; workloads are told apart up to the third.    *)
(***************************************************************************)
EXTENDS ShowcaseService
=============================================================================
