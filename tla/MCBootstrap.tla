----------------------------- MODULE MCBootstrap ----------------------------
(***************************************************************************)
(* A small instance of SchedulerBootstrap for TLC.                         *)
(***************************************************************************)
EXTENDS SchedulerBootstrap

CONSTANT w1

MCWorkloads == {w1}
=============================================================================
