------------------------------ MODULE MCTcpCli ------------------------------
(***************************************************************************)
(* Instances of LibeventTcpCli for TLC. The application threads are        *)
(* interchangeable: no action and no invariant names one of them.          *)
(***************************************************************************)
EXTENDS LibeventTcpCli, TLC

UserSymmetry == Permutations(Users)
=============================================================================
