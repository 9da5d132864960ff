------------------------------- MODULE MCZook -------------------------------
(* ZookConfig for TLC: the servers are model values.                        *)
EXTENDS ZookConfig, TLC
=============================================================================
