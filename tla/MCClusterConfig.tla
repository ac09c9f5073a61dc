-------------------------- MODULE MCClusterConfig ---------------------------
(***************************************************************************)
(* Instances of ClusterConfig for TLC.                                     *)
(***************************************************************************)
EXTENDS ClusterConfig

CONSTANTS prd, tst, uat, d1, d2, k1

MCNames == {prd, tst, uat}
MCRequested == {{k1}}

Configured(n, marked, connect) ==
  [name |-> n, active |-> marked, details |-> d1, connect |-> connect]

\* No file, one the program wrote, and one written by hand that marks none.
MCFiles == {<<>>,
            <<Configured(prd, FALSE, {k1}), Configured(tst, TRUE, {})>>,
            <<Configured(prd, FALSE, {}), Configured(tst, FALSE, {})>>}
=============================================================================
