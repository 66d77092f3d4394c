------------------------------ MODULE MCMacApp ------------------------------
(* A user who adds two peers; a packet in each direction.                  *)
EXTENDS MacApp

MCHelper == 1 .. 2

=============================================================================
