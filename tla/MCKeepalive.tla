---------------------------- MODULE MCKeepalive ----------------------------
(***************************************************************************)
(* Three players of whom one is linked to both others, and four in a row.  *)
(* A tick is the 50 ms of usleep; the timeout of 50 ticks is scaled down.  *)
(***************************************************************************)
EXTENDS Keepalive

Three == {1, 2, 3}
Four  == {1, 2, 3, 4}

Hub  == <<<<2, 3>>, <<1>>, <<1>>>>
Row  == <<<<2>>, <<1, 3>>, <<2, 4>>, <<3>>>>

First == {1}
Ends  == {1, 4}

=============================================================================
