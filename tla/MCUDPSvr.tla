------------------------------ MODULE MCUDPSvr ------------------------------
(***************************************************************************)
(* Small instances of UDPSvr for TLC.                                      *)
(***************************************************************************)
EXTENDS UDPSvr

CONSTANTS
  w1, w2,   \* threads of the program
  u,        \* the server's thread
  d1, d2    \* devices

TwoCallers == {w1, w2}
TwoDevs    == {d1, d2}
=============================================================================
