----------------------------- MODULE MCSockProc -----------------------------
(***************************************************************************)
(* Small instances of SockProc for TLC.                                    *)
(***************************************************************************)
EXTENDS SockProc

CONSTANTS
  c1, c2,      \* controllers
  r1, r2,      \* requesters
  s1, s2, s3,  \* connections
  do, di       \* session ids: GetDO, GetDI

TwoControllers == {c1, c2}
OneRequester   == {r1}
TwoRequesters  == {r1, r2}
TwoSocks       == {s1, s2}
ThreeSocks     == {s1, s2, s3}
OneSSID        == {do}
TwoSSID        == {do, di}
=============================================================================
