---------------------------- MODULE MCSockDevice ----------------------------
(***************************************************************************)
(* Small instances of SockDevice for TLC.                                  *)
(***************************************************************************)
EXTENDS SockDevice

CONSTANTS
  c1, c2,      \* callers
  d1           \* a relay

OneCaller  == {c1}
TwoCallers == {c1, c2}
NoRelay    == {}
OneRelay   == {d1}

\* Requests in which the interesting cases of each run happen.
AskRelay == {<<SetDO(d1, 0)>>, <<SetDO(d1, 1)>>, <<GetDO>>}
AskReg   == {<<GetReg("PowerV")>>, <<GetReg("LoadI")>>}
AskGroup == {<<GetReg("PowerV")>>, <<ResetPower>>, RefreshData}
=============================================================================
