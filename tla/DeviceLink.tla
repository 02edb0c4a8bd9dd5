----------------------------- MODULE DeviceLink -----------------------------
(***************************************************************************)
(* What CSockProc promises about the TCP link of one device, with no       *)
(* threads, locks or queues: the link is up on one connection at a time,   *)
(* it has to go down before another connection is taken, and a connection  *)
(* that was taken once is never taken again.                               *)
(***************************************************************************)
CONSTANT Sock      \* the connections a device may ever register on

VARIABLES up,      \* is the device reported online?
          taken    \* the connections attached so far

linkVars == <<up, taken>>

LinkInit == up = FALSE /\ taken = {}

\* A registration attaches a connection; the device must be offline.
Connect(s) == /\ ~up
              /\ s \notin taken
              /\ up' = TRUE
              /\ taken' = taken \cup {s}

\* The link ends: peer gone, silence, or the server dropped it.
Drop == up /\ up' = FALSE /\ UNCHANGED taken

LinkNext == Drop \/ \E s \in Sock : Connect(s)

LinkSpec == LinkInit /\ [][LinkNext]_linkVars
=============================================================================
