---------------------------- MODULE MCListenSvr -----------------------------
(***************************************************************************)
(* Small instances of ListenSvr for TLC.                                   *)
(***************************************************************************)
EXTENDS ListenSvr, TLC

CONSTANTS
  a1,              \* the thread of the main window
  t1, t2, t3,      \* temporary threads
  s1, s2, s3       \* socket handles

OneAdmin   == {a1}
OneTmp     == {t1}
TwoTmp     == {t1, t2}
ThreeTmp   == {t1, t2, t3}
OneSock    == {s1}
TwoSocks   == {s1, s2}
ThreeSocks == {s1, s2, s3}

\* Threads and handle values are interchangeable.
Symmetry == Permutations(ThreeTmp) \cup Permutations(ThreeSocks)
=============================================================================
