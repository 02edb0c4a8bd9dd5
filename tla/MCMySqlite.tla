----------------------------- MODULE MCMySqlite -----------------------------
(***************************************************************************)
(* Small instances of MySqlite for TLC.                                    *)
(***************************************************************************)
EXTENDS MySqlite

CONSTANTS w1, w2   \* threads of the program

TwoCallers == {w1, w2}
=============================================================================
