----------------------------- MODULE ReplyQueue -----------------------------
(***************************************************************************)
(* What the send queue of the UDP server promises: messages are numbered   *)
(* as they are queued and leave in that order, each at most once.  Some    *)
(* may never leave: a stop drops what is waiting, and a message taken from *)
(* the queue while the socket is being closed is lost.                     *)
(***************************************************************************)
EXTENDS Naturals, Sequences

VARIABLES
  waiting,   \* numbers of the messages that wait
  next,      \* number of the next message
  last       \* history: one more than the number that left last, 0 at first

Init == waiting = <<>> /\ next = 0 /\ last = 0

Queue == /\ waiting' = Append(waiting, next)
         /\ next' = next + 1
         /\ UNCHANGED last

Leave == /\ waiting # <<>>
         /\ waiting' = Tail(waiting)
         /\ last' = Head(waiting) + 1
         /\ UNCHANGED next

Lose == /\ waiting # <<>>
        /\ waiting' = Tail(waiting)
        /\ UNCHANGED <<next, last>>

Drop == waiting' = <<>> /\ UNCHANGED <<next, last>>

Next == Queue \/ Leave \/ Lose \/ Drop

Spec == Init /\ [][Next]_<<waiting, next, last>>
=============================================================================
