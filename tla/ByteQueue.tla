----------------------------- MODULE ByteQueue ------------------------------
(* What a pipe promises: a bounded first-in first-out queue of bytes that   *)
(* takes bytes only while somebody may read them, and is dropped only when  *)
(* both ends are closed.                                                    *)
EXTENDS Naturals, Sequences

CONSTANTS Bytes, Capacity

VARIABLES queue, readable, writable

Init == queue = <<>> /\ readable = TRUE /\ writable = TRUE

Send(b) ==
  /\ readable /\ writable
  /\ Len(queue) < Capacity
  /\ queue' = Append(queue, b)
  /\ UNCHANGED <<readable, writable>>

Receive ==
  /\ readable /\ queue # <<>>
  /\ queue' = Tail(queue)
  /\ UNCHANGED <<readable, writable>>

CloseRead == readable /\ readable' = FALSE /\ UNCHANGED <<queue, writable>>
CloseWrite == writable /\ writable' = FALSE /\ UNCHANGED <<queue, readable>>

Next == (\E b \in Bytes : Send(b)) \/ Receive \/ CloseRead \/ CloseWrite

Spec == Init /\ [][Next]_<<queue, readable, writable>>
=============================================================================
