----------------------------- MODULE ByteChannel -----------------------------
(***************************************************************************)
(* What a pipe promises: a bounded queue of bytes.  What is written arrives *)
(* in the order it was written in, once, and without gaps; nothing is       *)
(* accepted after the readers are gone once the queue is full.              *)
(***************************************************************************)
EXTENDS Naturals, Sequences

CONSTANTS Capacity, Byte

VARIABLES queue, received, readable, writable

vars == <<queue, received, readable, writable>>

Init == queue = <<>> /\ received = <<>> /\ readable = TRUE /\ writable = TRUE

\* One write, or a part of it.
Accept == \E n \in 1 .. Capacity - Len(queue) : \E s \in [1 .. n -> Byte] :
  /\ writable
  /\ queue' = queue \o s
  /\ UNCHANGED <<received, readable, writable>>

\* One read.
Deliver == \E n \in 1 .. Len(queue) :
  /\ readable
  /\ received' = received \o SubSeq(queue, 1, n)
  /\ queue' = SubSeq(queue, n + 1, Len(queue))
  /\ UNCHANGED <<readable, writable>>

CloseRead == readable /\ readable' = FALSE /\ UNCHANGED <<queue, received, writable>>
CloseWrite == writable /\ writable' = FALSE /\ UNCHANGED <<queue, received, readable>>

Next == Accept \/ Deliver \/ CloseRead \/ CloseWrite

Spec == Init /\ [][Next]_vars
=============================================================================
