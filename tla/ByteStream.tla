----------------------------- MODULE ByteStream -----------------------------
(***************************************************************************)
(* What the reader of a TCP connection is promised: the bytes come out in  *)
(* the order in which they went in, each of them once. Bytes are numbered  *)
(* 1, 2, ... as they are sent.                                             *)
(***************************************************************************)
EXTENDS Naturals, Sequences

CONSTANT MaxBytes  \* bound: bytes sent over the life of the connection

VARIABLES
  queue,     \* bytes on their way
  delivered  \* bytes the reader has been given

vars == <<queue, delivered>>

Init == queue = <<>> /\ delivered = <<>>

\* The next n bytes are sent.
Send(n) ==
  /\ Len(delivered) + Len(queue) + n <= MaxBytes
  /\ queue' = queue \o [j \in 1 .. n |-> Len(delivered) + Len(queue) + j]
  /\ UNCHANGED delivered

\* The reader is given the n oldest bytes.
Deliver(n) ==
  /\ n <= Len(queue)
  /\ delivered' = delivered \o SubSeq(queue, 1, n)
  /\ queue' = SubSeq(queue, n + 1, Len(queue))

Next == \E n \in 1 .. MaxBytes : Send(n) \/ Deliver(n)

Spec == Init /\ [][Next]_vars
=============================================================================
