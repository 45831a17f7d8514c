------------------------------ MODULE UdpQueue ------------------------------
(***************************************************************************)
(* What recvfrom promises: datagrams come out in the order in which they   *)
(* came in, each with its sender, whole or in consecutive parts; only      *)
(* opening and closing the socket drops any.                               *)
(***************************************************************************)
EXTENDS Integers, Sequences

CONSTANTS Ids, PayloadLens, ReadLens

VARIABLES
  queue,  \* datagrams not read to the end: [id, off, len], off bytes being read
  got     \* what the last read gave: [id, bytes]

Smaller(a, b) == IF a < b THEN a ELSE b

QInit == queue = <<>> /\ got = [id |-> 0, bytes |-> <<>>]

Arrive == \E i \in Ids, n \in PayloadLens :
  queue' = Append(queue, [id |-> i, off |-> 0, len |-> n]) /\ UNCHANGED got

Take == \E want \in ReadLens :
  /\ queue # <<>>
  /\ LET d == Head(queue)
         n == Smaller(want, d.len - d.off)
     IN /\ got' = [id |-> d.id, bytes |-> [k \in 1..n |-> [id |-> d.id, at |-> d.off + k, len |-> 0]]]
        /\ queue' = IF d.off + n = d.len THEN Tail(queue)
                    ELSE [queue EXCEPT ![1].off = @ + n]

Drop == queue' = <<>> /\ UNCHANGED got

QSpec == QInit /\ [][Arrive \/ Take \/ Drop]_<<queue, got>>
=============================================================================
