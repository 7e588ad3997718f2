---------------------------- MODULE DatagramBytes ----------------------------
(***************************************************************************)
(* The bytes held by a queue of datagrams, found by walking it.  This is   *)
(* what the receive side's counter stands for, and what the limit on the   *)
(* queue is meant to bound.                                                *)
(***************************************************************************)
EXTENDS Integers, Sequences

(* upTo[i] bytes are carried by the first i datagrams of q.                *)
Bytes(q) ==
  LET upTo[i \in 0..Len(q)] ==
        IF i = 0 THEN 0 ELSE upTo[i - 1] + q[i].size
  IN  upTo[Len(q)]

===============================================================================
