------------------------------ MODULE MpscFifo ------------------------------
(* What mpsc-queue.h promises, apart from how it is done: a queue whose    *)
(* consumer gets each element once, in the order in which elements were    *)
(* inserted, except for those that it puts back at the front itself.       *)
EXTENDS Sequences

CONSTANTS Node, NULL

VARIABLES fifo,   \* the elements in the queue
          taken   \* the element that the consumer has removed, or NULL

fifoVars == <<fifo, taken>>

Elements == {fifo[i] : i \in DOMAIN fifo}

Init == fifo = <<>> /\ taken = NULL

Insert(n) ==
  /\ n \notin Elements \cup {taken}
  /\ fifo' = Append(fifo, n)
  /\ UNCHANGED taken

Remove ==
  /\ fifo # <<>> /\ taken = NULL
  /\ taken' = Head(fifo)
  /\ fifo' = Tail(fifo)

PushFront ==
  /\ taken # NULL
  /\ fifo' = <<taken>> \o fifo
  /\ taken' = NULL

(* The consumer is done with the element.                                  *)
Free == taken' = NULL /\ UNCHANGED fifo

Next == (\E n \in Node : Insert(n)) \/ Remove \/ PushFront \/ Free

Spec == Init /\ [][Next]_fifoVars
=============================================================================
