------------------------------ MODULE MpscQueue -----------------------------
(* lib/mpsc-queue.c: a lock-free queue with any number of producers and    *)
(* one consumer, the thread that holds read_lock.                          *)
(*                                                                         *)
(* One step is one access to a word that two threads may write, together   *)
(* with what its thread does before the next: queue->tail is only used by  *)
(* the consumer.  Memory is sequentially consistent.                       *)
EXTENDS Integers, Sequences

CONSTANTS
  Producer,
  Consumer,
  Node,       \* the elements of the program
  Stub,       \* &queue->stub
  NULL,
  MaxFront    \* bound: calls of mpsc_queue_push_front()

Thread == Producer \cup {Consumer}
Link == Node \cup {Stub, NULL}

ASSUME ThreadAssumption == Consumer \notin Producer
ASSUME NodeAssumption == Stub \notin Node /\ NULL \notin Node /\ Stub # NULL
ASSUME FrontAssumption == MaxFront \in Nat

VARIABLES
  head, tail,  \* queue->head, queue->tail
  next,        \* node->next
  pc,          \* the next step of each thread
  node, prev,  \* in mpsc_queue_insert(), by thread
  ctail,       \* "tail" in mpsc_queue_poll()
  result,      \* what the last mpsc_queue_poll() returned
  cursor,      \* where MPSC_QUEUE_FOR_EACH is, or NULL
  free,        \* nodes that belong to no thread and are not in the queue
  taken,       \* the node that the consumer got and has not freed, or NULL
  fronts,      \* calls of mpsc_queue_push_front() so far
  (* history *)
  fifo,        \* the elements in the queue, by when they were put in queue->head
  pos,         \* how many of them come before the stub, or -1 if it is not in the queue
  nth,         \* how many elements MPSC_QUEUE_FOR_EACH has come to
  settled      \* those whose insertion was over when mpsc_queue_poll() was called

queueVars == <<head, tail, next>>
insertVars == <<node, prev>>
userVars == <<free, taken, fronts>>
iterVars == <<cursor, nth>>
vars == <<queueVars, pc, insertVars, ctail, result, userVars, iterVars, fifo, pos,
          settled>>

Elements == {fifo[i] : i \in DOMAIN fifo}

Goto(t, label) == pc' = [pc EXCEPT ![t] = label]

-----------------------------------------------------------------------------
(* mpsc_queue_insert(), of an element by a producer or the consumer, and   *)
(* of the stub in mpsc_queue_poll().                                       *)

InsertBegin(t, n) ==
  /\ pc[t] = "idle" /\ n \in free
  /\ free' = free \ {n}
  /\ node' = [node EXCEPT ![t] = n]
  /\ next' = [next EXCEPT ![n] = NULL]
  /\ Goto(t, "exchange")
  /\ UNCHANGED <<head, tail, prev, ctail, result, taken, fronts, iterVars, fifo, pos,
                 settled>>

Exchange(t) ==
  /\ pc[t] = "exchange"
  /\ prev' = [prev EXCEPT ![t] = head]
  /\ head' = node[t]
  /\ IF node[t] = Stub
     THEN pos' = Len(fifo) /\ UNCHANGED fifo
     ELSE fifo' = Append(fifo, node[t]) /\ UNCHANGED pos
  /\ Goto(t, "link")
  /\ UNCHANGED <<tail, next, node, ctail, result, userVars, iterVars, settled>>

LinkElement(t) ==
  /\ pc[t] = "link"
  /\ next' = IF node[t] = Stub THEN next ELSE [next EXCEPT ![prev[t]] = node[t]]
  /\ prev' = [prev EXCEPT ![t] = NULL]
  /\ node' = [node EXCEPT ![t] = NULL]
  /\ Goto(t, IF node[t] = Stub THEN "last" ELSE "idle")
  /\ UNCHANGED <<head, tail, ctail, result, userVars, iterVars, fifo, pos, settled>>

LinkNode(t) ==
  /\ pc[t] = "link"
  /\ next' = [next EXCEPT ![prev[t]] = node[t]]
  /\ prev' = [prev EXCEPT ![t] = NULL]
  /\ node' = [node EXCEPT ![t] = NULL]
  /\ Goto(t, IF node[t] = Stub THEN "last" ELSE "idle")
  /\ UNCHANGED <<head, tail, ctail, result, userVars, iterVars, fifo, pos, settled>>

-----------------------------------------------------------------------------
(* mpsc_queue_poll(), which mpsc_queue_pop() repeats as long as it returns *)
(* MPSC_QUEUE_RETRY.                                                       *)

Return(r) == result' = r /\ Goto(Consumer, "idle")

(* "atomic_store_relaxed(&queue->tail, next)": the element before it is    *)
(* removed.                                                                *)
ReturnItem(n) ==
  /\ Return("ITEM")
  /\ taken' = n
  /\ tail' = next[n]
  /\ fifo' = Tail(fifo)
  /\ pos' = IF pos = -1 THEN -1 ELSE pos - 1

(* The insertion of a node is over when it has been linked.                *)
Settled == Elements \ {node[t] : t \in Thread}

Poll ==
  /\ pc[Consumer] = "idle" /\ taken = NULL
  /\ settled' = Settled
  /\ cursor' = NULL /\ nth' = 0
  /\ \/ /\ tail = Stub /\ next[Stub] = NULL
        /\ Return("EMPTY")
        /\ UNCHANGED <<tail, ctail, taken, fifo, pos>>
     \/ /\ tail = Stub /\ next[Stub] # NULL
        /\ tail' = next[Stub] /\ ctail' = next[Stub]
        /\ pos' = -1
        /\ result' = "none" /\ Goto(Consumer, "read_next")
        /\ UNCHANGED <<taken, fifo>>
     \/ /\ tail # Stub /\ next[tail] # NULL
        /\ ReturnItem(tail)
        /\ UNCHANGED ctail
     \/ /\ tail # Stub /\ next[tail] = NULL
        /\ ctail' = tail
        /\ result' = "none" /\ Goto(Consumer, "read_head")
        /\ UNCHANGED <<tail, taken, fifo, pos>>
  /\ UNCHANGED <<head, next, insertVars, free, fronts>>

(* The first element after the stub.                                       *)
ReadNext ==
  /\ pc[Consumer] = "read_next"
  /\ \/ next[ctail] # NULL /\ ReturnItem(ctail) /\ ctail' = NULL
     \/ /\ next[ctail] = NULL /\ Goto(Consumer, "read_head")
        /\ UNCHANGED <<tail, ctail, result, taken, fifo, pos>>
  /\ UNCHANGED <<head, next, insertVars, free, fronts, iterVars, settled>>

ReadHeadItem ==
  /\ pc[Consumer] = "read_head"
  /\ \/ /\ ctail # head
        /\ Return("ITEM") /\ ctail' = NULL
        /\ taken' = ctail /\ tail' = head
        /\ fifo' = Tail(fifo) /\ pos' = IF pos = -1 THEN -1 ELSE pos - 1
        /\ UNCHANGED <<next, node>>
     \/ /\ ctail = head
        /\ next' = [next EXCEPT ![Stub] = NULL]
        /\ node' = [node EXCEPT ![Consumer] = Stub]
        /\ Goto(Consumer, "exchange")
        /\ UNCHANGED <<tail, result, ctail, taken, fifo, pos>>
  /\ UNCHANGED <<head, prev, free, fronts, iterVars, settled>>

ReadHeadEmpty ==
  /\ pc[Consumer] = "read_head"
  /\ \/ /\ ctail # head
        /\ Return("EMPTY") /\ ctail' = NULL
        /\ UNCHANGED <<next, node>>
     \/ /\ ctail = head
        /\ next' = [next EXCEPT ![Stub] = NULL]
        /\ node' = [node EXCEPT ![Consumer] = Stub]
        /\ Goto(Consumer, "exchange")
        /\ UNCHANGED <<result, ctail>>
  /\ UNCHANGED <<head, tail, prev, userVars, iterVars, fifo, pos, settled>>

(* Either the queue is inconsistent, or "mpsc_queue_insert(queue,          *)
(* &queue->stub)" begins.                                                  *)
ReadHead ==
  /\ pc[Consumer] = "read_head"
  /\ \/ /\ ctail # head
        /\ Return("RETRY") /\ ctail' = NULL
        /\ UNCHANGED <<next, node>>
     \/ /\ ctail = head
        /\ next' = [next EXCEPT ![Stub] = NULL]
        /\ node' = [node EXCEPT ![Consumer] = Stub]
        /\ Goto(Consumer, "exchange")
        /\ UNCHANGED <<result, ctail>>
  /\ UNCHANGED <<head, tail, prev, userVars, iterVars, fifo, pos, settled>>

ReadLastItem ==
  /\ pc[Consumer] = "last"
  /\ ReturnItem(ctail)
  /\ ctail' = NULL
  /\ UNCHANGED <<head, next, insertVars, free, fronts, iterVars, settled>>

(* After the stub was inserted.                                            *)
ReadLast ==
  /\ pc[Consumer] = "last"
  /\ \/ next[ctail] # NULL /\ ReturnItem(ctail)
     \/ next[ctail] = NULL /\ Return("EMPTY") /\ UNCHANGED <<tail, taken, fifo, pos>>
  /\ ctail' = NULL
  /\ UNCHANGED <<head, next, insertVars, free, fronts, iterVars, settled>>

(* The consumer is done with an element.  It may be inserted again.        *)
Free ==
  /\ pc[Consumer] = "idle" /\ taken # NULL
  /\ free' = free \cup {taken}
  /\ taken' = NULL /\ result' = "none"
  /\ UNCHANGED <<queueVars, pc, insertVars, ctail, fronts, iterVars, fifo, pos, settled>>

(* mpsc_queue_push_front()                                                 *)
PushFront ==
  /\ pc[Consumer] = "idle" /\ taken # NULL /\ fronts < MaxFront
  /\ fronts' = fronts + 1
  /\ next' = [next EXCEPT ![taken] = tail]
  /\ tail' = taken
  /\ taken' = NULL /\ result' = "none"
  /\ fifo' = <<taken>> \o fifo
  /\ pos' = IF pos = -1 THEN -1 ELSE pos + 1
  /\ UNCHANGED <<head, pc, insertVars, ctail, free, iterVars, settled>>

-----------------------------------------------------------------------------
(* MPSC_QUEUE_FOR_EACH                                                     *)

(* mpsc_queue_tail()                                                       *)
IterTail ==
  /\ pc[Consumer] = "idle" /\ taken = NULL /\ cursor = NULL
  /\ \/ tail = Stub /\ next[Stub] = NULL /\ UNCHANGED <<tail, iterVars, pos>>
     \/ /\ tail = Stub /\ next[Stub] # NULL
        /\ tail' = next[Stub] /\ pos' = -1
        /\ cursor' = next[Stub] /\ nth' = 1
     \/ tail # Stub /\ cursor' = tail /\ nth' = 1 /\ UNCHANGED <<tail, pos>>
  /\ result' = "none"
  /\ UNCHANGED <<head, next, pc, insertVars, ctail, userVars, fifo, settled>>

CursorAt(n) == cursor' = n /\ nth' = IF n = NULL THEN 0 ELSE nth + 1

IterNextStub ==
  /\ pc[Consumer] = "idle" /\ cursor # NULL
  /\ CursorAt(next[cursor])
  /\ UNCHANGED <<queueVars, pc, insertVars, ctail, result, userVars, fifo, pos, settled>>

(* mpsc_queue_next(), and its second half if it comes to the stub.         *)
IterNext ==
  /\ pc[Consumer] = "idle" /\ cursor # NULL
  /\ IF next[cursor] = Stub
     THEN Goto(Consumer, "iter_stub") /\ UNCHANGED iterVars
     ELSE CursorAt(next[cursor]) /\ UNCHANGED pc
  /\ UNCHANGED <<queueVars, insertVars, ctail, result, userVars, fifo, pos, settled>>

IterStub ==
  /\ pc[Consumer] = "iter_stub"
  /\ CursorAt(next[Stub])
  /\ Goto(Consumer, "idle")
  /\ UNCHANGED <<queueVars, insertVars, ctail, result, userVars, fifo, pos, settled>>

-----------------------------------------------------------------------------
(* mpsc_queue_init()                                                       *)
Init ==
  /\ head = Stub /\ tail = Stub
  /\ next = [n \in Node \cup {Stub} |-> NULL]
  /\ pc = [t \in Thread |-> "idle"]
  /\ node = [t \in Thread |-> NULL] /\ prev = [t \in Thread |-> NULL]
  /\ ctail = NULL /\ result = "none"
  /\ cursor = NULL /\ nth = 0
  /\ free = Node /\ taken = NULL /\ fronts = 0
  /\ fifo = <<>> /\ pos = 0
  /\ settled = {}

Insert(t) == Exchange(t) \/ LinkNode(t)
Consume == Poll \/ ReadNext \/ ReadHead \/ ReadLast \/ Free \/ IterStub

Next ==
  \/ \E t \in Thread : Insert(t) \/ \E n \in Node : InsertBegin(t, n)
  \/ Consume \/ PushFront \/ IterTail \/ IterNext

Spec == Init /\ [][Next]_vars

(* A thread that has begun an insertion or a poll finishes it, and the     *)
(* consumer polls again and again, whatever it does in between and whether *)
(* MPSC_QUEUE_RETRY or MPSC_QUEUE_EMPTY comes back.                        *)
Fairness == /\ \A t \in Thread : WF_vars(Insert(t))
            /\ WF_vars(Consume)
            /\ SF_vars(Poll)

FairSpec == Spec /\ Fairness

-----------------------------------------------------------------------------
(* Properties.                                                             *)

Label == {"idle", "exchange", "link", "read_next", "read_head", "last", "iter_stub"}

(* The values of the variables.  The stub is never handed to the consumer. *)
TypeOK ==
  /\ head \in Node \cup {Stub} /\ tail \in Node \cup {Stub}
  /\ next \in [Node \cup {Stub} -> Link]
  /\ pc \in [Thread -> Label]
  /\ node \in [Thread -> Link] /\ prev \in [Thread -> Link]
  /\ ctail \in Node \cup {NULL}
  /\ result \in {"none", "EMPTY", "ITEM", "RETRY"}
  /\ cursor \in Node \cup {NULL} /\ nth \in Nat
  /\ free \subseteq Node /\ taken \in Node \cup {NULL} /\ fronts \in Nat
  /\ fifo \in Seq(Node) /\ pos \in -1 .. Len(fifo)
  /\ settled \subseteq Node

Q == INSTANCE MpscFifo

(* The consumer gets each element once, and in the order of the exchanges  *)
(* of queue->head: no element is lost, repeated or overtaken.              *)
FifoSpec == Q!Spec

(* No thread is going to write to the "next" of a node that the consumer   *)
(* has got, or that it has freed since, or that is being inserted again.   *)
NoLateLink ==
  \A t \in Thread : pc[t] = "link" => prev[t] \in Elements \cup {Stub}

(* MPSC_QUEUE_FOR_EACH comes to the elements of the queue in their order,  *)
(* whatever is inserted meanwhile, and whether the stub is in between.     *)
IterationInOrder == cursor # NULL => nth \in DOMAIN fifo /\ fifo[nth] = cursor

(* If mpsc_queue_poll() returns MPSC_QUEUE_EMPTY although the insertion of *)
(* an element was over before, then a producer is between the two halves   *)
(* of mpsc_queue_insert().                                                 *)
EmptyUnlessBusy ==
  [][(Poll \/ ReadHead \/ ReadLast) /\ result' = "EMPTY" /\ settled' # {}
       => \E t \in Producer : pc[t] = "link"]_vars

(* Every element that is inserted is removed.                              *)
Delivered == \A n \in Node : n \in Elements ~> n = taken
=============================================================================
