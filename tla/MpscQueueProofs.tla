--------------------------- MODULE MpscQueueProofs --------------------------
(***************************************************************************)
(* The queue of module MpscQueue is a FIFO, for any number of producers    *)
(* and elements.                                                           *)
(*                                                                         *)
(* MpscChainProofs states the invariant and proves it for insertions.      *)
(* Here it is proved for the steps of the consumer, and what follows from  *)
(* it.                                                                     *)
(***************************************************************************)
EXTENDS MpscChainProofs

(* How long a prover may take where a proof does not say which one to use. *)
USE SMTT(20), ZenonT(20)

(* The consumer moves and the queue stays as it is.                        *)
LEMMA QuietMove ==
  ASSUME Inv, pc[Consumer] \notin {"exchange", "link"},
         NEW label \in Label \ {"exchange", "link"},
         pc' = [pc EXCEPT ![Consumer] = label],
         UNCHANGED <<queueVars, insertVars, fifo, pos>>
  PROVE  /\ Chained' /\ Inserters' /\ pc' \in [Thread -> Label] /\ pc'[Consumer] = label
         /\ \A n : Outside(n)' <=> Outside(n)
<1>1. TypeOK /\ Chained /\ Inserters
  BY DEF Inv
<1>2. \A n : Outside(n)' <=> Outside(n)
  BY SameOutside
<1>3. SameLinkers /\ pc' \in [Thread -> Label] /\ pc'[Consumer] = label /\ Inserters'
  BY Zenon, <1>1, <1>2, ConsumerMoves DEF queueVars
<1>4. Chained'
  BY <1>1, <1>3, SameChain DEF queueVars
<1> QED
  BY <1>2, <1>3, <1>4

(* A consumer that is idle is in no insertion.                             *)
LEMMA IdleConsumer ==
  ASSUME Inv, pc[Consumer] \notin {"exchange", "link"}
  PROVE  node[Consumer] = NULL /\ node[Consumer] # Stub
BY NodeAssumption DEF Inv, Inserters, Thread

(* What follows an element of the queue.                                   *)
LEMMA NextElement ==
  ASSUME TypeOK, Chained, NEW i \in DOMAIN fifo, next[fifo[i]] # NULL
  PROVE  /\ next[fifo[i]] = Stub => pos = i
         /\ next[fifo[i]] # Stub => i + 1 \in DOMAIN fifo /\ next[fifo[i]] = fifo[i + 1]
<1>1. N \in Nat /\ fifo \in Seq(Node) /\ pos \in -1 .. Len(fifo)
  BY ChainElem DEF N, TypeOK
<1> DEFINE k == IF pos = -1 \/ i <= pos THEN i ELSE i + 1
<1>2. k \in 1 .. N /\ C(k) = fifo[i]
  BY SMTT(60), <1>1 DEF N, C, ChainLen, ChainAt
<1>3. k # N
  BY <1>2 DEF Chained, Ends
<1>4. k \in 1 .. N - 1
  BY <1>1, <1>2, <1>3
<1> HIDE DEF k
<1>5. next[fifo[i]] = C(k + 1)
  BY <1>2, <1>4 DEF Chained, Links
<1> USE DEF k
<1>6. CASE pos = i
  <2>1. C(k + 1) = Stub
    BY <1>1, <1>6 DEF C, ChainAt
  <2> QED
    BY <1>5, <1>6, <2>1
<1>7. CASE pos # i
  <2>1. i + 1 \in DOMAIN fifo /\ C(k + 1) = fifo[i + 1] /\ fifo[i + 1] \in Node
    BY SMTT(60), <1>1, <1>4, <1>7 DEF N, C, ChainLen, ChainAt
  <2> QED
    BY <1>5, <2>1, NodeAssumption
<1> QED
  BY Zenon, <1>6, <1>7

(* What follows the stub.                                                  *)
LEMMA NextOfStub ==
  ASSUME TypeOK, Chained, pos # -1, next[Stub] # NULL
  PROVE  pos + 1 \in DOMAIN fifo /\ next[Stub] = fifo[pos + 1] /\ next[Stub] \in Node
<1>1. N \in Nat /\ fifo \in Seq(Node) /\ pos \in -1 .. Len(fifo)
  BY Zenon, ChainElem DEF N, TypeOK
<1>2. pos + 1 \in 1 .. N /\ C(pos + 1) = Stub
  BY <1>1 DEF N, C, ChainLen, ChainAt
<1>3. pos + 1 # N
  BY <1>2 DEF Chained, Ends
<1>4. pos + 1 \in 1 .. N - 1 /\ (pos + 1) + 1 = pos + 2
  BY <1>1, <1>2, <1>3
<1>5. next[Stub] = C(pos + 2)
  BY Zenon, <1>2, <1>4 DEF Chained, Links
<1>6. pos + 1 \in DOMAIN fifo /\ C(pos + 2) = fifo[pos + 1]
  BY <1>1, <1>4 DEF N, C, ChainLen, ChainAt
<1> QED
  BY <1>1, <1>5, <1>6

(* Poll()                                                                  *)
LEMMA PollInv ==
  ASSUME Inv, Poll
  PROVE  Inv'
<1>1. /\ TypeOK /\ Chained /\ Inserters /\ Owners /\ Poller /\ Iterator
      /\ pc[Consumer] = "idle" /\ taken = NULL /\ cursor' = NULL /\ nth' = 0
      /\ UNCHANGED <<head, next, insertVars, free, fronts>>
  BY Zenon DEF Inv, Poll
<1>2. settled' \subseteq Node
  <2>1. fifo \in Seq(Node)
    BY <1>1 DEF TypeOK
  <2> QED
    BY SMTT(60), <2>1 DEF Poll, Settled, Elements
<1>3. node[Consumer] = NULL /\ node[Consumer] # Stub
  BY <1>1, IdleConsumer
<1>4. Iterator'
  <2>1. pc'[Consumer] # "iter_stub"
    BY Zenon, <1>1 DEF Poll, Return, ReturnItem, Goto, TypeOK, Thread
  <2> QED
    BY <1>1, <2>1 DEF Iterator
<1>5. CASE /\ Return("EMPTY") /\ UNCHANGED <<tail, ctail, taken, fifo, pos>>
  <2>1. "idle" \in Label \ {"exchange", "link"} /\ pc' = [pc EXCEPT ![Consumer] = "idle"]
    BY <1>5 DEF Label, Return, Goto
  <2>2. /\ Chained' /\ Inserters' /\ pc' \in [Thread -> Label] /\ pc'[Consumer] = "idle"
        /\ \A n : Outside(n)' <=> Outside(n)
    BY Zenon, <1>1, <1>5, <2>1, QuietMove DEF queueVars
  <2>3. TypeOK'
    BY <1>1, <1>2, <1>5, <2>2 DEF TypeOK, Return, insertVars
  <2>4. Owners' /\ Poller'
    BY Zenon, <1>1, <1>3, <1>5, <2>2 DEF Owners, Poller, Polling, insertVars
  <2> QED
    BY <1>4, <2>2, <2>3, <2>4 DEF Inv
<1>6. CASE /\ tail = Stub /\ next[Stub] # NULL
           /\ tail' = next[Stub] /\ ctail' = next[Stub]
           /\ pos' = -1
           /\ result' = "none" /\ Goto(Consumer, "read_next")
           /\ UNCHANGED <<taken, fifo>>
  <2>1. /\ "read_next" \in Label \ {"exchange", "link"}
        /\ pc' = [pc EXCEPT ![Consumer] = "read_next"]
    BY <1>6 DEF Label, Goto
  <2>2. SameLinkers /\ pc' \in [Thread -> Label] /\ pc'[Consumer] = "read_next"
    BY Zenon, <1>1, <2>1, ConsumerMoves
  <2>3. Chained' /\ tail' \in Node /\ \A n : Outside(n) => Outside(n)'
    BY <1>1, <1>6, <2>2, SkipStub
  <2>4. Inserters'
    BY Zenon, <1>1, <2>1, <2>3, ConsumerMoves
  <2>5. -1 \in -1 .. Len(fifo)
    BY <1>1 DEF TypeOK
  <2>6. TypeOK'
    BY Zenon, <1>1, <1>2, <1>6, <2>2, <2>3, <2>5 DEF TypeOK, insertVars
  <2>7. Owners' /\ Poller'
    BY Zenon, <1>1, <1>3, <1>6, <2>2, <2>3, NodeAssumption DEF Owners, Poller, Polling, insertVars
  <2> QED
    BY <1>4, <2>3, <2>4, <2>6, <2>7 DEF Inv
<1>7. CASE /\ tail # Stub /\ next[tail] # NULL
           /\ ReturnItem(tail)
           /\ UNCHANGED ctail
  <2>1. ctail' \in Node \cup {NULL} /\ nth' \in Nat
    BY <1>1, <1>7 DEF TypeOK
  <2> QED
    BY <1>1, <1>2, <1>7, <2>1, ReturnItemInv
<1>8. CASE /\ tail # Stub /\ next[tail] = NULL
           /\ ctail' = tail
           /\ result' = "none" /\ Goto(Consumer, "read_head")
           /\ UNCHANGED <<tail, taken, fifo, pos>>
  <2>1. /\ "read_head" \in Label \ {"exchange", "link"}
        /\ pc' = [pc EXCEPT ![Consumer] = "read_head"]
    BY <1>8 DEF Label, Goto
  <2>2. /\ Chained' /\ Inserters' /\ pc' \in [Thread -> Label] /\ pc'[Consumer] = "read_head"
        /\ \A n : Outside(n)' <=> Outside(n)
    BY Zenon, <1>1, <1>8, <2>1, QuietMove DEF queueVars
  <2>3. TypeOK'
    BY Zenon, <1>1, <1>2, <1>8, <2>2 DEF TypeOK, insertVars
  <2>4. Owners' /\ Poller'
    BY Zenon, <1>1, <1>3, <1>8, <2>2 DEF Owners, Poller, Polling, insertVars
  <2> QED
    BY <1>4, <2>2, <2>3, <2>4 DEF Inv
<1> QED
  BY Zenon, <1>5, <1>6, <1>7, <1>8 DEF Poll

(* ReadNext()                                                              *)
LEMMA ReadNextInv ==
  ASSUME Inv, ReadNext
  PROVE  Inv'
<1>1. /\ TypeOK /\ Chained /\ Inserters /\ Owners /\ Poller /\ Iterator
      /\ pc[Consumer] = "read_next"
      /\ UNCHANGED <<head, next, insertVars, free, fronts, iterVars, settled>>
  BY Zenon DEF Inv, ReadNext
<1>2. ctail = tail /\ ctail # Stub /\ taken = NULL /\ cursor = NULL /\ result = "none"
  BY <1>1 DEF Poller, Polling
<1>3. CASE next[ctail] # NULL /\ ReturnItem(ctail) /\ ctail' = NULL
  <2>1. cursor' = NULL /\ nth' \in Nat /\ settled' \subseteq Node
    BY <1>1, <1>2 DEF TypeOK, iterVars
  <2> QED
    BY <1>1, <1>2, <1>3, <2>1, ReturnItemInv
<1>4. CASE /\ next[ctail] = NULL /\ Goto(Consumer, "read_head")
           /\ UNCHANGED <<tail, ctail, result, taken, fifo, pos>>
  <2>1. /\ "read_head" \in Label \ {"exchange", "link"}
        /\ pc' = [pc EXCEPT ![Consumer] = "read_head"]
    BY <1>4 DEF Label, Goto
  <2>2. /\ Chained' /\ Inserters' /\ pc' \in [Thread -> Label] /\ pc'[Consumer] = "read_head"
        /\ \A n : Outside(n)' <=> Outside(n)
    BY Zenon, <1>1, <1>4, <2>1, QuietMove DEF queueVars
  <2>3. TypeOK'
    BY Zenon, <1>1, <1>4, <2>2 DEF TypeOK, insertVars, iterVars
  <2>4. Owners' /\ Poller' /\ Iterator'
    BY Zenon, <1>1, <1>2, <1>4, <2>2 DEF Owners, Poller, Iterator, insertVars, iterVars
  <2> QED
    BY <2>2, <2>3, <2>4 DEF Inv
<1> QED
  BY Zenon, <1>3, <1>4 DEF ReadNext

(* ReadHead(): the stub is inserted only when it is not in the queue.      *)
LEMMA ReadHeadInv ==
  ASSUME Inv, ReadHead
  PROVE  Inv'
<1>1. /\ TypeOK /\ Chained /\ Inserters /\ Owners /\ Poller /\ Iterator
      /\ pc[Consumer] = "read_head"
      /\ UNCHANGED <<head, tail, prev, userVars, iterVars, fifo, pos, settled>>
  BY Zenon DEF Inv, ReadHead
<1>2. ctail = tail /\ ctail # Stub /\ taken = NULL /\ cursor = NULL /\ result = "none"
  BY <1>1 DEF Poller, Polling
<1>3. CASE ctail # head /\ Return("RETRY") /\ ctail' = NULL /\ UNCHANGED <<next, node>>
  <2>1. "idle" \in Label \ {"exchange", "link"} /\ pc' = [pc EXCEPT ![Consumer] = "idle"]
    BY <1>3 DEF Label, Return, Goto
  <2>2. /\ Chained' /\ Inserters' /\ pc' \in [Thread -> Label] /\ pc'[Consumer] = "idle"
        /\ \A n : Outside(n)' <=> Outside(n)
    BY Zenon, <1>1, <1>3, <2>1, QuietMove DEF queueVars, insertVars
  <2>3. TypeOK'
    BY Zenon, <1>1, <1>3, <2>2 DEF TypeOK, Return, iterVars, userVars
  <2>4. node[Consumer] # Stub
    BY <1>1, IdleConsumer
  <2>5. Owners' /\ Poller' /\ Iterator'
    BY Zenon, <1>1, <1>2, <1>3, <2>2, <2>4
    DEF Owners, Poller, Polling, Iterator, iterVars, userVars
  <2> QED
    BY <2>2, <2>3, <2>5 DEF Inv
<1>4. CASE /\ ctail = head
           /\ next' = [next EXCEPT ![Stub] = NULL]
           /\ node' = [node EXCEPT ![Consumer] = Stub]
           /\ Goto(Consumer, "exchange")
           /\ UNCHANGED <<result, ctail>>
  <2>1. \A u \in Thread : /\ pc'[u] = (IF u = Consumer THEN "exchange" ELSE pc[u])
                          /\ node'[u] = (IF u = Consumer THEN Stub ELSE node[u])
    BY Zenon, <1>1, <1>4 DEF TypeOK, Goto
  <2>2. N = 1 /\ C(1) # Stub
    <3>1. N \in Nat /\ N >= 1 /\ C(1) = C(N) /\ C(1) # Stub
      BY Zenon, <1>1, <1>2, <1>4, ChainElem DEF Chained, Ends, N, TypeOK
    <3> QED
      BY <1>1, <3>1 DEF Chained, Distinct
  <2>3. Outside(Stub) /\ Stub \in Elem
    BY <2>2 DEF Outside, Elem
  <2>4. SameLinkers
    BY Zenon, <1>1, <2>1 DEF SameLinkers
  <2>5. Chained'
    BY Zenon, <1>1, <1>4, <2>3, <2>4, ClearOutside
  <2>6. \A n : Outside(n)' <=> Outside(n)
    BY <1>1, SameOutside
  <2>7. TypeOK'
    BY Zenon, <1>1, <1>4 DEF TypeOK, Goto, Label, Link, iterVars, userVars
  <2>8. Inserters'
    <3>1. \A u \in Thread : node[u] # Stub
      BY Zenon, <1>1, IdleConsumer DEF Inserters
    <3>2. next'[Stub] = NULL /\ \A u \in Thread : node[u] # NULL => next'[node[u]] = next[node[u]]
      BY <1>1, <1>4, <3>1 DEF TypeOK, Link
    <3> QED
      BY SMTT(60), <1>1, <2>1, <2>3, <2>6, <3>1, <3>2, NodeAssumption DEF Inserters
  <2>9. Owners'
    <3>1. Stub \notin free \cup {taken}
      BY <1>1, <1>2, NodeAssumption DEF TypeOK
    <3>2. free' = free /\ taken' = taken
      BY Zenon, <1>1 DEF userVars
    <3>3. ASSUME NEW n \in free \cup {taken}, n # NULL, NEW u \in Thread
          PROVE  node'[u] # n
      BY Zenon, <1>1, <2>1, <3>1, <3>3 DEF Owners
    <3> QED
      BY Zenon, <1>1, <2>6, <3>2, <3>3 DEF Owners
  <2>10. Poller' /\ Iterator'
    BY Zenon, <1>1, <1>2, <1>4, <2>1 DEF Poller, Iterator, iterVars, userVars, Thread
  <2> QED
    BY <2>5, <2>7, <2>8, <2>9, <2>10 DEF Inv
<1> QED
  BY Zenon, <1>3, <1>4 DEF ReadHead

(* ReadLast()                                                              *)
LEMMA ReadLastInv ==
  ASSUME Inv, ReadLast
  PROVE  Inv'
<1>1. /\ TypeOK /\ Chained /\ Inserters /\ Owners /\ Poller /\ Iterator
      /\ pc[Consumer] = "last" /\ ctail' = NULL
      /\ UNCHANGED <<head, next, insertVars, free, fronts, iterVars, settled>>
  BY DEF Inv, ReadLast
<1>2. ctail = tail /\ ctail # Stub /\ taken = NULL /\ cursor = NULL
  BY <1>1 DEF Poller, Polling
<1>3. CASE next[ctail] # NULL /\ ReturnItem(ctail)
  <2>1. cursor' = NULL /\ nth' \in Nat /\ settled' \subseteq Node
    BY <1>1, <1>2 DEF TypeOK, iterVars
  <2> QED
    BY <1>1, <1>2, <1>3, <2>1, ReturnItemInv
<1>4. CASE next[ctail] = NULL /\ Return("EMPTY") /\ UNCHANGED <<tail, taken, fifo, pos>>
  <2>1. "idle" \in Label \ {"exchange", "link"} /\ pc' = [pc EXCEPT ![Consumer] = "idle"]
    BY <1>4 DEF Label, Return, Goto
  <2>2. /\ Chained' /\ Inserters' /\ pc' \in [Thread -> Label] /\ pc'[Consumer] = "idle"
        /\ \A n : Outside(n)' <=> Outside(n)
    BY Zenon, <1>1, <1>4, <2>1, QuietMove DEF queueVars
  <2>3. TypeOK'
    BY Zenon, <1>1, <1>4, <2>2 DEF TypeOK, Return, insertVars, iterVars
  <2>4. node[Consumer] # Stub
    BY <1>1, IdleConsumer
  <2>5. Owners' /\ Poller' /\ Iterator'
    BY Zenon, <1>1, <1>2, <1>4, <2>2, <2>4
    DEF Owners, Poller, Polling, Iterator, insertVars, iterVars
  <2> QED
    BY <2>2, <2>3, <2>5 DEF Inv
<1> QED
  BY <1>3, <1>4 DEF ReadLast

(* Free()                                                                  *)
LEMMA FreeInv ==
  ASSUME Inv, Free
  PROVE  Inv'
<1>1. /\ TypeOK /\ Chained /\ Inserters /\ Owners /\ Poller /\ Iterator
      /\ pc[Consumer] = "idle" /\ taken # NULL
  BY DEF Inv, Free
<1>2. "idle" \in Label \ {"exchange", "link"} /\ pc' = [pc EXCEPT ![Consumer] = "idle"]
  BY <1>1 DEF Label, Free, TypeOK
<1>3. /\ Chained' /\ Inserters' /\ pc' \in [Thread -> Label] /\ pc'[Consumer] = "idle"
      /\ \A n : Outside(n)' <=> Outside(n)
  BY Zenon, <1>1, <1>2, QuietMove DEF Free
<1>4. TypeOK'
  BY Zenon, <1>1, <1>3 DEF TypeOK, Free, queueVars, insertVars, iterVars
<1>5. Owners'
  <2>1. Outside(NULL) /\ NULL \notin free'
    BY Zenon, <1>1, NullOutside, NodeAssumption DEF TypeOK, Free
  <2> QED
    BY Zenon, <1>1, <1>3, <2>1 DEF Owners, Free, insertVars
<1>6. node[Consumer] # Stub
  BY <1>1, IdleConsumer
<1>7. Poller' /\ Iterator'
  BY Zenon, <1>1, <1>3, <1>6 DEF Poller, Polling, Iterator, Free, insertVars, iterVars, queueVars
<1> QED
  BY <1>3, <1>4, <1>5, <1>7 DEF Inv

(* PushFront() puts an element that the consumer has back.                 *)
LEMMA PushFrontInv ==
  ASSUME Inv, PushFront
  PROVE  Inv'
<1>1. /\ TypeOK /\ Chained /\ Inserters /\ Owners /\ Poller /\ Iterator
      /\ pc[Consumer] = "idle" /\ taken # NULL /\ taken \in Node
      /\ UNCHANGED <<head, pc, insertVars, ctail, free, iterVars, settled>>
  BY Zenon DEF Inv, PushFront, TypeOK
<1>2. Outside(taken) /\ taken \notin free /\ \A u \in Thread : node[u] # taken
  BY <1>1 DEF Owners
<1>3. fifo \in Seq(Node) /\ pos \in -1 .. Len(fifo)
  BY <1>1 DEF TypeOK
<1>4. /\ fifo' \in Seq(Node) /\ pos' \in -1 .. Len(fifo')
      /\ ChainLen(fifo', pos') = N + 1
      /\ ChainAt(fifo', pos', 1) = taken
      /\ \A k \in 1 .. N : ChainAt(fifo', pos', k + 1) = C(k)
  BY Zenon, <1>1, <1>3, ChainCons DEF N, C, PushFront
<1>5. SameLinkers
  BY <1>1 DEF SameLinkers, insertVars
<1>6. Chained' /\ \A o : Outside(o) /\ o # taken => Outside(o)'
  BY Zenon, <1>1, <1>2, <1>4, <1>5, PrependChain DEF PushFront
<1>7. TypeOK'
  BY SMTT(60), <1>1, <1>4 DEF TypeOK, PushFront, insertVars, iterVars, Link
<1>8. Inserters'
  <2>1. \A u \in Thread : node[u] # NULL => next'[node[u]] = next[node[u]]
    BY Zenon, <1>1, <1>2 DEF TypeOK, Link, PushFront
  <2> QED
    BY Zenon, <1>1, <1>2, <1>6, <2>1 DEF Inserters, insertVars
<1>9. Owners'
  <2>1. Outside(NULL) /\ NULL \notin free
    BY Zenon, <1>1, NullOutside, NodeAssumption DEF TypeOK
  <2> QED
    BY Zenon, <1>1, <1>2, <1>6, <2>1 DEF Owners, PushFront, insertVars
<1>10. node[Consumer] # Stub
  BY Zenon, <1>1, IdleConsumer
<1>11. Poller' /\ Iterator'
  BY Zenon, <1>1, <1>10 DEF Poller, Polling, Iterator, insertVars, iterVars
<1> QED
  BY <1>6, <1>7, <1>8, <1>9, <1>11 DEF Inv

(* IterTail()                                                              *)
LEMMA IterTailInv ==
  ASSUME Inv, IterTail
  PROVE  Inv'
<1>1. /\ TypeOK /\ Chained /\ Inserters /\ Owners /\ Poller /\ Iterator
      /\ pc[Consumer] = "idle" /\ taken = NULL /\ result' = "none"
      /\ UNCHANGED <<head, next, pc, insertVars, ctail, userVars, fifo, settled>>
  BY Zenon DEF Inv, IterTail
<1>2. "idle" \in Label \ {"exchange", "link"} /\ pc' = [pc EXCEPT ![Consumer] = "idle"]
  BY <1>1 DEF Label, TypeOK
<1>3. node[Consumer] # Stub /\ fifo \in Seq(Node)
  BY <1>1, IdleConsumer DEF TypeOK
<1>4. CASE /\ UNCHANGED <<tail, pos>>
           /\ UNCHANGED iterVars \/ (tail # Stub /\ cursor' = tail /\ nth' = 1)
  <2>1. /\ Chained' /\ Inserters' /\ \A n : Outside(n)' <=> Outside(n)
    BY Zenon, <1>1, <1>2, <1>4, QuietMove DEF queueVars
  <2>2. tail # Stub => fifo # <<>> /\ tail = fifo[1] /\ tail \in Node
    BY <1>1, FirstElement
  <2>3. TypeOK'
    BY SMTT(60), <1>1, <1>4, <2>2 DEF TypeOK, insertVars, userVars, iterVars
  <2>4. Owners' /\ Poller'
    BY Zenon, <1>1, <1>3, <2>1 DEF Owners, Poller, Polling, insertVars, userVars
  <2>5. Iterator'
    BY SMTT(60), <1>1, <1>3, <1>4, <2>2 DEF Iterator, userVars, iterVars
  <2> QED
    BY <2>1, <2>3, <2>4, <2>5 DEF Inv
<1>5. CASE /\ tail = Stub /\ next[Stub] # NULL
           /\ tail' = next[Stub] /\ pos' = -1
           /\ cursor' = next[Stub] /\ nth' = 1
  <2>1. SameLinkers
    BY Zenon, <1>1, <1>2, ConsumerMoves
  <2>2. /\ Chained' /\ fifo # <<>> /\ tail' = fifo[1] /\ tail' \in Node
        /\ \A n : Outside(n) => Outside(n)'
    BY <1>1, <1>5, <2>1, SkipStub
  <2>3. Inserters'
    BY Zenon, <1>1, <1>2, <2>2, ConsumerMoves
  <2>4. -1 \in -1 .. Len(fifo)
    BY <1>3
  <2>5. TypeOK'
    BY Zenon, <1>1, <1>5, <2>2, <2>4 DEF TypeOK, insertVars, userVars
  <2>6. Owners' /\ Poller'
    BY Zenon, <1>1, <1>3, <2>2 DEF Owners, Poller, Polling, insertVars, userVars
  <2>7. Iterator'
    <3>1. 1 \in DOMAIN fifo
      BY <1>3, <2>2
    <3>2. nth' \in DOMAIN fifo' /\ fifo'[nth'] = cursor' /\ taken' = NULL
      BY Zenon, <1>1, <1>5, <2>2, <3>1 DEF userVars
    <3>3. pc'[Consumer] # "iter_stub"
      BY <1>1
    <3> QED
      BY Zenon, <3>2, <3>3 DEF Iterator
  <2> QED
    BY <2>2, <2>3, <2>5, <2>6, <2>7 DEF Inv
<1>6. \/ tail = Stub /\ next[Stub] = NULL /\ UNCHANGED <<tail, iterVars, pos>>
      \/ /\ tail = Stub /\ next[Stub] # NULL
         /\ tail' = next[Stub] /\ pos' = -1
         /\ cursor' = next[Stub] /\ nth' = 1
      \/ tail # Stub /\ cursor' = tail /\ nth' = 1 /\ UNCHANGED <<tail, pos>>
  BY Zenon DEF IterTail
<1> QED
  BY <1>4, <1>5, <1>6

(* IterNext() and IterStub(), which change no more than the cursor.        *)
LEMMA IterNextInv ==
  ASSUME Inv, IterNext \/ IterStub
  PROVE  Inv'
<1>1. /\ TypeOK /\ Chained /\ Inserters /\ Owners /\ Poller /\ Iterator
      /\ pc[Consumer] \in {"idle", "iter_stub"}
      /\ UNCHANGED <<queueVars, insertVars, ctail, result, userVars, fifo, pos, settled>>
  BY Zenon DEF Inv, IterNext, IterStub
<1>2. /\ cursor # NULL /\ cursor \in Node
      /\ nth \in DOMAIN fifo /\ fifo[nth] = cursor /\ taken = NULL
  BY Zenon, <1>1 DEF Iterator, TypeOK, IterNext, IterStub
<1>3. PICK label \in {"idle", "iter_stub"} : pc' = [pc EXCEPT ![Consumer] = label]
  <2>1. CASE IterNext /\ next[cursor] = Stub
    BY <2>1 DEF IterNext, Goto
  <2>2. CASE IterNext /\ next[cursor] # Stub
    <3>1. pc' = [pc EXCEPT ![Consumer] = "idle"]
      BY Zenon, <1>1, <2>2 DEF IterNext, TypeOK
    <3> QED
      BY <3>1
  <2>3. CASE IterStub
    BY <2>3 DEF IterStub, Goto
  <2> QED
    BY <2>1, <2>2, <2>3
<1>4. /\ Chained' /\ Inserters' /\ pc' \in [Thread -> Label] /\ pc'[Consumer] = label
      /\ \A n : Outside(n)' <=> Outside(n)
  <2>1. label \in Label \ {"exchange", "link"}
    BY <1>3 DEF Label
  <2> QED
    BY Zenon, <1>1, <1>3, <2>1, QuietMove
<1>5. /\ cursor' # NULL => /\ cursor' \in Node /\ nth' \in DOMAIN fifo /\ fifo[nth'] = cursor'
      /\ nth' \in Nat
      /\ label = "iter_stub" => cursor' # NULL /\ pos = nth'
  <2>1. fifo \in Seq(Node) /\ nth \in Nat
    BY <1>1 DEF TypeOK
  <2>2. CASE IterNext /\ next[cursor] = Stub
    <3>1. pos = nth
      BY Zenon, <1>1, <1>2, <2>2, NextElement, NodeAssumption
    <3> QED
      BY Zenon, <1>2, <2>1, <2>2, <3>1 DEF IterNext, iterVars
  <2>3. CASE IterNext /\ next[cursor] # Stub
    <3>1. next[cursor] # NULL => nth + 1 \in DOMAIN fifo /\ next[cursor] = fifo[nth + 1]
      BY Zenon, <1>1, <1>2, <2>3, NextElement
    <3>2. cursor' = next[cursor] /\ nth' = (IF next[cursor] = NULL THEN 0 ELSE nth + 1)
      BY Zenon, <2>3 DEF IterNext, CursorAt
    <3>3. label = "idle"
      BY Zenon, <1>1, <1>4, <2>3 DEF IterNext
    <3> QED
      BY <2>1, <3>1, <3>2, <3>3
  <2>4. CASE IterStub
    <3>1. pos = nth /\ pos # -1
      BY <1>1, <2>1, <2>4 DEF Iterator, IterStub
    <3>2. next[Stub] # NULL => nth + 1 \in DOMAIN fifo /\ next[Stub] = fifo[nth + 1]
      BY Zenon, <1>1, <3>1, NextOfStub
    <3>3. cursor' = next[Stub] /\ nth' = (IF next[Stub] = NULL THEN 0 ELSE nth + 1)
      BY <2>4 DEF IterStub, CursorAt
    <3>4. label = "idle"
      BY Zenon, <1>1, <1>4, <2>4 DEF IterStub, Goto, TypeOK, Thread
    <3> QED
      BY <2>1, <3>2, <3>3, <3>4
  <2> QED
    BY <2>2, <2>3, <2>4
<1>6. TypeOK'
  BY Zenon, <1>1, <1>4, <1>5 DEF TypeOK, queueVars, insertVars, userVars
<1>7. node[Consumer] # Stub
  BY <1>1, IdleConsumer
<1>8. Owners' /\ Poller'
  BY Zenon, <1>1, <1>3, <1>4, <1>7 DEF Owners, Poller, Polling, insertVars, userVars
<1>9. Iterator'
  BY <1>1, <1>2, <1>4, <1>5 DEF Iterator, userVars
<1> QED
  BY <1>4, <1>6, <1>8, <1>9 DEF Inv
-----------------------------------------------------------------------------
(* The theorems.                                                           *)

(* mpsc_queue_init() makes a chain that consists of the stub.              *)
LEMMA InitInv ==
  ASSUME Init
  PROVE  Inv
<1>1. fifo = <<>> /\ pos = 0 /\ N = 1 /\ C(1) = Stub
  BY DEF Init, N, C, ChainLen, ChainAt
<1>2. \A k \in 1 .. N : k = 1
  BY <1>1
<1>3. TypeOK
  <2>1. <<>> \in Seq(Node) /\ 0 \in -1 .. Len(<<>>)
    OBVIOUS
  <2> QED
    BY <2>1 DEF Init, TypeOK, Link, Label
<1>4. Chained
  <2>1. Ends /\ Distinct
    BY <1>1, <1>2 DEF Init, Ends, Distinct
  <2>2. Links /\ Linkers
    BY SMTT(60), <1>1 DEF Init, Links, Linkers
  <2> QED
    BY <2>1, <2>2 DEF Chained
<1>5. Inserters
  BY NodeAssumption DEF Init, Inserters
<1>6. Owners
  BY <1>1, <1>2, NodeAssumption DEF Init, Owners, Outside
<1>7. Poller /\ Iterator
  BY Zenon, NodeAssumption DEF Init, Poller, Polling, Iterator, Thread
<1> QED
  BY <1>3, <1>4, <1>5, <1>6, <1>7 DEF Inv

(* Every step of every thread preserves the invariant.                     *)
LEMMA NextInv ==
  ASSUME Inv, [Next]_vars
  PROVE  Inv'
<1>1. CASE UNCHANGED vars
  <2>1. /\ UNCHANGED <<queueVars, pc, node, prev, ctail, result, free, taken, fronts>>
        /\ UNCHANGED <<cursor, nth, fifo, pos, settled>>
    BY <1>1 DEF vars, insertVars, userVars, iterVars
  <2>2. \A n : Outside(n)' <=> Outside(n)
    BY <2>1, SameOutside
  <2>3. SameLinkers
    BY <2>1 DEF SameLinkers
  <2>4. Chained'
    BY <2>1, <2>3, SameChain DEF Inv, queueVars
  <2>5. TypeOK'
    BY Zenon, <2>1 DEF Inv, TypeOK, queueVars
  <2>6. Inserters'
    BY Zenon, <2>1, <2>2 DEF Inv, Inserters, queueVars
  <2>7. Owners'
    BY Zenon, <2>1, <2>2 DEF Inv, Owners
  <2>8. Poller' /\ Iterator'
    BY Zenon, <2>1 DEF Inv, Poller, Polling, Iterator, queueVars
  <2> QED
    BY <2>4, <2>5, <2>6, <2>7, <2>8 DEF Inv
<1>2. CASE Next
  <2>1. ASSUME NEW t \in Thread, Insert(t) PROVE Inv'
    BY <2>1, ExchangeInv, LinkNodeInv DEF Insert
  <2>2. ASSUME NEW t \in Thread, NEW n \in Node, InsertBegin(t, n) PROVE Inv'
    BY <2>2, InsertBeginInv
  <2>3. CASE Consume
    BY <2>3, PollInv, ReadNextInv, ReadHeadInv, ReadLastInv, FreeInv, IterNextInv DEF Consume
  <2>4. CASE PushFront \/ IterTail \/ IterNext
    BY <2>4, PushFrontInv, IterTailInv, IterNextInv
  <2> QED
    BY <1>2, <2>1, <2>2, <2>3, <2>4 DEF Next
<1> QED
  BY <1>1, <1>2

(* The queue is a chain of the elements inserted and not yet removed, with *)
(* one gap for each insertion between its two halves, and no node is in    *)
(* two hands.                                                              *)
THEOREM ChainInvariant == Spec => []Inv
<1>1. Init => Inv
  BY InitInv
<1>2. Inv /\ [Next]_vars => Inv'
  BY NextInv
<1> QED
  BY <1>1, <1>2, PTL DEF Spec

(* Every variable has its type: queue->tail, in particular, never becomes  *)
(* NULL.                                                                   *)
THEOREM TypeCorrect == Spec => []TypeOK
<1>1. Inv => TypeOK
  BY DEF Inv
<1> QED
  BY <1>1, ChainInvariant, PTL

(* A producer's second write, to prev->next, never goes to a node that the *)
(* consumer has removed.                                                   *)
THEOREM LinksInTime == Spec => []NoLateLink
<1>1. Inv => NoLateLink
  <2> SUFFICES ASSUME Inv, NEW t \in Thread, pc[t] = "link"
               PROVE  prev[t] \in Elements \cup {Stub}
    BY Zenon DEF NoLateLink
  <2>1. TypeOK /\ N \in Nat /\ \A k \in 1 .. N : C(k) \in Elem
    BY Zenon, ChainElem DEF Inv, N, C, TypeOK
  <2>2. PICK k \in 1 .. N - 1 : prev[t] = C(k)
    BY DEF Inv, Chained, Linkers
  <2>3. k \in 1 .. N
    BY <2>1
  <2>4. ~Outside(prev[t]) /\ prev[t] \in Elem
    BY Zenon, <2>1, <2>2, <2>3 DEF Outside
  <2> QED
    BY Zenon, <2>1, <2>4, StubPlace DEF Elem
<1> QED
  BY <1>1, ChainInvariant, PTL

(* MPSC_QUEUE_FOR_EACH comes to the elements in their order, whatever the  *)
(* producers do meanwhile.                                                 *)
THEOREM IteratesInOrder == Spec => []IterationInOrder
<1>1. Inv => IterationInOrder
  BY DEF Inv, Iterator, IterationInOrder
<1> QED
  BY <1>1, ChainInvariant, PTL

(* If the queue has elements and nothing is linked to the first node, then *)
(* a producer is between the two halves of an insertion.                   *)
LEMMA BrokenChain ==
  ASSUME Inv, next[tail] = NULL, N # 1, pc[Consumer] # "link"
  PROVE  \E t \in Producer : pc[t] = "link"
<1>1. N \in Nat /\ N >= 1 /\ tail = C(1) /\ \A k \in 1 .. N : C(k) \in Elem
  BY Zenon, ChainElem DEF Inv, N, C, TypeOK, Chained, Ends
<1>2. 1 \in 1 .. N - 1 /\ 2 \in 1 .. N /\ 1 + 1 = 2
  BY <1>1
<1>3. C(2) # NULL
  BY <1>1, <1>2, NodeAssumption DEF Elem
<1>4. \E t \in Thread : pc[t] = "link"
  BY Zenon, <1>1, <1>2, <1>3 DEF Inv, Chained, Links
<1> QED
  BY <1>4 DEF Thread

(* mpsc_queue_poll() returns MPSC_QUEUE_EMPTY in spite of an element whose *)
(* insertion is over only while a producer is between the two halves of    *)
(* mpsc_queue_insert().                                                    *)
THEOREM EmptyOnlyIfBusy == Spec => EmptyUnlessBusy
<1>1. ASSUME Inv, Poll \/ ReadHead \/ ReadLast, result' = "EMPTY", settled' # {}
      PROVE  \E t \in Producer : pc[t] = "link"
  <2>1. TypeOK /\ Chained /\ Poller /\ fifo \in Seq(Node) /\ pos \in -1 .. Len(fifo)
    BY Zenon, <1>1 DEF Inv, TypeOK
  <2>2. CASE Poll
    <3>1. pc[Consumer] = "idle" /\ settled' = Settled
      BY Zenon, <2>2 DEF Poll
    <3>2. tail = Stub /\ next[tail] = NULL
      BY Zenon, <1>1, <2>2 DEF Poll, Return, ReturnItem
    <3>3. fifo # <<>>
      BY <1>1, <3>1 DEF Settled, Elements
    <3>4. pos = 0
      BY <2>1, <3>2, FirstElement
    <3>5. N # 1
      BY <2>1, <3>3, <3>4 DEF N, ChainLen
    <3> QED
      BY <1>1, <3>1, <3>2, <3>5, BrokenChain
  <2>3. CASE ReadHead
    <3>1. result = "none"
      BY Zenon, <2>1, <2>3 DEF Poller, Polling, ReadHead
    <3> QED
      BY Zenon, <1>1, <2>3, <3>1 DEF ReadHead, Return
  <2>4. CASE ReadLast
    <3>1. pc[Consumer] = "last" /\ next[ctail] = NULL
      BY Zenon, <1>1, <2>4 DEF ReadLast, Return, ReturnItem
    <3>2. ctail = tail /\ tail # Stub /\ pos # -1
      BY <2>1, <3>1 DEF Poller, Polling
    <3>3. fifo # <<>>
      BY <2>1, <3>2, FirstElement
    <3>4. N # 1
      BY <2>1, <3>2, <3>3 DEF N, ChainLen
    <3> QED
      BY <1>1, <3>1, <3>2, <3>4, BrokenChain
  <2> QED
    BY <1>1, <2>2, <2>3, <2>4
<1>2. Inv => [(Poll \/ ReadHead \/ ReadLast) /\ result' = "EMPTY" /\ settled' # {}
                => \E t \in Producer : pc[t] = "link"]_vars
  BY <1>1
<1> QED
  BY <1>2, ChainInvariant, PTL DEF EmptyUnlessBusy

(* Taking the first element of the chain is removing the oldest one.       *)
LEMMA ReturnsOldest ==
  ASSUME Inv, tail # Stub, taken = NULL, ReturnItem(tail)
  PROVE  Q!Remove
<1>1. fifo # <<>> /\ tail = fifo[1] /\ fifo \in Seq(Node)
  BY Zenon, FirstElement DEF Inv, TypeOK
<1>2. taken' = Head(fifo) /\ fifo' = Tail(fifo)
  BY <1>1 DEF ReturnItem
<1> QED
  BY <1>1, <1>2 DEF Q!Remove

(* The queue implements a FIFO: no element is lost, repeated or overtaken, *)
(* whatever the interleaving of the producers and the consumer.            *)
THEOREM ImplementsFifo == Spec => FifoSpec
<1>1. Init => Q!Init
  BY DEF Init, Q!Init
<1>2. ASSUME Inv, [Next]_vars
      PROVE  [Q!Next]_(Q!fifoVars)
  <2>1. TypeOK /\ Chained /\ Inserters /\ Owners /\ Poller /\ Iterator
    BY <1>2 DEF Inv
  <2> SUFFICES Q!Next \/ UNCHANGED <<fifo, taken>>
    BY DEF Q!fifoVars
  <2>2. CASE UNCHANGED vars
    BY <2>2 DEF vars, userVars
  <2>3. ASSUME NEW t \in Thread, Exchange(t)
        PROVE  Q!Next \/ UNCHANGED <<fifo, taken>>
    <3>1. CASE node[t] = Stub
      BY Zenon, <2>3, <3>1 DEF Exchange, userVars
    <3>2. CASE node[t] # Stub
      <4>1. node[t] \in Node /\ Outside(node[t])
        BY Zenon, <2>1, <2>3, <3>2 DEF Exchange, Inserters, TypeOK, Link
      <4>2. node[t] \notin Elements
        BY <2>1, <4>1, StubPlace
      <4>3. node[t] # taken
        BY <2>1, <4>1, NodeAssumption DEF Owners
      <4>4. Q!Insert(node[t])
        BY Zenon, <2>3, <3>2, <4>2, <4>3 DEF Q!Insert, Q!Elements, Elements, Exchange, userVars
      <4> QED
        BY <4>1, <4>4 DEF Q!Next
    <3> QED
      BY <3>1, <3>2
  <2>4. ASSUME NEW t \in Thread, LinkNode(t) \/ \E n \in Node : InsertBegin(t, n)
        PROVE  UNCHANGED <<fifo, taken>>
    BY Zenon, <2>4 DEF LinkNode, InsertBegin, userVars
  <2>5. CASE Poll
    <3>1. CASE UNCHANGED <<taken, fifo>>
      BY <3>1
    <3>2. CASE tail # Stub /\ ReturnItem(tail)
      BY Zenon, <1>2, <2>5, <3>2, ReturnsOldest DEF Poll, Q!Next
    <3> QED
      BY Zenon, <2>5, <3>1, <3>2 DEF Poll
  <2>6. CASE ReadNext
    <3>1. ctail = tail /\ tail # Stub /\ taken = NULL
      BY Zenon, <2>1, <2>6 DEF Poller, Polling, ReadNext
    <3> QED
      BY Zenon, <1>2, <2>6, <3>1, ReturnsOldest DEF ReadNext, Q!Next
  <2>7. CASE ReadLast
    <3>1. ctail = tail /\ tail # Stub /\ taken = NULL
      BY Zenon, <2>1, <2>7 DEF Poller, Polling, ReadLast
    <3> QED
      BY Zenon, <1>2, <2>7, <3>1, ReturnsOldest DEF ReadLast, Q!Next
  <2>8. CASE Free
    BY <2>8 DEF Free, Q!Next, Q!Free
  <2>9. CASE PushFront
    BY <2>9 DEF PushFront, Q!Next, Q!PushFront
  <2>10. CASE ReadHead \/ IterStub \/ IterTail \/ IterNext
    BY Zenon, <2>10 DEF ReadHead, IterStub, IterTail, IterNext, userVars
  <2> QED
    BY <1>2, <2>2, <2>3, <2>4, <2>5, <2>6, <2>7, <2>8, <2>9, <2>10
    DEF Next, Insert, Consume
<1> QED
  BY <1>1, <1>2, ChainInvariant, PTL DEF Spec, FifoSpec, Q!Spec
=============================================================================
