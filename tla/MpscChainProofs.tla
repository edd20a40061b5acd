-------------------------- MODULE MpscChainProofs --------------------------
(***************************************************************************)
(* The nodes in the queue of module MpscQueue form a chain from            *)
(* queue->tail to queue->head, in which the stub may have a place.  Inv    *)
(* says that each node points to the next one of the chain, or to NULL     *)
(* while one thread is between the two halves of the insertion of the next *)
(* one.  Here is how single writes change the chain, and that the steps of *)
(* mpsc_queue_insert() preserve Inv.                                       *)
(***************************************************************************)
EXTENDS MpscQueue, TLAPS

(* How long a prover may take where a proof does not say which one to use. *)
USE SMTT(20), ZenonT(20)

(* The chain that consists of the elements f, with the stub after p of     *)
(* them unless p is -1.                                                    *)
ChainLen(f, p) == IF p = -1 THEN Len(f) ELSE Len(f) + 1
ChainAt(f, p, k) ==
  IF p = -1 \/ k <= p THEN f[k] ELSE IF k = p + 1 THEN Stub ELSE f[k - 1]

Elem == Node \cup {Stub}

(* How an insertion at the end changes the chain.                          *)
LEMMA ChainAppend ==
  ASSUME NEW f \in Seq(Node), NEW p \in -1 .. Len(f), NEW n \in Node
  PROVE  LET g == Append(f, n)
         IN  /\ g \in Seq(Node) /\ p \in -1 .. Len(g)
             /\ ChainLen(g, p) = ChainLen(f, p) + 1
             /\ ChainAt(g, p, ChainLen(g, p)) = n
             /\ \A k \in 1 .. ChainLen(f, p) : ChainAt(g, p, k) = ChainAt(f, p, k)
BY DEF ChainLen, ChainAt

(* How the insertion of the stub changes the chain.                        *)
LEMMA ChainStub ==
  ASSUME NEW f \in Seq(Node)
  PROVE  /\ ChainLen(f, Len(f)) = ChainLen(f, -1) + 1
         /\ ChainAt(f, Len(f), ChainLen(f, -1) + 1) = Stub
         /\ \A k \in 1 .. ChainLen(f, -1) : ChainAt(f, Len(f), k) = ChainAt(f, -1, k)
BY DEF ChainLen, ChainAt

(* How the removal of the first element changes the chain.                 *)
LEMMA ChainTail ==
  ASSUME NEW f \in Seq(Node), NEW p \in -1 .. Len(f), p # 0, f # <<>>
  PROVE  LET q == IF p = -1 THEN -1 ELSE p - 1
         IN  /\ Tail(f) \in Seq(Node) /\ q \in -1 .. Len(Tail(f))
             /\ ChainLen(Tail(f), q) = ChainLen(f, p) - 1
             /\ \A k \in 1 .. ChainLen(f, p) - 1 :
                  ChainAt(Tail(f), q, k) = ChainAt(f, p, k + 1)
BY DEF ChainLen, ChainAt

(* How the removal of the stub at the beginning changes the chain.         *)
LEMMA ChainSkip ==
  ASSUME NEW f \in Seq(Node)
  PROVE  /\ ChainLen(f, -1) = ChainLen(f, 0) - 1
         /\ \A k \in 1 .. ChainLen(f, -1) : ChainAt(f, -1, k) = ChainAt(f, 0, k + 1)
BY DEF ChainLen, ChainAt

(* How an insertion at the front changes the chain.                        *)
LEMMA ChainCons ==
  ASSUME NEW f \in Seq(Node), NEW p \in -1 .. Len(f), NEW n \in Node
  PROVE  LET g == <<n>> \o f
             q == IF p = -1 THEN -1 ELSE p + 1
         IN  /\ g \in Seq(Node) /\ q \in -1 .. Len(g)
             /\ ChainLen(g, q) = ChainLen(f, p) + 1
             /\ ChainAt(g, q, 1) = n
             /\ \A k \in 1 .. ChainLen(f, p) : ChainAt(g, q, k + 1) = ChainAt(f, p, k)
BY DEF ChainLen, ChainAt

(* The elements in the chain.                                              *)
LEMMA ChainElem ==
  ASSUME NEW f \in Seq(Node), NEW p \in -1 .. Len(f)
  PROVE  /\ ChainLen(f, p) \in Nat
         /\ \A k \in 1 .. ChainLen(f, p) : ChainAt(f, p, k) \in Elem
         /\ \A k \in 1 .. ChainLen(f, p) :
              ChainAt(f, p, k) # Stub => \E i \in DOMAIN f : f[i] = ChainAt(f, p, k)
         /\ \A k \in 1 .. ChainLen(f, p) : ChainAt(f, p, k) = Stub => p # -1
         /\ p # -1 => p + 1 \in 1 .. ChainLen(f, p) /\ ChainAt(f, p, p + 1) = Stub
         /\ \A i \in DOMAIN f : \E k \in 1 .. ChainLen(f, p) : ChainAt(f, p, k) = f[i]
<1>1. ChainLen(f, p) \in Nat
  BY DEF ChainLen
<1>2. ASSUME NEW k \in 1 .. ChainLen(f, p)
      PROVE  /\ ChainAt(f, p, k) \in Elem
             /\ ChainAt(f, p, k) # Stub => \E i \in DOMAIN f : f[i] = ChainAt(f, p, k)
             /\ ChainAt(f, p, k) = Stub => p # -1
  <2>1. CASE p = -1 \/ k <= p
    <3>1. k \in DOMAIN f /\ ChainAt(f, p, k) = f[k] /\ f[k] \in Node
      BY <2>1 DEF ChainLen, ChainAt
    <3> QED
      BY <3>1, NodeAssumption DEF Elem
  <2>2. CASE ~(p = -1 \/ k <= p) /\ k = p + 1
    BY <2>2 DEF ChainAt, Elem
  <2>3. CASE ~(p = -1 \/ k <= p) /\ k # p + 1
    <3>1. k - 1 \in DOMAIN f /\ ChainAt(f, p, k) = f[k - 1] /\ f[k - 1] \in Node
      BY <2>3 DEF ChainLen, ChainAt
    <3> QED
      BY <3>1, NodeAssumption DEF Elem
  <2> QED
    BY <2>1, <2>2, <2>3
<1>3. p # -1 => p + 1 \in 1 .. ChainLen(f, p) /\ ChainAt(f, p, p + 1) = Stub
  BY DEF ChainLen, ChainAt
<1>4. ASSUME NEW i \in DOMAIN f
      PROVE  \E k \in 1 .. ChainLen(f, p) : ChainAt(f, p, k) = f[i]
  <2>1. CASE p = -1 \/ i <= p
    <3>1. i \in 1 .. ChainLen(f, p) /\ ChainAt(f, p, i) = f[i]
      BY <2>1 DEF ChainLen, ChainAt
    <3> QED
      BY <3>1
  <2>2. CASE ~(p = -1 \/ i <= p)
    <3>1. i + 1 \in 1 .. ChainLen(f, p) /\ ChainAt(f, p, i + 1) = f[i]
      BY <2>2 DEF ChainLen, ChainAt
    <3> QED
      BY <3>1
  <2> QED
    BY <2>1, <2>2
<1> QED
  BY <1>1, <1>2, <1>3, <1>4
-----------------------------------------------------------------------------
(* The invariant.                                                          *)

N == ChainLen(fifo, pos)
C(k) == ChainAt(fifo, pos, k)

Ends == N >= 1 /\ tail = C(1) /\ head = C(N) /\ next[head] = NULL

Distinct == \A j, k \in 1 .. N : C(j) = C(k) => j = k

Links ==
  \A k \in 1 .. N - 1 :
    \/ next[C(k)] = C(k + 1)
    \/ /\ next[C(k)] = NULL
       /\ \E t \in Thread : pc[t] = "link" /\ prev[t] = C(k) /\ node[t] = C(k + 1)

Linkers ==
  \A t \in Thread : pc[t] = "link" =>
    \E k \in 1 .. N - 1 : prev[t] = C(k) /\ node[t] = C(k + 1) /\ next[C(k)] = NULL

Chained == Ends /\ Distinct /\ Links /\ Linkers

(* Which thread a node belongs to.                                         *)
Outside(n) == \A k \in 1 .. N : C(k) # n

Inserters ==
  /\ \A t \in Thread :
       /\ node[t] # NULL <=> pc[t] \in {"exchange", "link"}
       /\ node[t] = Stub => t = Consumer
       /\ pc[t] = "exchange" => next[node[t]] = NULL /\ Outside(node[t])
  /\ \A t, u \in Thread : node[t] = node[u] /\ node[t] # NULL => t = u

Owners ==
  /\ \A n \in free \cup {taken} : Outside(n) /\ (n # NULL => \A t \in Thread : node[t] # n)
  /\ taken \notin free

(* Where the consumer is.                                                  *)
Polling == pc[Consumer] \in {"read_next", "read_head", "last"} \/ node[Consumer] = Stub

Poller ==
  /\ Polling => /\ ctail = tail /\ ctail # Stub
                /\ taken = NULL /\ cursor = NULL /\ result = "none"
  /\ pc[Consumer] = "last" => pos # -1

Iterator ==
  /\ cursor # NULL => nth \in DOMAIN fifo /\ fifo[nth] = cursor /\ taken = NULL
  /\ pc[Consumer] = "iter_stub" => cursor # NULL /\ pos = nth

Inv == TypeOK /\ Chained /\ Inserters /\ Owners /\ Poller /\ Iterator
-----------------------------------------------------------------------------
(* How steps change the chain.                                             *)

(* The threads that are between the two halves of an insertion.            *)
SameLinkers ==
  \A t \in Thread : /\ pc'[t] = "link" <=> pc[t] = "link"
                    /\ pc[t] = "link" => prev'[t] = prev[t] /\ node'[t] = node[t]

(* A node outside of the chain is cleared, or nothing happens to it.       *)
LEMMA ClearOutside ==
  ASSUME TypeOK, Chained, SameLinkers, NEW n \in Elem, Outside(n),
         next' = next \/ next' = [next EXCEPT ![n] = NULL],
         UNCHANGED <<head, tail, fifo, pos>>
  PROVE  Chained'
<1>1. N' = N /\ \A k : C(k)' = C(k)
  BY DEF N, C
<1>2. N \in Nat /\ \A k \in 1 .. N : C(k) \in Elem /\ C(k) # n
  BY ChainElem DEF N, C, TypeOK, Outside
<1>3. \A k \in 1 .. N : next'[C(k)] = next[C(k)]
  BY <1>2 DEF TypeOK, Elem
<1>4. Ends'
  BY <1>1, <1>2, <1>3 DEF Chained, Ends
<1>5. Distinct'
  BY <1>1 DEF Chained, Distinct
<1>6. Links'
  BY <1>1, <1>2, <1>3 DEF Chained, Links, SameLinkers
<1>7. Linkers'
  BY <1>1, <1>2, <1>3 DEF Chained, Linkers, SameLinkers
<1> QED
  BY <1>4, <1>5, <1>6, <1>7 DEF Chained

(* Nothing happens to the queue.                                           *)
LEMMA SameChain ==
  ASSUME Chained, SameLinkers, UNCHANGED <<head, tail, next, fifo, pos>>
  PROVE  Chained'
<1>1. N' = N /\ \A k : C(k)' = C(k)
  BY DEF N, C
<1>2. Ends' /\ Distinct'
  BY <1>1 DEF Chained, Ends, Distinct
<1>3. Links'
  BY <1>1 DEF Chained, Links, SameLinkers
<1>4. Linkers'
  BY <1>1 DEF Chained, Linkers, SameLinkers
<1> QED
  BY <1>2, <1>3, <1>4 DEF Chained

(* The first node leaves the chain.                                        *)
LEMMA ShiftChain ==
  ASSUME TypeOK, Chained, SameLinkers, next[tail] # NULL,
         ChainLen(fifo', pos') = N - 1,
         \A k \in 1 .. N - 1 : ChainAt(fifo', pos', k) = C(k + 1),
         tail' = next[tail], UNCHANGED <<head, next>>
  PROVE  /\ Chained' /\ N >= 2 /\ tail' = C(2)
         /\ \A n : Outside(n) \/ n = tail => Outside(n)'
<1>1. N \in Nat /\ \A k \in 1 .. N : C(k) \in Elem
  BY ChainElem DEF N, C, TypeOK
<1>2. N' = N - 1 /\ \A k \in 1 .. N - 1 : C(k)' = C(k + 1)
  BY DEF N, C
<1>3. N >= 2
  BY <1>1 DEF Chained, Ends
<1>4. tail' = C(2)
  BY <1>1, <1>3 DEF Chained, Ends, Links
<1>5. Ends'
  BY <1>1, <1>2, <1>3, <1>4 DEF Chained, Ends
<1>6. Distinct'
  BY <1>1, <1>2 DEF Chained, Distinct
<1>7. Links'
  <2> SUFFICES ASSUME NEW k \in 1 .. N - 2
               PROVE  \/ next[C(k + 1)] = C(k + 2)
                      \/ /\ next[C(k + 1)] = NULL
                         /\ \E t \in Thread : /\ pc'[t] = "link" /\ prev'[t] = C(k + 1)
                                              /\ node'[t] = C(k + 2)
    BY <1>1, <1>2 DEF Links
  <2>1. k + 1 \in 1 .. N - 1 /\ (k + 1) + 1 = k + 2
    BY <1>1
  <2> QED
    BY <2>1 DEF Chained, Links, SameLinkers
<1>8. Linkers'
  <2> SUFFICES ASSUME NEW t \in Thread, pc'[t] = "link"
               PROVE  \E k \in 1 .. N' - 1 : /\ prev'[t] = C(k)' /\ node'[t] = C(k + 1)'
                                             /\ next'[C(k)'] = NULL
    BY DEF Linkers
  <2>1. PICK k \in 1 .. N - 1 : prev[t] = C(k) /\ node[t] = C(k + 1) /\ next[C(k)] = NULL
    BY DEF Chained, Linkers, SameLinkers
  <2>2. k # 1
    BY <2>1 DEF Chained, Ends
  <2>3. k - 1 \in 1 .. N' - 1 /\ C(k - 1)' = C(k) /\ C((k - 1) + 1)' = C(k + 1)
    BY <1>1, <1>2, <2>2
  <2> QED
    BY <2>1, <2>3 DEF SameLinkers
<1>9. ASSUME NEW n, Outside(n) \/ n = tail
      PROVE  Outside(n)'
  <2> SUFFICES ASSUME NEW k \in 1 .. N - 1 PROVE C(k + 1) # n
    BY <1>1, <1>2 DEF Outside
  <2>1. k + 1 \in 1 .. N /\ 1 \in 1 .. N /\ k + 1 # 1
    BY <1>1
  <2> QED
    BY <1>9, <2>1 DEF Outside, Chained, Ends, Distinct
<1> QED
  BY <1>3, <1>4, <1>5, <1>6, <1>7, <1>8, <1>9 DEF Chained

(* A node is added at the end, by the first half of its insertion.         *)
LEMMA ExtendChain ==
  ASSUME TypeOK, Chained, NEW t \in Thread, pc[t] = "exchange",
         node[t] \in Elem, next[node[t]] = NULL, Outside(node[t]),
         ChainLen(fifo', pos') = N + 1,
         \A k \in 1 .. N : ChainAt(fifo', pos', k) = C(k),
         ChainAt(fifo', pos', N + 1) = node[t],
         head' = node[t], prev' = [prev EXCEPT ![t] = head],
         pc' = [pc EXCEPT ![t] = "link"], UNCHANGED <<tail, next, node>>
  PROVE  /\ Chained'
         /\ \A n : Outside(n) /\ n # node[t] => Outside(n)'
<1>1. N \in Nat /\ \A k \in 1 .. N : C(k) \in Elem
  BY ChainElem DEF N, C, TypeOK
<1>2. N' = N + 1 /\ (\A k \in 1 .. N : C(k)' = C(k)) /\ (\A k : k = N + 1 => C(k)' = node[t])
  BY DEF N, C
<1>3. Ends'
  BY <1>1, <1>2 DEF Chained, Ends
<1>4. Distinct'
  BY <1>1, <1>2 DEF Chained, Distinct, Outside
<1>5. \A u \in Thread \ {t} : pc'[u] = pc[u] /\ prev'[u] = prev[u]
  BY DEF TypeOK
<1>6. pc'[t] = "link" /\ prev'[t] = C(N)
  BY DEF TypeOK, Chained, Ends
<1>7. Links'
  <2> SUFFICES ASSUME NEW k \in 1 .. N
               PROVE  \/ next[C(k)'] = C(k + 1)'
                      \/ /\ next[C(k)'] = NULL
                         /\ \E u \in Thread : /\ pc'[u] = "link" /\ prev'[u] = C(k)'
                                              /\ node[u] = C(k + 1)'
    BY <1>1, <1>2 DEF Links
  <2>1. CASE k = N
    BY <1>1, <1>2, <1>6, <2>1 DEF Chained, Ends
  <2>2. CASE k # N
    <3>1. k \in 1 .. N - 1 /\ k + 1 \in 1 .. N
      BY <1>1, <2>2
    <3>2. \A u \in Thread : pc[u] = "link" => u # t
      OBVIOUS
    <3> QED
      BY <1>2, <1>5, <3>1, <3>2 DEF Chained, Links
  <2> QED
    BY <2>1, <2>2
<1>8. Linkers'
  <2> SUFFICES ASSUME NEW u \in Thread, pc'[u] = "link"
               PROVE  \E k \in 1 .. N : /\ prev'[u] = C(k)' /\ node[u] = C(k + 1)'
                                        /\ next[C(k)'] = NULL
    BY <1>1, <1>2 DEF Linkers
  <2>1. CASE u = t
    <3>1. N \in 1 .. N
      BY <1>1 DEF Chained, Ends
    <3> QED
      BY <1>2, <1>6, <2>1, <3>1 DEF Chained, Ends
  <2>2. CASE u # t
    <3>1. PICK k \in 1 .. N - 1 : prev[u] = C(k) /\ node[u] = C(k + 1) /\ next[C(k)] = NULL
      BY <1>5, <2>2 DEF Chained, Linkers
    <3>2. k \in 1 .. N /\ k + 1 \in 1 .. N
      BY <1>1
    <3> QED
      BY <1>2, <1>5, <2>2, <3>1, <3>2
  <2> QED
    BY <2>1, <2>2
<1>9. ASSUME NEW n, Outside(n), n # node[t]
      PROVE  Outside(n)'
  BY <1>1, <1>2, <1>9 DEF Outside
<1> QED
  BY <1>3, <1>4, <1>7, <1>8, <1>9 DEF Chained

(* The second half of the insertion of a node.                             *)
LEMMA LinkChain ==
  ASSUME TypeOK, Chained, Inserters, NEW t \in Thread, pc[t] = "link",
         NEW label \in Label, label # "link",
         next' = [next EXCEPT ![prev[t]] = node[t]],
         prev' = [prev EXCEPT ![t] = NULL], node' = [node EXCEPT ![t] = NULL],
         pc' = [pc EXCEPT ![t] = label], UNCHANGED <<head, tail, fifo, pos>>
  PROVE  Chained' /\ N' = N /\ \A k : C(k)' = C(k)
<1>1. N \in Nat /\ \A k \in 1 .. N : C(k) \in Elem
  BY ChainElem DEF N, C, TypeOK
<1>2. N' = N /\ \A k : C(k)' = C(k)
  BY DEF N, C
<1>3. PICK m \in 1 .. N - 1 : prev[t] = C(m) /\ node[t] = C(m + 1) /\ next[C(m)] = NULL
  BY DEF Chained, Linkers
<1>4. m \in 1 .. N /\ m + 1 \in 1 .. N /\ N \in 1 .. N /\ m # N
  BY <1>1
<1>5. next'[C(m)] = C(m + 1)
  BY <1>1, <1>3, <1>4 DEF TypeOK, Elem
<1>6. \A k \in 1 .. N : k # m => next'[C(k)] = next[C(k)]
  BY <1>1, <1>3, <1>4 DEF TypeOK, Elem, Chained, Distinct
<1>7. \A u \in Thread \ {t} : pc'[u] = pc[u] /\ prev'[u] = prev[u] /\ node'[u] = node[u]
  BY DEF TypeOK
<1>8. pc'[t] # "link"
  BY DEF TypeOK
<1>9. Ends'
  BY <1>1, <1>2, <1>4, <1>6 DEF Chained, Ends
<1>10. Distinct'
  BY <1>2 DEF Chained, Distinct
<1>11. Links'
  <2> SUFFICES ASSUME NEW k \in 1 .. N - 1
               PROVE  \/ next'[C(k)] = C(k + 1)
                      \/ /\ next'[C(k)] = NULL
                         /\ \E u \in Thread : /\ pc'[u] = "link" /\ prev'[u] = C(k)
                                              /\ node'[u] = C(k + 1)
    BY <1>2 DEF Links
  <2>1. CASE k = m
    BY <1>5, <2>1
  <2>2. CASE k # m
    <3>1. k \in 1 .. N
      BY <1>1
    <3>2. next'[C(k)] = next[C(k)] /\ C(k) # C(m)
      BY <1>4, <1>6, <2>2, <3>1 DEF Chained, Distinct
    <3>3. ASSUME NEW u \in Thread, prev[u] = C(k) PROVE u # t
      BY <1>3, <3>2, <3>3
    <3> QED
      BY <1>7, <3>2, <3>3 DEF Chained, Links
  <2> QED
    BY <2>1, <2>2
<1>12. Linkers'
  <2> SUFFICES ASSUME NEW u \in Thread, pc'[u] = "link"
               PROVE  \E k \in 1 .. N - 1 : /\ prev'[u] = C(k) /\ node'[u] = C(k + 1)
                                            /\ next'[C(k)] = NULL
    BY <1>2 DEF Linkers
  <2>1. u # t
    BY <1>8
  <2>2. PICK k \in 1 .. N - 1 : prev[u] = C(k) /\ node[u] = C(k + 1) /\ next[C(k)] = NULL
    BY <1>7, <2>1 DEF Chained, Linkers
  <2>3. k # m
    <3>1. C(m + 1) # NULL
      BY <1>1, <1>4, NodeAssumption DEF Elem
    <3> QED
      BY <1>3, <2>1, <2>2, <3>1 DEF Inserters
  <2>4. k \in 1 .. N
    BY <1>1
  <2> QED
    BY <1>6, <1>7, <2>1, <2>2, <2>3, <2>4
<1> QED
  BY <1>2, <1>9, <1>10, <1>11, <1>12 DEF Chained

(* A node is added at the beginning.                                       *)
LEMMA PrependChain ==
  ASSUME TypeOK, Chained, SameLinkers, NEW n \in Node, Outside(n),
         ChainLen(fifo', pos') = N + 1,
         ChainAt(fifo', pos', 1) = n,
         \A k \in 1 .. N : ChainAt(fifo', pos', k + 1) = C(k),
         next' = [next EXCEPT ![n] = tail], tail' = n, UNCHANGED head
  PROVE  /\ Chained'
         /\ \A o : Outside(o) /\ o # n => Outside(o)'
<1>1. N \in Nat /\ \A k \in 1 .. N : C(k) \in Elem
  BY ChainElem DEF N, C, TypeOK
<1>2. N' = N + 1 /\ C(1)' = n /\ \A k \in 1 .. N : C(k + 1)' = C(k)
  BY DEF N, C
<1>3. \A k \in 2 .. N + 1 : k - 1 \in 1 .. N /\ C(k)' = C(k - 1)
  <2>1. \A k \in 2 .. N + 1 : k - 1 \in 1 .. N /\ (k - 1) + 1 = k
    BY <1>1
  <2> QED
    BY <1>2, <2>1
<1>4. next'[n] = tail /\ \A k \in 1 .. N : next'[C(k)] = next[C(k)]
  BY <1>1 DEF TypeOK, Elem, Outside
<1>5. Ends'
  BY <1>1, <1>2, <1>3, <1>4 DEF Chained, Ends
<1>6. Distinct'
  <2> SUFFICES ASSUME NEW j \in 1 .. N + 1, NEW k \in 1 .. N + 1, C(j)' = C(k)'
               PROVE  j = k
    BY <1>2 DEF Distinct
  <2>1. CASE j = 1 \/ k = 1
    BY <1>1, <1>2, <1>3, <2>1 DEF Outside
  <2>2. CASE j # 1 /\ k # 1
    <3>1. j \in 2 .. N + 1 /\ k \in 2 .. N + 1
      BY <1>1, <2>2
    <3> QED
      BY <1>1, <1>3, <3>1 DEF Chained, Distinct
  <2> QED
    BY <2>1, <2>2
<1>7. Links'
  <2> SUFFICES ASSUME NEW k \in 1 .. N
               PROVE  \/ next'[C(k)'] = C(k + 1)'
                      \/ /\ next'[C(k)'] = NULL
                         /\ \E u \in Thread : /\ pc'[u] = "link" /\ prev'[u] = C(k)'
                                              /\ node'[u] = C(k + 1)'
    BY <1>1, <1>2 DEF Links
  <2>1. CASE k = 1
    BY <1>2, <1>4, <2>1 DEF Chained, Ends
  <2>2. CASE k # 1
    <3>1. k - 1 \in 1 .. N - 1 /\ k - 1 \in 1 .. N /\ C(k)' = C(k - 1) /\ C(k + 1)' = C(k)
          /\ (k - 1) + 1 = k
      BY <1>1, <1>2, <1>3, <2>2
    <3> QED
      BY <1>4, <3>1 DEF Chained, Links, SameLinkers
  <2> QED
    BY <2>1, <2>2
<1>8. Linkers'
  <2> SUFFICES ASSUME NEW u \in Thread, pc'[u] = "link"
               PROVE  \E k \in 1 .. N : /\ prev'[u] = C(k)' /\ node'[u] = C(k + 1)'
                                        /\ next'[C(k)'] = NULL
    BY <1>1, <1>2 DEF Linkers
  <2>1. PICK k \in 1 .. N - 1 : prev[u] = C(k) /\ node[u] = C(k + 1) /\ next[C(k)] = NULL
    BY DEF Chained, Linkers, SameLinkers
  <2>2. k \in 1 .. N /\ k + 1 \in 1 .. N
    BY <1>1
  <2> QED
    BY <1>2, <1>4, <2>1, <2>2 DEF SameLinkers
<1>9. ASSUME NEW o, Outside(o), o # n
      PROVE  Outside(o)'
  <2> SUFFICES ASSUME NEW k \in 1 .. N + 1 PROVE C(k)' # o
    BY <1>2 DEF Outside
  <2>1. CASE k = 1
    BY <1>2, <1>9, <2>1
  <2>2. CASE k # 1
    <3>1. k \in 2 .. N + 1
      BY <1>1, <2>2
    <3> QED
      BY <1>3, <1>9, <3>1 DEF Outside
  <2> QED
    BY <2>1, <2>2
<1> QED
  BY <1>5, <1>6, <1>7, <1>8, <1>9 DEF Chained

-----------------------------------------------------------------------------
(* What the chain says of the queue.                                       *)

(* A chain of the same nodes.                                              *)
LEMMA SameOutside ==
  ASSUME UNCHANGED <<fifo, pos>>
  PROVE  \A n : Outside(n)' <=> Outside(n)
BY DEF Outside, N, C

(* NULL is not in the chain.                                               *)
LEMMA NullOutside ==
  ASSUME TypeOK
  PROVE  Outside(NULL)
<1>1. \A k \in 1 .. N : C(k) \in Elem
  BY ChainElem DEF N, C, TypeOK
<1> QED
  BY <1>1, NodeAssumption DEF Outside, Elem

(* The node at the tail is the first element, or the stub.                 *)
LEMMA FirstElement ==
  ASSUME TypeOK, Chained
  PROVE  /\ tail = Stub => pos = 0
         /\ tail # Stub => pos # 0 /\ fifo # <<>> /\ tail = fifo[1] /\ tail \in Node
         /\ tail # NULL
<1>1. N \in Nat /\ N >= 1 /\ tail = C(1) /\ fifo \in Seq(Node) /\ pos \in -1 .. Len(fifo)
  BY ChainElem DEF N, C, TypeOK, Chained, Ends
<1>2. CASE pos = 0
  BY <1>1, <1>2, NodeAssumption DEF C, ChainAt
<1>3. CASE pos # 0
  <2>1. tail = fifo[1]
    BY <1>1, <1>3 DEF C, ChainAt
  <2>2. Len(fifo) >= 1
    BY <1>1, <1>3 DEF N, ChainLen
  <2>3. fifo # <<>> /\ fifo[1] \in Node
    BY <1>1, <2>2
  <2> QED
    BY <1>3, <2>1, <2>3, NodeAssumption
<1> QED
  BY <1>2, <1>3

(* A place in the queue, or outside.                                       *)
LEMMA StubPlace ==
  ASSUME TypeOK
  PROVE  /\ Outside(Stub) <=> pos = -1
         /\ \A n \in Node : Outside(n) <=> n \notin Elements
<1>1. /\ \A k \in 1 .. N : C(k) = Stub => pos # -1
      /\ pos # -1 => pos + 1 \in 1 .. N /\ C(pos + 1) = Stub
      /\ \A k \in 1 .. N : C(k) # Stub => \E i \in DOMAIN fifo : fifo[i] = C(k)
      /\ \A i \in DOMAIN fifo : \E k \in 1 .. N : C(k) = fifo[i]
  BY ChainElem DEF N, C, TypeOK
<1>2. Outside(Stub) <=> pos = -1
  BY <1>1 DEF Outside
<1>3. ASSUME NEW n \in Node
      PROVE  Outside(n) <=> n \notin Elements
  <2>1. n # Stub
    BY NodeAssumption
  <2> QED
    BY <1>1, <2>1 DEF Outside, Elements
<1> QED
  BY <1>2, <1>3

(* The consumer passes the stub.                                           *)
LEMMA SkipStub ==
  ASSUME TypeOK, Chained, SameLinkers, tail = Stub, next[Stub] # NULL,
         tail' = next[Stub], pos' = -1, UNCHANGED <<head, next, fifo>>
  PROVE  /\ Chained' /\ fifo # <<>> /\ tail' = fifo[1] /\ tail' \in Node
         /\ \A n : Outside(n) => Outside(n)'
<1>1. pos = 0 /\ fifo \in Seq(Node)
  BY FirstElement DEF TypeOK
<1>2. /\ ChainLen(fifo', pos') = N - 1
      /\ \A k \in 1 .. N - 1 : ChainAt(fifo', pos', k) = C(k + 1)
  BY <1>1, ChainSkip DEF N, C
<1>3. /\ Chained' /\ N >= 2 /\ tail' = C(2)
      /\ \A n : Outside(n) => Outside(n)'
  BY <1>2, ShiftChain
<1>4. Len(fifo) >= 1 /\ C(2) = fifo[1]
  BY <1>1, <1>3 DEF N, C, ChainLen, ChainAt
<1>5. fifo # <<>> /\ fifo[1] \in Node
  BY <1>1, <1>4
<1> QED
  BY <1>3, <1>4, <1>5

(* The consumer removes the first element.                                 *)
LEMMA RemoveFirst ==
  ASSUME TypeOK, Chained, SameLinkers, tail # Stub, next[tail] # NULL,
         tail' = next[tail], fifo' = Tail(fifo),
         pos' = (IF pos = -1 THEN -1 ELSE pos - 1), UNCHANGED <<head, next>>
  PROVE  /\ Chained' /\ fifo # <<>> /\ tail = Head(fifo) /\ tail \in Node
         /\ fifo' \in Seq(Node) /\ pos' \in -1 .. Len(fifo') /\ tail' \in Elem
         /\ \A n : Outside(n) \/ n = tail => Outside(n)'
<1>1. pos # 0 /\ fifo # <<>> /\ tail = fifo[1] /\ tail \in Node
  BY FirstElement
<1>2. fifo \in Seq(Node) /\ pos \in -1 .. Len(fifo)
  BY DEF TypeOK
<1>3. /\ fifo' \in Seq(Node) /\ pos' \in -1 .. Len(fifo')
      /\ ChainLen(fifo', pos') = N - 1
      /\ \A k \in 1 .. N - 1 : ChainAt(fifo', pos', k) = C(k + 1)
  BY <1>1, <1>2, ChainTail DEF N, C
<1>4. /\ Chained' /\ N >= 2 /\ tail' = C(2)
      /\ \A n : Outside(n) \/ n = tail => Outside(n)'
  BY <1>3, ShiftChain
<1>5. N \in Nat /\ \A k \in 1 .. N : C(k) \in Elem
  BY ChainElem DEF N, C, TypeOK
<1>6. tail = Head(fifo)
  BY <1>1, <1>2
<1> QED
  BY <1>1, <1>3, <1>4, <1>5, <1>6
-----------------------------------------------------------------------------
(* Each step preserves the invariant.                                      *)

(* InsertBegin() takes a node that is in no queue and no thread's hands.   *)
LEMMA InsertBeginInv ==
  ASSUME Inv, NEW t \in Thread, NEW n \in Node, InsertBegin(t, n)
  PROVE  Inv'
<1>1. /\ TypeOK /\ Chained /\ Inserters /\ Owners /\ Poller /\ Iterator
      /\ pc[t] = "idle" /\ n \in free /\ n # NULL /\ n # Stub
  BY NodeAssumption DEF Inv, InsertBegin
<1>2. Outside(n) /\ \A u \in Thread : node[u] # n
  BY <1>1 DEF Owners
<1>3. \A u \in Thread : /\ pc'[u] = (IF u = t THEN "exchange" ELSE pc[u])
                        /\ node'[u] = (IF u = t THEN n ELSE node[u])
  BY <1>1 DEF TypeOK, InsertBegin, Goto
<1>4. next' = [next EXCEPT ![n] = NULL] /\ next' \in [Elem -> Link] /\ next'[n] = NULL
  BY <1>1 DEF TypeOK, InsertBegin, Elem, Link
<1>5. TypeOK'
  BY <1>1, <1>4 DEF TypeOK, InsertBegin, Goto, Link, Label, iterVars, Elem
<1>6. Chained'
  <2>1. SameLinkers
    BY Zenon, <1>1, <1>3 DEF SameLinkers, InsertBegin
  <2> QED
    BY Zenon, <1>1, <1>2, <1>4, <2>1, ClearOutside DEF InsertBegin, Elem
<1>7. \A o : Outside(o)' <=> Outside(o)
  BY Zenon, SameOutside DEF InsertBegin
<1>8. Inserters'
  <2>1. \A o \in Elem : o # n => next'[o] = next[o]
    BY <1>1, <1>4 DEF TypeOK, Elem
  <2>2. \A u \in Thread : pc[u] = "exchange" => node[u] \in Elem /\ node[u] # n
    <3>1. \A u \in Thread : node[u] \in Elem \cup {NULL}
      BY Zenon, <1>1 DEF TypeOK, Link, Elem
    <3> QED
      BY Zenon, <1>1, <1>2, <3>1 DEF Inserters
  <2>3. ASSUME NEW u \in Thread
        PROVE  /\ node'[u] # NULL <=> pc'[u] \in {"exchange", "link"}
               /\ node'[u] = Stub => u = Consumer
               /\ pc'[u] = "exchange" => next'[node'[u]] = NULL /\ Outside(node'[u])
    <3>1. CASE u = t
      BY Zenon, <1>1, <1>2, <1>3, <1>4, <3>1
    <3>2. CASE u # t
      <4>1. pc'[u] = pc[u] /\ node'[u] = node[u]
        BY Zenon, <1>3, <3>2
      <4> QED
        BY Zenon, <1>1, <2>1, <2>2, <4>1 DEF Inserters
    <3> QED
      BY Zenon, <3>1, <3>2
  <2>4. \A u, w \in Thread : node'[u] = node'[w] /\ node'[u] # NULL => u = w
    BY Zenon, <1>1, <1>2, <1>3 DEF Inserters
  <2> QED
    BY Zenon, <1>7, <2>3, <2>4 DEF Inserters
<1>9. Owners'
  <2>1. free' = free \ {n} /\ taken' = taken
    BY Zenon DEF InsertBegin
  <2>2. taken # n
    BY Zenon, <1>1 DEF Owners
  <2>3. ASSUME NEW o \in free' \cup {taken'}
        PROVE  o \in free \cup {taken} /\ o # n
    BY Zenon, <2>1, <2>2
  <2>4. ASSUME NEW o \in free' \cup {taken'}, o # NULL, NEW u \in Thread
        PROVE  node'[u] # o
    BY Zenon, <1>1, <1>3, <2>3, <2>4 DEF Owners
  <2>5. taken' \notin free'
    BY Zenon, <1>1, <2>1 DEF Owners
  <2> QED
    BY Zenon, <1>1, <1>7, <2>3, <2>4, <2>5 DEF Owners
<1>10. Poller'
  <2>1. Polling' => Polling
    BY Zenon, <1>1, <1>3, ThreadAssumption DEF Polling, Thread
  <2>2. /\ UNCHANGED <<tail, ctail, taken, cursor, result, pos>>
        /\ pc'[Consumer] = "last" => pc[Consumer] = "last"
    BY Zenon, <1>3, ThreadAssumption DEF InsertBegin, iterVars, Thread
  <2> QED
    BY Zenon, <1>1, <2>1, <2>2 DEF Poller
<1>11. Iterator'
  BY Zenon, <1>1, <1>3, ThreadAssumption DEF Iterator, InsertBegin, iterVars, Thread
<1> QED
  BY <1>5, <1>6, <1>8, <1>9, <1>10, <1>11 DEF Inv

(* Exchange() puts a node at the end of the chain.                         *)
LEMMA ExchangeInv ==
  ASSUME Inv, NEW t \in Thread, Exchange(t)
  PROVE  Inv'
<1>1. /\ TypeOK /\ Chained /\ Inserters /\ Owners /\ Poller /\ Iterator
      /\ pc[t] = "exchange"
  BY DEF Inv, Exchange
<1>2. /\ node[t] \in Elem /\ next[node[t]] = NULL /\ Outside(node[t])
      /\ node[t] = Stub => t = Consumer
  BY <1>1 DEF Inserters, TypeOK, Link, Elem
<1>3. fifo \in Seq(Node) /\ pos \in -1 .. Len(fifo)
  BY <1>1 DEF TypeOK
<1>4. /\ fifo' \in Seq(Node) /\ pos' \in -1 .. Len(fifo')
      /\ ChainLen(fifo', pos') = N + 1
      /\ \A k \in 1 .. N : ChainAt(fifo', pos', k) = C(k)
      /\ ChainAt(fifo', pos', N + 1) = node[t]
  <2>1. CASE node[t] = Stub
    <3>1. pos = -1
      BY <1>1, <1>2, <2>1, StubPlace
    <3>2. fifo' = fifo /\ pos' = Len(fifo)
      BY <2>1 DEF Exchange
    <3>3. Len(fifo) \in -1 .. Len(fifo)
      BY <1>3
    <3> QED
      BY <1>3, <2>1, <3>1, <3>2, <3>3, ChainStub DEF N, C
  <2>2. CASE node[t] # Stub
    <3>1. node[t] \in Node /\ fifo' = Append(fifo, node[t]) /\ pos' = pos
      BY Zenon, <1>2, <2>2 DEF Exchange, Elem
    <3> QED
      BY <1>3, <3>1, ChainAppend DEF N, C
  <2> QED
    BY <2>1, <2>2
<1>5. Chained' /\ \A n : Outside(n) /\ n # node[t] => Outside(n)'
  BY Zenon, <1>1, <1>2, <1>4, ExtendChain DEF Exchange, Goto
<1>6. \A u \in Thread : pc'[u] = (IF u = t THEN "link" ELSE pc[u])
  BY <1>1 DEF TypeOK, Exchange, Goto
<1>7. TypeOK'
  BY Zenon, <1>1, <1>2, <1>4 DEF TypeOK, Exchange, Goto, Link, Label, iterVars, userVars, Elem
<1>8. Inserters'
  BY ZenonT(60), <1>1, <1>2, <1>5, <1>6 DEF Inserters, Exchange
<1>9. Owners'
  <2>1. \A n \in free \cup {taken} : n # node[t]
    BY <1>1, <1>2, NodeAssumption DEF Owners, Elem
  <2> QED
    BY Zenon, <1>1, <1>5, <2>1 DEF Owners, Exchange, userVars
<1>10. Poller'
  <2>1. pc'[Consumer] = "last" => pc[Consumer] = "last" /\ t # Consumer
    BY <1>6 DEF Thread
  <2>2. pc'[Consumer] \in {"read_next", "read_head", "last"} => pc[Consumer] = pc'[Consumer]
    BY <1>6 DEF Thread
  <2>3. node[t] # Stub \/ t = Consumer
    BY <1>2
  <2>4. UNCHANGED <<tail, ctail, result, taken, cursor, node>>
    BY Zenon DEF Exchange, iterVars, userVars
  <2>5. node[t] # Stub => pos' = pos
    BY Zenon DEF Exchange
  <2>6. pc'[Consumer] = "last" => pos' # -1
    BY Zenon, <1>1, <2>1, <2>3, <2>5 DEF Poller
  <2>7. Polling' => Polling
    BY Zenon, <2>2, <2>4 DEF Polling
  <2> QED
    BY Zenon, <1>1, <2>4, <2>6, <2>7 DEF Poller
<1>11. Iterator'
  <2>1. pc'[Consumer] = "iter_stub" => pc[Consumer] = "iter_stub" /\ t # Consumer
    BY <1>6 DEF Thread
  <2>2. \A k \in DOMAIN fifo : k \in DOMAIN fifo' /\ fifo'[k] = fifo[k]
    <3>1. CASE node[t] = Stub
      BY <3>1 DEF Exchange
    <3>2. CASE node[t] # Stub
      BY <1>2, <1>3, <3>2 DEF Exchange, Elem
    <3> QED
      BY <3>1, <3>2
  <2>3. pc'[Consumer] = "iter_stub" => pos' = pos
    BY Zenon, <1>2, <2>1 DEF Exchange
  <2> QED
    BY Zenon, <1>1, <2>1, <2>2, <2>3 DEF Iterator, Exchange, iterVars, userVars
<1> QED
  BY <1>5, <1>7, <1>8, <1>9, <1>10, <1>11 DEF Inv

(* LinkNode() closes the gap that Exchange() left.                         *)
LEMMA LinkNodeInv ==
  ASSUME Inv, NEW t \in Thread, LinkNode(t)
  PROVE  Inv'
<1>1. /\ TypeOK /\ Chained /\ Inserters /\ Owners /\ Poller /\ Iterator
      /\ pc[t] = "link" /\ (node[t] = Stub => t = Consumer)
  BY Zenon DEF Inv, LinkNode, Inserters
<1> DEFINE label == IF node[t] = Stub THEN "last" ELSE "idle"
<1>2. label \in Label /\ label # "link"
  BY DEF Label
<1>3. Chained' /\ N' = N /\ \A k : C(k)' = C(k)
  BY Zenon, <1>1, <1>2, LinkChain DEF LinkNode, Goto
<1>4. \A n : Outside(n)' <=> Outside(n)
  BY <1>3 DEF Outside
<1>5. \A u \in Thread : /\ pc'[u] = (IF u = t THEN label ELSE pc[u])
                        /\ node'[u] = (IF u = t THEN NULL ELSE node[u])
  BY <1>1 DEF TypeOK, LinkNode, Goto
<1>6. PICK m \in 1 .. N - 1 : prev[t] = C(m) /\ node[t] = C(m + 1) /\ next[C(m)] = NULL
  BY <1>1 DEF Chained, Linkers
<1>7. N \in Nat /\ m \in 1 .. N /\ m + 1 \in 1 .. N /\ C(m) \in Elem /\ C(m + 1) \in Elem
  BY SMTT(60), <1>1, ChainElem DEF N, C, TypeOK
<1>8. TypeOK'
  <2>1. next' \in [Elem -> Link] /\ node[t] \in Link
    BY Zenon, <1>1, <1>6, <1>7 DEF TypeOK, LinkNode, Elem, Link
  <2>2. pc' \in [Thread -> Label]
    BY <1>1, <1>2 DEF TypeOK, LinkNode, Goto
  <2> QED
    BY Zenon, <1>1, <2>1, <2>2 DEF TypeOK, LinkNode, Link, iterVars, userVars, Elem
<1>9. Inserters'
  <2>1. \A u \in Thread : pc'[u] = "exchange" => u # t /\ node[u] # prev[t]
    <3> SUFFICES ASSUME NEW u \in Thread, pc'[u] = "exchange"
                 PROVE  u # t /\ node[u] # prev[t]
      BY Zenon
    <3>1. u # t /\ pc[u] = "exchange"
      BY Zenon, <1>5
    <3>2. Outside(node[u])
      BY <1>1, <3>1, Zenon DEF Inserters
    <3> QED
      BY Zenon, <1>6, <1>7, <3>1, <3>2 DEF Outside
  <2>2. \A u \in Thread : pc'[u] = "exchange" => next'[node[u]] = next[node[u]]
    <3> SUFFICES ASSUME NEW u \in Thread, pc'[u] = "exchange"
                 PROVE  next'[node[u]] = next[node[u]]
      BY Zenon
    <3>1. node[u] \in Elem
      BY SMTT(60), <1>1, <1>5, <2>1 DEF Inserters, TypeOK, Link, Elem
    <3> QED
      BY Zenon, <1>1, <2>1, <3>1 DEF LinkNode, TypeOK, Elem
  <2>3. ASSUME NEW u \in Thread
        PROVE  /\ node'[u] # NULL <=> pc'[u] \in {"exchange", "link"}
               /\ node'[u] = Stub => u = Consumer
               /\ pc'[u] = "exchange" => next'[node'[u]] = NULL /\ Outside(node'[u])
    <3>1. CASE u = t
      BY Zenon, <1>5, <3>1, NodeAssumption
    <3>2. CASE u # t
      <4>1. pc'[u] = pc[u] /\ node'[u] = node[u]
        BY Zenon, <1>5, <3>2
      <4> QED
        BY Zenon, <1>1, <2>2, <4>1 DEF Inserters
    <3> QED
      BY Zenon, <3>1, <3>2
  <2>4. \A u, w \in Thread : node'[u] = node'[w] /\ node'[u] # NULL => u = w
    BY Zenon, <1>1, <1>5 DEF Inserters
  <2>5. \A u \in Thread : Outside(node'[u]) => Outside(node[u])'
    BY <1>4, Zenon
  <2> QED
    BY <2>3, <2>4, <2>5, Zenon DEF Inserters
<1>10. Owners'
  BY SMTT(60), <1>1, <1>4, <1>5, NodeAssumption DEF Owners, LinkNode, userVars
<1>11. Poller'
  <2>1. Polling' => Polling
    BY Zenon, <1>1, <1>5, NodeAssumption DEF Polling, Thread
  <2>2. pc'[Consumer] = "last" => pos # -1
    <3>1. CASE t = Consumer /\ node[t] = Stub
      <4>1. ~Outside(Stub)
        BY <1>6, <1>7, <3>1 DEF Outside
      <4> QED
        BY <1>1, <4>1, StubPlace
    <3>2. CASE ~(t = Consumer /\ node[t] = Stub)
      BY <1>1, <1>5, <3>2 DEF Poller, Thread
    <3> QED
      BY <3>1, <3>2
  <2> QED
    BY Zenon, <1>1, <2>1, <2>2 DEF Poller, LinkNode, userVars, iterVars
<1>12. Iterator'
  <2>1. pc'[Consumer] = "iter_stub" => pc[Consumer] = "iter_stub"
    BY Zenon, <1>5 DEF Thread
  <2> QED
    BY Zenon, <1>1, <2>1 DEF Iterator, LinkNode, userVars, iterVars
<1> QED
  BY <1>3, <1>8, <1>9, <1>10, <1>11, <1>12 DEF Inv

(* The consumer alone moves, and no insertion does: what that keeps.       *)
LEMMA ConsumerMoves ==
  ASSUME TypeOK, Inserters, NEW label \in Label \ {"exchange", "link"},
         pc[Consumer] \notin {"exchange", "link"},
         pc' = [pc EXCEPT ![Consumer] = label], UNCHANGED insertVars
  PROVE  /\ SameLinkers
         /\ pc' \in [Thread -> Label] /\ pc'[Consumer] = label
         /\ UNCHANGED next /\ (\A n : Outside(n) => Outside(n)') => Inserters'
<1>1. \A u \in Thread : pc'[u] = (IF u = Consumer THEN label ELSE pc[u])
  BY DEF TypeOK
<1>2. SameLinkers
  BY <1>1 DEF SameLinkers, insertVars
<1>3. pc' \in [Thread -> Label] /\ pc'[Consumer] = label
  BY Zenon, <1>1 DEF TypeOK, Thread
<1>4. ASSUME UNCHANGED next, \A n : Outside(n) => Outside(n)'
      PROVE  Inserters'
  BY SMTT(60), <1>1, <1>4 DEF Inserters, insertVars
<1> QED
  BY <1>2, <1>3, <1>4

(* mpsc_queue_poll() and its end remove the first element of the chain.    *)
LEMMA ReturnItemInv ==
  ASSUME Inv, pc[Consumer] \notin {"exchange", "link"}, taken = NULL,
         tail # Stub, next[tail] # NULL, ReturnItem(tail),
         ctail' \in Node \cup {NULL}, settled' \subseteq Node,
         cursor' = NULL, nth' \in Nat,
         UNCHANGED <<head, next, insertVars, free, fronts>>
  PROVE  Inv'
<1>1. TypeOK /\ Chained /\ Inserters /\ Owners /\ Poller /\ Iterator
  BY DEF Inv
<1>2. /\ pc' = [pc EXCEPT ![Consumer] = "idle"] /\ result' = "ITEM" /\ taken' = tail
      /\ tail' = next[tail] /\ fifo' = Tail(fifo)
      /\ pos' = IF pos = -1 THEN -1 ELSE pos - 1
  BY DEF ReturnItem, Return, Goto
<1>3. "idle" \in Label \ {"exchange", "link"}
  BY DEF Label
<1>4. SameLinkers /\ pc' \in [Thread -> Label] /\ pc'[Consumer] = "idle"
  BY Zenon, <1>1, <1>2, <1>3, ConsumerMoves
<1>5. /\ Chained' /\ tail \in Node
      /\ fifo' \in Seq(Node) /\ pos' \in -1 .. Len(fifo') /\ tail' \in Elem
      /\ \A n : Outside(n) \/ n = tail => Outside(n)'
  BY Zenon, <1>1, <1>2, <1>4, RemoveFirst
<1>6. TypeOK'
  BY Zenon, <1>1, <1>2, <1>4, <1>5 DEF TypeOK, insertVars, Elem
<1>7. Inserters'
  BY Zenon, <1>1, <1>2, <1>3, <1>5, ConsumerMoves
<1>8. Owners'
  <2>1. N >= 1 /\ N \in Nat /\ tail = C(1)
    BY Zenon, <1>1, ChainElem DEF Chained, Ends, N, TypeOK
  <2>2. ~Outside(tail)
    BY <2>1 DEF Outside
  <2>3. tail \notin free
    BY <1>1, <2>2 DEF Owners
  <2>4. \A u \in Thread : node[u] # tail
    <3> SUFFICES ASSUME NEW u \in Thread, node[u] = tail PROVE FALSE
      OBVIOUS
    <3>1. pc[u] = "link"
      BY Zenon, <1>1, <1>5, <2>2, NodeAssumption DEF Inserters
    <3>2. PICK k \in 1 .. N - 1 : node[u] = C(k + 1)
      BY Zenon, <1>1, <3>1 DEF Chained, Linkers
    <3>3. k + 1 \in 1 .. N /\ 1 \in 1 .. N /\ k + 1 # 1
      BY <2>1
    <3> QED
      BY <1>1, <2>1, <3>2, <3>3 DEF Chained, Distinct
  <2> QED
    BY Zenon, <1>1, <1>2, <1>5, <2>3, <2>4 DEF Owners, insertVars
<1>9. Poller'
  <2>1. ~Polling'
    <3>1. node[Consumer] = NULL
      BY <1>1 DEF Inserters, Thread
    <3> QED
      BY <1>4, <3>1, NodeAssumption DEF Polling, insertVars
  <2> QED
    BY <1>4, <2>1 DEF Poller
<1>10. Iterator'
  BY <1>4 DEF Iterator
<1> QED
  BY <1>5, <1>6, <1>7, <1>8, <1>9, <1>10 DEF Inv
=============================================================================
