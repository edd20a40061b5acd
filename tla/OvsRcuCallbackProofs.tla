------------------------ MODULE OvsRcuCallbackProofs ------------------------
(***************************************************************************)
(* The order of callbacks in lib/ovs-rcu.c, and ovsrcu_barrier().          *)
(*                                                                         *)
(* The callbacks of a thread that are still to be called have consecutive  *)
(* numbers in the order popped, flushed, own set: popping puts them where  *)
(* nobody has any (module OvsRcuProofs), flushing keeps the order of the   *)
(* thread's own, and calling takes the first one.  ovsrcu_barrier() waits  *)
(* for the last of those that the thread has postponed by then.            *)
(***************************************************************************)
EXTENDS OvsRcuProofs

(* How long a prover may take where a proof does not say which one to use. *)
USE SMTT(20), ZenonT(20)

-----------------------------------------------------------------------------
(* The callbacks that are still to be called.                              *)

(* A thread's own set has its own callbacks.                               *)
Owned == \A t \in Thread : \A i \in DOMAIN cbset[t] : cbset[t][i].thread = t

(* ovsrcu_barrier() in t: its callback is the only one of its kind, it     *)
(* comes after what t had postponed, and it is called before the seq of t  *)
(* changes and before t returns.                                           *)
Barred(t) ==
  /\ owed[t][t] <= posted[t]
  /\ Has(todo[t], "barrier_post") => ~fired[t] /\ Bars(Queue(t), t) = {}
  /\ fired[t] => called[t] > owed[t][t] /\ Bars(Queue(t), t) = {}
  /\ Bars(Queue(t), t) # {} => Has(todo[t], "barrier_check")
  /\ \A m, n \in Bars(Queue(t), t) : m = n /\ n > owed[t][t]

(* All of it.                                                              *)
Outstanding == Owned /\ CallbacksInOrder /\ \A t \in Thread : Barred(t)

(* CallbacksInOrder says that queues are complete.                         *)
LEMMA CompleteQueues ==
  CallbacksInOrder <=>
    \A t \in Thread : Complete(Queue(t), t, called[t], posted[t])
BY Zenon DEF CallbacksInOrder, Complete

(* It is so after a step.                                                  *)
LEMMA CompleteQueuesNext ==
  CallbacksInOrder' <=>
    \A t \in Thread : Complete(Queue(t)', t, called'[t], posted'[t])
BY Zenon DEF CallbacksInOrder, Complete, Numbers, InOrder

(* What TypeOK says of queues.                                             *)
LEMMA QueueTypes ==
  ASSUME TypeOK, NEW t \in Thread
  PROVE  /\ cbset[t] \in Seq(Callback) /\ flushed_cbsets \in Seq(Callback)
         /\ batch[t] \in Seq(Callback) /\ batch[Main] \in Seq(Callback)
         /\ batch[Urcu] \in Seq(Callback) /\ Queue(t) \in Seq(Callback)
         /\ batch[Main] \o batch[Urcu] \in Seq(Callback)
         /\ posted[t] \in Nat /\ called[t] \in Nat /\ owed[t][t] \in Nat
<1>1. Main \in Thread /\ Urcu \in Thread
  BY ThreadAssumption DEF Thread
<1>2. /\ cbset \in [Thread -> Seq(Callback)] /\ flushed_cbsets \in Seq(Callback)
      /\ batch \in [Thread -> Seq(Callback)]
      /\ posted \in [Thread -> Nat] /\ called \in [Thread -> Nat]
      /\ owed \in [Thread -> [Thread -> Nat]]
  BY Zenon DEF TypeOK
<1>3. /\ cbset[t] \in Seq(Callback) /\ flushed_cbsets \in Seq(Callback)
      /\ batch[t] \in Seq(Callback) /\ batch[Main] \in Seq(Callback)
      /\ batch[Urcu] \in Seq(Callback)
      /\ posted[t] \in Nat /\ called[t] \in Nat /\ owed[t][t] \in Nat
  BY <1>1, <1>2
<1>4. batch[Main] \o batch[Urcu] \in Seq(Callback)
  BY <1>3, ConcatList
<1>5. batch[Main] \o batch[Urcu] \o flushed_cbsets \in Seq(Callback)
  BY <1>3, <1>4, ConcatList
<1>6. Queue(t) \in Seq(Callback)
  BY <1>3, <1>5, ConcatList DEF Queue
<1> QED
  BY Zenon, <1>3, <1>4, <1>6

(* A step that leaves the callback of a barrier where it is.               *)
LEMMA StaysBarred ==
  ASSUME TypeOK, NEW t \in Thread, Barred(t), Bars(Queue(t)', t) = Bars(Queue(t), t),
         posted'[t] \in Nat, posted'[t] >= posted[t],
         called'[t] \in Nat, called'[t] >= called[t],
         owed'[t] = owed[t], fired'[t] = fired[t],
         Has(todo'[t], "barrier_post") => Has(todo[t], "barrier_post"),
         Has(todo[t], "barrier_check") => Has(todo'[t], "barrier_check")
  PROVE  Barred(t)'
<1>1. posted[t] \in Nat /\ called[t] \in Nat /\ owed[t][t] \in Nat
  BY Zenon, QueueTypes
<1>2. owed[t][t] <= posted[t] => owed'[t][t] <= posted'[t]
  BY <1>1
<1>3. called[t] > owed[t][t] => called'[t] > owed'[t][t]
  BY <1>1
<1>4. Bars(Queue(t), t)' = Bars(Queue(t), t)
  BY Zenon DEF Bars
<1>5. /\ Has(todo[t], "barrier_post")' <=> Has(todo'[t], "barrier_post")
      /\ Has(todo[t], "barrier_check")' <=> Has(todo'[t], "barrier_check")
  BY Zenon DEF Has
<1>6. /\ owed[t][t] <= posted[t]
      /\ Has(todo[t], "barrier_post") => ~fired[t] /\ Bars(Queue(t), t) = {}
      /\ fired[t] => called[t] > owed[t][t] /\ Bars(Queue(t), t) = {}
      /\ Bars(Queue(t), t) # {} => Has(todo[t], "barrier_check")
      /\ \A m, n \in Bars(Queue(t), t) : m = n /\ n > owed[t][t]
  BY Zenon DEF Barred
<1> HIDE DEF Queue, Bars, Has
<1> QED
  BY Zenon, <1>2, <1>3, <1>4, <1>5, <1>6 DEF Barred

(* No thread is at another point of ovsrcu_barrier().                      *)
LEMMA SameBarred ==
  ASSUME TypeOK, NEW t \in Thread, Barred(t), Bars(Queue(t)', t) = Bars(Queue(t), t),
         posted'[t] \in Nat, posted'[t] >= posted[t],
         called'[t] \in Nat, called'[t] >= called[t],
         owed'[t] = owed[t], fired'[t] = fired[t], SameBarriers
  PROVE  Barred(t)'
BY Zenon, StaysBarred DEF SameBarriers

(* A step that has nothing to do with callbacks.                           *)
LEMMA QuietCalls ==
  ASSUME TypeOK, Outstanding, SameBarriers, UNCHANGED cbVars
  PROVE  Outstanding'
<1>1. UNCHANGED <<cbset, flushed_cbsets, batch, posted, called, fired, owed>>
  BY Zenon DEF cbVars
<1>2. \A t \in Thread : Queue(t)' = Queue(t)
  BY Zenon, <1>1 DEF Queue
<1>3. Owned'
  BY Zenon, <1>1 DEF Owned, Outstanding
<1>4. CallbacksInOrder'
  BY Zenon, <1>1, <1>2, CompleteQueues, CompleteQueuesNext DEF Outstanding
<1>5. ASSUME NEW t \in Thread PROVE Barred(t)'
  <2>1. posted'[t] \in Nat /\ posted'[t] >= posted[t]
    BY <1>1, QueueTypes
  <2>2. called'[t] \in Nat /\ called'[t] >= called[t]
    BY <1>1, QueueTypes
  <2>3. Barred(t) /\ owed'[t] = owed[t] /\ fired'[t] = fired[t]
    BY Zenon, <1>1 DEF Outstanding
  <2>4. Bars(Queue(t)', t) = Bars(Queue(t), t)
    BY Zenon, <1>2
  <2> QED
    BY Zenon, <2>1, <2>2, <2>3, <2>4, SameBarred
<1> QED
  BY Zenon, <1>3, <1>4, <1>5 DEF Outstanding

(* A step that moves callbacks but neither postpones nor calls any.        *)
LEMMA MovedCalls ==
  ASSUME TypeOK, Outstanding, SameBarriers, UNCHANGED <<posted, called, fired, owed>>, Owned',
         \A t \in Thread :
           /\ Bars(Queue(t)', t) = Bars(Queue(t), t)
           /\ Complete(Queue(t), t, called[t], posted[t])
                => Complete(Queue(t)', t, called[t], posted[t])
  PROVE  Outstanding'
<1>1. CallbacksInOrder'
  BY Zenon, CompleteQueues, CompleteQueuesNext DEF Outstanding
<1>2. ASSUME NEW t \in Thread PROVE Barred(t)'
  <2>1. posted'[t] \in Nat /\ posted'[t] >= posted[t]
    BY QueueTypes
  <2>2. called'[t] \in Nat /\ called'[t] >= called[t]
    BY QueueTypes
  <2>3. Barred(t) /\ owed'[t] = owed[t] /\ fired'[t] = fired[t]
    BY Zenon DEF Outstanding
  <2> QED
    BY Zenon, <2>1, <2>2, <2>3, SameBarred
<1> QED
  BY Zenon, <1>1, <1>2 DEF Outstanding

(* ovsrcu_flush_cbset__(): what t flushes comes after what was flushed.    *)
LEMMA PushCalls ==
  ASSUME TypeOK, Order, Callers, Outstanding, NEW t \in Thread, PushCbset(t)
  PROVE  Outstanding'
<1>1. /\ flushed_cbsets' = flushed_cbsets \o cbset[t]
      /\ cbset' = [cbset EXCEPT ![t] = <<>>]
      /\ UNCHANGED <<batch, posted, called, fired, owed>>
  BY Zenon DEF PushCbset
<1>2. cbset \in [Thread -> Seq(Callback)]
  BY Zenon DEF TypeOK
<1>3. cbset'[t] = <<>> /\ \A u \in Thread \ {t} : cbset'[u] = cbset[u]
  BY Zenon, <1>1, <1>2
<1>4. SameBarriers
  BY Zenon, PushCallers
<1>5. Owned'
  <2> SUFFICES ASSUME NEW u \in Thread, NEW i \in DOMAIN cbset'[u]
               PROVE  cbset'[u][i].thread = u
    BY Zenon DEF Owned
  <2>1. u # t
    <3>1. DOMAIN <<>> = {}
      OBVIOUS
    <3> QED
      BY <1>3, <3>1
  <2> QED
    BY Zenon, <1>3, <2>1 DEF Outstanding, Owned
<1>6. ASSUME NEW u \in Thread
      PROVE  /\ Bars(Queue(u)', u) = Bars(Queue(u), u)
             /\ Complete(Queue(u), u, called[u], posted[u])
                  => Complete(Queue(u)', u, called[u], posted[u])
  <2> DEFINE p == batch[Main] \o batch[Urcu]
             f == flushed_cbsets
             c == cbset[t]
             d == cbset[u]
  <2>1. p \in Seq(Callback) /\ f \in Seq(Callback) /\ c \in Seq(Callback)
    BY Zenon, QueueTypes
  <2>2. d \in Seq(Callback)
    BY Zenon, QueueTypes
  <2>3. Queue(u) = (p \o f) \o d /\ Queue(u)' = (p \o (f \o c)) \o cbset'[u]
    BY Zenon, <1>1 DEF Queue
  <2>4. c = cbset[t] /\ d = cbset[u]
    OBVIOUS
  <2> HIDE DEF p, f, c, d
  <2>5. p \o f \in Seq(Callback) /\ f \o c \in Seq(Callback)
    BY <2>1, ConcatList
  <2>6. p \o (f \o c) = (p \o f) \o c
    BY Zenon, <2>1, QueueAssociates
  <2>7. CASE u = t
    <3>1. ((p \o f) \o c) \in Seq(Callback)
      BY <2>1, <2>5, ConcatList
    <3>2. ((p \o f) \o c) \o <<>> = (p \o f) \o c
      BY Zenon, <3>1, QueueEmpty
    <3>3. Queue(u)' = Queue(u)
      BY Zenon, <1>3, <2>3, <2>4, <2>6, <2>7, <3>2
    <3> QED
      BY Zenon, <3>3
  <2>8. CASE u # t
    <3>1. \A i \in DOMAIN c : c[i].thread # u
      BY Zenon, <2>4, <2>8 DEF Outstanding, Owned
    <3>2. Queue(u)' = ((p \o f) \o c) \o d
      BY Zenon, <1>3, <2>3, <2>4, <2>6, <2>8
    <3>3. /\ Numbers(((p \o f) \o c) \o d, u) = Numbers((p \o f) \o d, u)
          /\ Bars(((p \o f) \o c) \o d, u) = Bars((p \o f) \o d, u)
          /\ InOrder((p \o f) \o d, u) => InOrder(((p \o f) \o c) \o d, u)
      BY Zenon, <2>1, <2>2, <2>5, <3>1, QueueMiddle
    <3> QED
      BY Zenon, <2>3, <3>2, <3>3 DEF Complete
  <2> QED
    BY Zenon, <2>7, <2>8
<1> QED
  BY Zenon, <1>1, <1>4, <1>5, <1>6, MovedCalls

(* Only one thread at a time has popped what was flushed.                  *)
LEMMA OneBatch ==
  ASSUME TypeOK, Order, Callers, NEW t \in Thread, NEW step \in Takes, At(t, step)
  PROVE  /\ t \in {Main, Urcu} /\ Main # Urcu /\ Main \in Thread /\ Urcu \in Thread
         /\ \A u \in {Main, Urcu} \ {t} : batch[u] = <<>>
<1>1. Main # Urcu /\ Main \in Thread /\ Urcu \in Thread
  BY ThreadAssumption DEF Thread
<1>2. Has(todo[t], step)
  BY Zenon, HasHead
<1>3. t = Main \/ t = Urcu
  BY Zenon, <1>2, OnlyTwo DEF Leads
<1>4. ASSUME NEW u \in Thread, ~Has(todo[u], "call") PROVE batch[u] = <<>>
  BY Zenon, <1>4 DEF Order, Holders
<1>5. "call" \in Takes
  BY DEF Takes
<1>6. CASE t = Main
  <2>1. CASE ~multithreaded
    <3>1. todo[Urcu] = <<"unborn">>
      BY Zenon, <1>1, <2>1 DEF Order, Unborn
    <3> QED
      BY Zenon, <1>1, <1>6, <3>1, NothingUnborn DEF Order
  <2>2. CASE multithreaded
    <3>1. Urcu \in arrived
      BY Zenon, <1>2, <1>6, <2>2 DEF Callers, MainCalls
    <3>2. ~Has(todo[Urcu], "call")
      BY Zenon, <1>5, <3>1 DEF Callers, UrcuCalls
    <3> QED
      BY Zenon, <1>1, <1>4, <1>6, <3>2
  <2> QED
    BY Zenon, <2>1, <2>2
<1>7. CASE t = Urcu
  <2>1. Urcu \notin arrived
    BY Zenon, <1>2, <1>7 DEF Callers, UrcuCalls
  <2>2. multithreaded
    <3>1. todo[Urcu] # <<"unborn">>
      BY <1>7 DEF At, Takes
    <3> QED
      BY Zenon, <1>1, <3>1 DEF Order, Unborn
  <2>3. ~Has(todo[Main], "call")
    BY Zenon, <1>5, <2>1, <2>2 DEF Callers, MainCalls
  <2> QED
    BY Zenon, <1>1, <1>4, <1>7, <2>3
<1> QED
  BY Zenon, <1>1, <1>3, <1>6, <1>7

(* The batches of both threads, when one of them is empty.                 *)
LEMMA Batches ==
  ASSUME NEW f, NEW t \in {Main, Urcu}, Main # Urcu, f[t] \in Seq(Callback),
         \A u \in {Main, Urcu} \ {t} : f[u] = <<>>
  PROVE  f[Main] \o f[Urcu] = f[t]
<1>1. CASE t = Main
  <2>1. f[Urcu] = <<>>
    BY Zenon, <1>1
  <2> QED
    BY Zenon, <1>1, <2>1, QueueEmpty
<1>2. CASE t = Urcu
  <2>1. f[Main] = <<>>
    BY Zenon, <1>2
  <2> QED
    BY Zenon, <1>2, <2>1, QueueEmpty
<1> QED
  BY Zenon, <1>1, <1>2

(* guarded_list_pop_all(): the callbacks that were flushed are now in the  *)
(* thread that calls them, where there were none.                          *)
LEMMA PopAllCalls ==
  ASSUME TypeOK, Order, Callers, Outstanding, NEW t \in Thread, PopAll(t)
  PROVE  Outstanding'
<1>1. /\ At(t, "pop_all") /\ batch' = [batch EXCEPT ![t] = flushed_cbsets]
      /\ flushed_cbsets' = <<>> /\ UNCHANGED <<cbset, posted, called, fired, owed>>
  BY Zenon DEF PopAll
<1>2. "pop_all" \in Takes
  BY DEF Takes
<1>3. /\ t \in {Main, Urcu} /\ Main # Urcu /\ Main \in Thread /\ Urcu \in Thread
      /\ \A u \in {Main, Urcu} \ {t} : batch[u] = <<>>
  BY Zenon, <1>1, <1>2, OneBatch
<1>4. batch[t] = <<>>
  BY Zenon, PopAllInv
<1>5. batch \in [Thread -> Seq(Callback)]
  BY Zenon DEF TypeOK
<1>6. batch'[t] = flushed_cbsets /\ \A u \in Thread \ {t} : batch'[u] = batch[u]
  BY Zenon, <1>1, <1>5
<1>7. flushed_cbsets \in Seq(Callback) /\ batch[t] \in Seq(Callback)
  BY Zenon, QueueTypes
<1>8. batch[Main] \o batch[Urcu] = <<>>
  BY Zenon, <1>3, <1>4, <1>7, Batches
<1>9. batch'[Main] \o batch'[Urcu] = flushed_cbsets
  <2>1. \A u \in {Main, Urcu} \ {t} : batch'[u] = <<>>
    BY Zenon, <1>3, <1>6
  <2> QED
    BY Zenon, <1>3, <1>6, <1>7, <2>1, Batches
<1>10. ASSUME NEW u \in Thread PROVE Queue(u)' = Queue(u)
  <2>1. Queue(u) = (<<>> \o flushed_cbsets) \o cbset[u]
    BY Zenon, <1>8 DEF Queue
  <2>2. Queue(u)' = (flushed_cbsets \o <<>>) \o cbset[u]
    BY Zenon, <1>1, <1>9 DEF Queue
  <2> QED
    BY Zenon, <1>7, <2>1, <2>2, QueueEmpty
<1>11. Owned'
  BY Zenon, <1>1 DEF Outstanding, Owned
<1>12. SameBarriers
  BY Zenon, PopAllCallers
<1> QED
  BY Zenon, <1>1, <1>10, <1>11, <1>12, MovedCalls

(* The kinds of callbacks.                                                 *)
Kinds == {"free", "again", "barrier"}

(* ovsrcu_postpone__(): one more callback in the set of the thread.        *)
LEMMA Postpones ==
  ASSUME TypeOK, NEW t \in Thread, NEW kind \in Kinds,
         NEW obj \in Obj \cup {NONE}, ovsrcu_postpone__(t, kind, obj)
  PROVE  \E cb \in Callback :
           /\ cb.thread = t /\ cb.n = posted[t] + 1 /\ cb.kind = kind
           /\ cbset'[t] = cbset[t] \o <<cb>>
           /\ \A u \in Thread \ {t} : cbset'[u] = cbset[u]
           /\ posted'[t] = posted[t] + 1
           /\ \A u \in Thread \ {t} : posted'[u] = posted[u]
<1> DEFINE cb == [thread |-> t, n |-> posted[t] + 1, kind |-> kind, obj |-> obj]
<1>1. posted[t] \in Nat /\ cbset[t] \in Seq(Callback)
  BY Zenon, QueueTypes
<1>2. cb \in Callback
  BY <1>1 DEF Callback, Kinds
<1>3. cb.thread = t /\ cb.n = posted[t] + 1 /\ cb.kind = kind
  OBVIOUS
<1>4. /\ cbset' = [cbset EXCEPT ![t] = Append(@, cb)]
      /\ posted' = [posted EXCEPT ![t] = @ + 1]
  BY Zenon DEF ovsrcu_postpone__
<1> HIDE DEF cb
<1>5. cbset \in [Thread -> Seq(Callback)] /\ posted \in [Thread -> Nat]
  BY Zenon DEF TypeOK
<1>6. /\ cbset'[t] = Append(cbset[t], cb) /\ posted'[t] = posted[t] + 1
      /\ \A u \in Thread \ {t} : cbset'[u] = cbset[u] /\ posted'[u] = posted[u]
  BY Zenon, <1>4, <1>5
<1>7. Append(cbset[t], cb) = cbset[t] \o <<cb>>
  BY Zenon, <1>1, <1>2, QueueEnds
<1> QED
  BY Zenon, <1>2, <1>3, <1>6, <1>7

(* The set of a thread that postpones has its callbacks.                   *)
LEMMA PostponesOwned ==
  ASSUME TypeOK, Owned, NEW t \in Thread, NEW cb \in Callback, cb.thread = t,
         cbset'[t] = cbset[t] \o <<cb>>,
         \A u \in Thread \ {t} : cbset'[u] = cbset[u]
  PROVE  Owned'
<1> SUFFICES ASSUME NEW u \in Thread, NEW i \in DOMAIN cbset'[u]
             PROVE  cbset'[u][i].thread = u
  BY Zenon DEF Owned
<1>1. CASE u # t
  BY Zenon, <1>1 DEF Owned
<1>2. CASE u = t
  <2> DEFINE s == cbset[t]
  <2>1. s \in Seq(Callback) /\ <<cb>> \in Seq(Callback)
    BY Zenon, QueueTypes, QueueEnds
  <2>2. \A j \in DOMAIN s : s[j].thread = t
    BY Zenon DEF Owned
  <2>3. i \in DOMAIN (s \o <<cb>>) /\ cbset'[u] = s \o <<cb>>
    BY Zenon, <1>2
  <2> HIDE DEF s
  <2>4. (s \o <<cb>>)[i].thread = t
    BY <2>1, <2>2, <2>3
  <2> QED
    BY Zenon, <1>2, <2>3, <2>4
<1> QED
  BY Zenon, <1>1, <1>2

(* The queues, then.                                                       *)
LEMMA PostponesQueue ==
  ASSUME TypeOK, Outstanding, NEW t \in Thread, NEW cb \in Callback, cb.thread = t,
         cb.n = posted[t] + 1, cbset'[t] = cbset[t] \o <<cb>>,
         \A u \in Thread \ {t} : cbset'[u] = cbset[u],
         posted'[t] = posted[t] + 1, \A u \in Thread \ {t} : posted'[u] = posted[u],
         UNCHANGED <<flushed_cbsets, batch, called>>
  PROVE  /\ Owned' /\ CallbacksInOrder'
         /\ Bars(Queue(t)', t) =
              Bars(Queue(t), t) \cup IF cb.kind = "barrier" THEN {cb.n} ELSE {}
         /\ \A u \in Thread \ {t} : Queue(u)' = Queue(u)
<1>1. Owned'
  BY Zenon, PostponesOwned DEF Outstanding
<1>2. \A u \in Thread \ {t} : Queue(u)' = Queue(u)
  BY Zenon DEF Queue
<1>3. Queue(t)' = Queue(t) \o <<cb>>
  <2> DEFINE p == batch[Main] \o batch[Urcu] \o flushed_cbsets
  <2>1. p \in Seq(Callback)
    <3>1. batch[Main] \o batch[Urcu] \in Seq(Callback) /\ flushed_cbsets \in Seq(Callback)
      BY Zenon, QueueTypes
    <3> QED
      BY <3>1, ConcatList
  <2>2. cbset[t] \in Seq(Callback) /\ <<cb>> \in Seq(Callback)
    BY Zenon, QueueTypes, QueueEnds
  <2>3. Queue(t) = p \o cbset[t] /\ Queue(t)' = p \o (cbset[t] \o <<cb>>)
    BY Zenon DEF Queue
  <2> HIDE DEF p
  <2>4. (p \o cbset[t]) \o <<cb>> = p \o (cbset[t] \o <<cb>>)
    BY Zenon, <2>1, <2>2, QueueAssociates
  <2> QED
    BY Zenon, <2>3, <2>4
<1>4. \A u \in Thread : Complete(Queue(u), u, called[u], posted[u])
  BY Zenon, CompleteQueues DEF Outstanding
<1>5. Queue(t) \in Seq(Callback) /\ called[t] \in Nat /\ posted[t] \in Nat
  BY Zenon, QueueTypes
<1>6. /\ Complete(Queue(t) \o <<cb>>, t, called[t],
                  IF cb.thread = t THEN posted[t] + 1 ELSE posted[t])
      /\ Bars(Queue(t) \o <<cb>>, t) = Bars(Queue(t), t) \cup Bars(<<cb>>, t)
  BY Zenon, <1>4, <1>5, QueueAppend
<1>7. CallbacksInOrder'
  BY Zenon, <1>2, <1>3, <1>4, <1>6, CompleteQueuesNext
<1>8. Bars(<<cb>>, t) = IF cb.thread = t /\ cb.kind = "barrier" THEN {cb.n} ELSE {}
  BY Zenon, QueueOne
<1>9. Bars(<<cb>>, t) = IF cb.kind = "barrier" THEN {cb.n} ELSE {}
  BY Zenon, <1>8
<1> QED
  BY Zenon, <1>1, <1>2, <1>3, <1>6, <1>7, <1>9


(* A callback other than that of ovsrcu_barrier() is postponed.            *)
LEMMA ChangeCalls ==
  ASSUME TypeOK, Callers, Outstanding, NEW t \in Thread, NEW call,
         NEW kind \in {"free", "again"}, Change(t, call, kind), SameBarriers
  PROVE  Outstanding'
<1>1. /\ ovsrcu_postpone__(t, kind, ptr)
      /\ UNCHANGED <<flushed_cbsets, batch, called, fired, owed>>
  BY Zenon DEF Change
<1>2. kind \in Kinds /\ kind # "barrier"
  BY DEF Kinds
<1>3. ptr \in Obj \cup {NONE}
  BY Zenon DEF TypeOK
<1>4. PICK cb \in Callback :
        /\ cb.thread = t /\ cb.n = posted[t] + 1 /\ cb.kind = kind
        /\ cbset'[t] = cbset[t] \o <<cb>>
        /\ \A u \in Thread \ {t} : cbset'[u] = cbset[u]
        /\ posted'[t] = posted[t] + 1
        /\ \A u \in Thread \ {t} : posted'[u] = posted[u]
  BY Zenon, <1>1, <1>2, <1>3, Postpones
<1>5. /\ Owned' /\ CallbacksInOrder'
      /\ Bars(Queue(t)', t) =
           Bars(Queue(t), t) \cup IF cb.kind = "barrier" THEN {cb.n} ELSE {}
      /\ \A u \in Thread \ {t} : Queue(u)' = Queue(u)
  BY Zenon, <1>1, <1>4, PostponesQueue
<1>6. ASSUME NEW u \in Thread PROVE Barred(u)'
  <2>1. Bars(Queue(u)', u) = Bars(Queue(u), u)
    <3>1. CASE u = t
      <4> DEFINE old == Bars(Queue(t), t)
                 new == Bars(Queue(t)', t)
      <4>1. new = old \cup IF cb.kind = "barrier" THEN {cb.n} ELSE {}
        BY Zenon, <1>5
      <4>2. cb.kind # "barrier"
        BY Zenon, <1>2, <1>4
      <4> HIDE DEF old, new
      <4>3. new = old
        BY <4>1, <4>2
      <4> QED
        BY Zenon, <3>1, <4>3 DEF old, new
    <3>2. CASE u # t
      BY Zenon, <1>5, <3>2
    <3> QED
      BY Zenon, <3>1, <3>2
  <2>2. posted[u] \in Nat /\ called[u] \in Nat
    BY Zenon, QueueTypes
  <2>3. posted'[u] = posted[u] + 1 \/ posted'[u] = posted[u]
    BY Zenon, <1>4
  <2>4. posted'[u] \in Nat /\ posted'[u] >= posted[u]
    BY <2>2, <2>3
  <2>5. called'[u] \in Nat /\ called'[u] >= called[u]
    BY <1>1, <2>2
  <2>6. Barred(u) /\ owed'[u] = owed[u] /\ fired'[u] = fired[u]
    BY Zenon, <1>1 DEF Outstanding
  <2> QED
    BY Zenon, <2>1, <2>4, <2>5, <2>6, SameBarred
<1> QED
  BY Zenon, <1>5, <1>6 DEF Outstanding

(* ovsrcu_barrier() postpones its callback, the only one of its kind.      *)
LEMMA BarrierPostCalls ==
  ASSUME TypeOK, Callers, Outstanding, NEW t \in Thread, BarrierPost(t), SameBarriers
  PROVE  Outstanding'
<1>1. /\ At(t, "barrier_post") /\ ovsrcu_postpone__(t, "barrier", NONE)
      /\ Then(t, <<>>)
      /\ UNCHANGED <<flushed_cbsets, batch, called, fired, owed>>
  BY Zenon DEF BarrierPost
<1>2. PICK cb \in Callback :
        /\ cb.thread = t /\ cb.n = posted[t] + 1 /\ cb.kind = "barrier"
        /\ cbset'[t] = cbset[t] \o <<cb>>
        /\ \A u \in Thread \ {t} : cbset'[u] = cbset[u]
        /\ posted'[t] = posted[t] + 1
        /\ \A u \in Thread \ {t} : posted'[u] = posted[u]
  <2>1. "barrier" \in Kinds /\ NONE \in Obj \cup {NONE}
    BY DEF Kinds
  <2> QED
    BY Zenon, <1>1, <2>1, Postpones
<1>3. /\ Owned' /\ CallbacksInOrder'
      /\ Bars(Queue(t)', t) =
           Bars(Queue(t), t) \cup IF cb.kind = "barrier" THEN {cb.n} ELSE {}
      /\ \A u \in Thread \ {t} : Queue(u)' = Queue(u)
  BY Zenon, <1>1, <1>2, PostponesQueue
<1>4. /\ todo[t] \in Seq(Steps) /\ todo[t] # <<>> /\ Head(todo[t]) = "barrier_post"
      /\ Has(todo[t], "barrier_post")
  BY Zenon, <1>1, HasHead
<1>5. /\ ~fired[t] /\ Bars(Queue(t), t) = {} /\ owed[t][t] <= posted[t]
  BY Zenon, <1>4 DEF Outstanding, Barred
<1>6. Barred(t)'
  <2>1. Posts(todo[t])
    BY Zenon DEF Callers
  <2>2. todo'[t] = <<>> \o Tail(todo[t])
    <3>1. todo \in [Thread -> Seq(Steps)]
      BY Zenon DEF TypeOK
    <3> QED
      BY Zenon, <1>1, <3>1 DEF Then
  <2>3. ~Has(todo'[t], "barrier_post") /\ Has(todo[t], "barrier_check")
    <3> DEFINE s == todo[t]
    <3>1. s \in Seq(Steps) /\ s # <<>> /\ Head(s) = "barrier_post" /\ Posts(s)
      BY Zenon, <1>4, <2>1
    <3>2. todo'[t] = <<>> \o Tail(s)
      BY Zenon, <2>2
    <3> HIDE DEF s
    <3>3. /\ DOMAIN s = 1 .. Len(s) /\ Len(s) \in Nat /\ Len(s) >= 1
          /\ Head(s) = s[1] /\ Tail(s) \in Seq(Steps)
          /\ DOMAIN Tail(s) = 1 .. Len(s) - 1
          /\ \A i \in 1 .. Len(s) - 1 : Tail(s)[i] = s[i + 1]
      BY <3>1, TailList
    <3>4. 1 \in DOMAIN s /\ s[1] = "barrier_post"
      BY <3>1, <3>3
    <3>5. \A j \in DOMAIN s : s[j] = "barrier_post" => j = 1
      BY Zenon, <3>1, <3>4 DEF Posts
    <3>6. ~Has(Tail(s), "barrier_post")
      BY <3>3, <3>5 DEF Has
    <3>7. <<>> \o Tail(s) = Tail(s)
      BY <3>3
    <3>8. Has(s, "barrier_check")
      BY Zenon, <3>1, <3>4 DEF Posts, Has
    <3> QED
      BY Zenon, <3>2, <3>6, <3>7, <3>8 DEF s
  <2>4. Has(todo'[t], "barrier_check")
    BY Zenon, <2>3 DEF SameBarriers
  <2>5. Bars(Queue(t)', t) = {posted[t] + 1}
    <3>1. Bars(Queue(t)', t) = Bars(Queue(t), t) \cup {posted[t] + 1}
      BY Zenon, <1>2, <1>3
    <3> QED
      BY <1>5, <3>1
  <2>6. posted[t] \in Nat /\ owed[t][t] \in Nat
    BY Zenon, QueueTypes
  <2>7. owed'[t][t] <= posted'[t] /\ ~fired'[t] /\ posted[t] + 1 > owed'[t][t]
    BY <1>1, <1>2, <1>5, <2>6
  <2> QED
    BY Zenon, <2>3, <2>4, <2>5, <2>7 DEF Barred, Has, Bars
<1>7. ASSUME NEW u \in Thread \ {t} PROVE Barred(u)'
  <2>1. Bars(Queue(u)', u) = Bars(Queue(u), u)
    BY Zenon, <1>3
  <2>2. posted[u] \in Nat /\ called[u] \in Nat
    BY Zenon, QueueTypes
  <2>3. posted'[u] \in Nat /\ posted'[u] >= posted[u]
    BY <1>2, <2>2
  <2>4. called'[u] \in Nat /\ called'[u] >= called[u]
    BY <1>1, <2>2
  <2>5. Barred(u) /\ owed'[u] = owed[u] /\ fired'[u] = fired[u]
    BY Zenon, <1>1 DEF Outstanding
  <2> QED
    BY Zenon, <2>1, <2>3, <2>4, <2>5, SameBarred
<1> QED
  BY Zenon, <1>3, <1>6, <1>7 DEF Outstanding

(* The callback that a thread calls is the first in each queue.            *)
LEMMA CallQueue ==
  ASSUME TypeOK, Order, Callers, NEW t \in Thread, Call(t)
  PROVE  /\ Head(batch[t]) \in Callback
         /\ \A u \in Thread :
              /\ (Tail(batch[t]) \o flushed_cbsets) \o cbset[u] \in Seq(Callback)
              /\ Queue(u) = <<Head(batch[t])>>
                              \o ((Tail(batch[t]) \o flushed_cbsets) \o cbset[u])
              /\ Queue(u)' = (Tail(batch[t]) \o flushed_cbsets) \o cbset'[u]
<1>1. /\ At(t, "call") /\ batch[t] # <<>>
      /\ batch' = [batch EXCEPT ![t] = Tail(@)] /\ UNCHANGED flushed_cbsets
  BY Zenon DEF Call
<1>2. "call" \in Takes
  BY DEF Takes
<1>3. /\ t \in {Main, Urcu} /\ Main # Urcu /\ Main \in Thread /\ Urcu \in Thread
      /\ \A u \in {Main, Urcu} \ {t} : batch[u] = <<>>
  BY Zenon, <1>1, <1>2, OneBatch
<1>4. batch \in [Thread -> Seq(Callback)]
  BY Zenon DEF TypeOK
<1>5. batch'[t] = Tail(batch[t]) /\ \A u \in Thread \ {t} : batch'[u] = batch[u]
  BY Zenon, <1>1, <1>4
<1> DEFINE h == <<Head(batch[t])>>
           b == Tail(batch[t])
           f == flushed_cbsets
<1>6. flushed_cbsets \in Seq(Callback) /\ batch[t] \in Seq(Callback)
  BY Zenon, QueueTypes
<1>7. /\ Head(batch[t]) \in Callback /\ h \in Seq(Callback) /\ b \in Seq(Callback)
      /\ batch[t] = h \o b /\ f \in Seq(Callback)
  BY Zenon, <1>1, <1>6, QueueEnds
<1>8. batch[Main] \o batch[Urcu] = h \o b
  BY Zenon, <1>3, <1>6, <1>7, Batches
<1>9. batch'[Main] \o batch'[Urcu] = b
  <2>1. \A u \in {Main, Urcu} \ {t} : batch'[u] = <<>>
    BY Zenon, <1>3, <1>5
  <2> QED
    BY Zenon, <1>3, <1>5, <1>7, <2>1, Batches
<1>10. ASSUME NEW u \in Thread
       PROVE  /\ (b \o f) \o cbset[u] \in Seq(Callback)
              /\ Queue(u) = h \o ((b \o f) \o cbset[u])
              /\ Queue(u)' = (b \o f) \o cbset'[u]
  <2>1. Queue(u) = ((h \o b) \o f) \o cbset[u] /\ Queue(u)' = (b \o f) \o cbset'[u]
    BY Zenon, <1>1, <1>8, <1>9 DEF Queue
  <2> DEFINE c == cbset[u]
  <2>2. c \in Seq(Callback)
    BY Zenon, QueueTypes
  <2>3. Queue(u) = ((h \o b) \o f) \o c /\ Queue(u)' = (b \o f) \o cbset'[u]
    BY Zenon, <2>1
  <2> HIDE DEF h, b, f, c
  <2>4. b \o f \in Seq(Callback)
    BY <1>7, ConcatList
  <2>5. (b \o f) \o c \in Seq(Callback)
    BY <2>2, <2>4, ConcatList
  <2>6. (h \o b) \o f = h \o (b \o f)
    BY Zenon, <1>7, QueueAssociates
  <2>7. (h \o (b \o f)) \o c = h \o ((b \o f) \o c)
    <3> DEFINE d == b \o f
    <3>1. h \in Seq(Callback) /\ d \in Seq(Callback) /\ c \in Seq(Callback)
      BY Zenon, <1>7, <2>2, <2>4
    <3> HIDE DEF d
    <3>2. (h \o d) \o c = h \o (d \o c)
      BY ZenonT(30), <3>1, QueueAssociates
    <3> QED
      BY Zenon, <3>2 DEF d
  <2>8. Queue(u) = h \o ((b \o f) \o c)
    BY Zenon, <2>3, <2>6, <2>7
  <2> QED
    BY Zenon, <2>3, <2>5, <2>8 DEF c
<1> QED
  BY Zenon, <1>7, <1>10

(* The callbacks of barriers are callbacks.                                *)
LEMMA BarsAreNumbers ==
  ASSUME NEW q, NEW t
  PROVE  Bars(q, t) \subseteq Numbers(q, t)
BY Zenon DEF Bars, Numbers

(* What is left after the call, and what the callback postponed.           *)
LEMMA CallLeaves ==
  ASSUME TypeOK, Order, Callers, Outstanding, NEW t \in Thread, Call(t), NEW r,
         NEW u \in Thread,
         r = (Tail(batch[t]) \o flushed_cbsets) \o cbset[u],
         r \in Seq(Callback), NEW lo \in Nat, Complete(r, u, lo, posted[u])
  PROVE  /\ Complete(Queue(u)', u, lo, posted'[u]) /\ Bars(Queue(u)', u) = Bars(r, u)
         /\ posted'[u] \in Nat /\ posted'[u] >= posted[u]
         /\ \A i \in DOMAIN cbset'[u] : cbset'[u][i].thread = u
<1> DEFINE cb == Head(batch[t])
           p == Tail(batch[t]) \o flushed_cbsets
<1>1. Queue(u)' = p \o cbset'[u] /\ cb \in Callback
  BY Zenon, CallQueue
<1>2. r = p \o cbset[u]
  OBVIOUS
<1>3. posted[u] \in Nat /\ posted[t] \in Nat
  BY Zenon, QueueTypes
<1>4. Owned
  BY Zenon DEF Outstanding
<1>5. IF cb.kind = "again" THEN ovsrcu_postpone__(t, "free", cb.obj)
                           ELSE UNCHANGED <<cbset, posted>>
  BY Zenon DEF Call
<1>6. p \in Seq(Callback)
  <2>1. /\ At(t, "call") /\ batch[t] # <<>>
    BY Zenon DEF Call
  <2>2. Tail(batch[t]) \in Seq(Callback) /\ flushed_cbsets \in Seq(Callback)
    BY Zenon, <2>1, QueueTypes, QueueEnds
  <2> QED
    BY <2>2, ConcatList
<1> HIDE DEF cb, p
<1>7. CASE cbset'[u] = cbset[u] /\ posted'[u] = posted[u]
  <2>1. Queue(u)' = r
    BY Zenon, <1>1, <1>2, <1>7
  <2>2. posted'[u] \in Nat /\ posted'[u] >= posted[u]
    BY <1>3, <1>7
  <2> QED
    BY Zenon, <1>4, <1>7, <2>1, <2>2 DEF Owned
<1>8. CASE cb.kind = "again"
  <2>1. cb.obj \in Obj \cup {NONE} /\ "free" \in Kinds
    BY <1>1 DEF Callback, Kinds
  <2>2. PICK new \in Callback :
          /\ new.thread = t /\ new.n = posted[t] + 1 /\ new.kind = "free"
          /\ cbset'[t] = cbset[t] \o <<new>>
          /\ \A v \in Thread \ {t} : cbset'[v] = cbset[v]
          /\ posted'[t] = posted[t] + 1
          /\ \A v \in Thread \ {t} : posted'[v] = posted[v]
    BY Zenon, <1>5, <1>8, <2>1, Postpones
  <2>3. CASE u # t
    BY Zenon, <1>7, <2>2, <2>3
  <2>4. CASE u = t
    <3>1. cbset[t] \in Seq(Callback) /\ <<new>> \in Seq(Callback)
      BY Zenon, QueueTypes, QueueEnds
    <3>2. (p \o cbset[t]) \o <<new>> = p \o (cbset[t] \o <<new>>)
      BY Zenon, <1>6, <3>1, QueueAssociates
    <3>3. Queue(t)' = r \o <<new>>
      BY Zenon, <1>1, <1>2, <2>2, <2>4, <3>2
    <3>4. /\ Complete(r \o <<new>>, t, lo,
                      IF new.thread = t THEN posted[t] + 1 ELSE posted[t])
          /\ Bars(r \o <<new>>, t) = Bars(r, t) \cup Bars(<<new>>, t)
      BY Zenon, <1>3, <2>2, <2>4, QueueAppend
    <3>5. Bars(r \o <<new>>, t) = Bars(r, t)
      <4>1. Bars(<<new>>, t) =
              IF new.thread = t /\ new.kind = "barrier" THEN {new.n} ELSE {}
        BY Zenon, QueueOne
      <4>2. new.kind # "barrier"
        BY <2>2
      <4>3. Bars(<<new>>, t) = {}
        BY Zenon, <4>1, <4>2
      <4> DEFINE x == Bars(r, t)
                 y == Bars(<<new>>, t)
                 z == Bars(r \o <<new>>, t)
      <4>4. y = {} /\ z = x \cup y
        BY Zenon, <3>4, <4>3
      <4> HIDE DEF x, y, z
      <4>5. z = x
        BY <4>4
      <4> QED
        BY Zenon, <4>5 DEF x, z
    <3>6. Owned'
      BY Zenon, <1>4, <2>2, PostponesOwned
    <3>7. Complete(r \o <<new>>, t, lo, posted'[t])
      BY Zenon, <2>2, <3>4
    <3>8. posted'[t] \in Nat /\ posted'[t] >= posted[t]
      BY <1>3, <2>2
    <3>9. \A i \in DOMAIN cbset'[t] : cbset'[t][i].thread = t
      BY Zenon, <3>6 DEF Owned
    <3> QED
      BY Zenon, <2>4, <3>3, <3>5, <3>7, <3>8, <3>9
  <2> QED
    BY Zenon, <2>3, <2>4
<1> QED
  BY Zenon, <1>5, <1>7, <1>8

(* The seq of a barrier changes when its callback is called, which is the  *)
(* first of those left of its thread.                                      *)
LEMMA CallBars ==
  ASSUME TypeOK, NEW u \in Thread, Barred(u), SameBarriers, NEW cb \in Callback,
         NEW r \in Seq(Callback),
         cb.thread = u /\ cb.kind = "barrier",
         cb.n = called[u] + 1, Complete(r, u, called[u] + 1, posted[u]),
         Bars(Queue(u), u) = Bars(<<cb>>, u) \cup Bars(r, u),
         Bars(Queue(u)', u) = Bars(r, u),
         posted'[u] \in Nat, posted'[u] >= posted[u], called'[u] = called[u] + 1,
         owed'[u] = owed[u]
  PROVE  Barred(u)'
<1>1. posted[u] \in Nat /\ called[u] \in Nat /\ owed[u][u] \in Nat
  BY Zenon, QueueTypes
<1>2. Bars(<<cb>>, u) = {cb.n}
  BY Zenon, QueueOne
<1>3. cb.n \in Bars(Queue(u), u) /\ Bars(r, u) \subseteq Bars(Queue(u), u)
  BY Zenon, <1>2
<1>4. \A m, n \in Bars(Queue(u), u) : m = n /\ n > owed[u][u]
  BY Zenon DEF Barred
<1>5. cb.n > owed[u][u] /\ \A n \in Bars(r, u) : n = cb.n
  BY Zenon, <1>3, <1>4
<1>6. \A n \in Bars(r, u) : n # cb.n
  <2>1. Bars(r, u) \subseteq called[u] + 1 + 1 .. posted[u]
    BY Zenon, BarsAreNumbers DEF Complete
  <2>2. \A n \in called[u] + 1 + 1 .. posted[u] : n # cb.n
    BY <1>1
  <2> QED
    BY Zenon, <2>1, <2>2
<1>7. Bars(Queue(u)', u) = {}
  BY Zenon, <1>5, <1>6
<1>8. owed'[u][u] <= posted'[u] /\ called'[u] > owed'[u][u]
  <2>1. owed[u][u] <= posted[u]
    BY Zenon DEF Barred
  <2> QED
    BY <1>1, <1>5, <2>1
<1>9. ~Has(todo'[u], "barrier_post")
  <2>1. ~Has(todo[u], "barrier_post")
    BY Zenon, <1>3 DEF Barred
  <2> QED
    BY Zenon, <2>1 DEF SameBarriers
<1>10. Bars(Queue(u), u)' = {}
  BY Zenon, <1>7 DEF Bars
<1>11. ~Has(todo[u], "barrier_post")'
  BY Zenon, <1>9 DEF Has
<1> HIDE DEF Bars, Has, Queue
<1> QED
  BY <1>8, <1>10, <1>11 DEF Barred

(* "cb->function(cb->aux)"                                                 *)
LEMMA CallCalls ==
  ASSUME TypeOK, Order, Callers, Outstanding, NEW t \in Thread, Call(t), SameBarriers
  PROVE  Outstanding'
<1> DEFINE cb == Head(batch[t])
           r(u) == (Tail(batch[t]) \o flushed_cbsets) \o cbset[u]
<1>1. /\ cb \in Callback
      /\ \A u \in Thread : r(u) \in Seq(Callback) /\ Queue(u) = <<cb>> \o r(u)
  BY Zenon, CallQueue
<1>2. /\ called' = [called EXCEPT ![cb.thread] = @ + 1]
      /\ IF cb.kind = "barrier" THEN fired' = [fired EXCEPT ![cb.thread] = TRUE]
                                ELSE UNCHANGED fired
      /\ UNCHANGED owed
  BY Zenon DEF Call
<1>3. called \in [Thread -> Nat] /\ fired \in [Thread -> BOOLEAN]
  BY Zenon DEF TypeOK
<1>4. \A u \in Thread : r(u) = (Tail(batch[t]) \o flushed_cbsets) \o cbset[u]
  OBVIOUS
<1> HIDE DEF cb, r
<1>5. ASSUME NEW u \in Thread
      PROVE  /\ Complete(Queue(u)', u, called'[u], posted'[u]) /\ Barred(u)'
             /\ \A i \in DOMAIN cbset'[u] : cbset'[u][i].thread = u
  <2>1. called[u] \in Nat /\ posted[u] \in Nat /\ Barred(u)
    BY Zenon, QueueTypes DEF Outstanding
  <2>2. Complete(Queue(u), u, called[u], posted[u])
    BY Zenon, CompleteQueues DEF Outstanding
  <2>3. r(u) \in Seq(Callback) /\ Queue(u) = <<cb>> \o r(u) /\ owed'[u] = owed[u]
    BY Zenon, <1>1, <1>2
  <2>4. Complete(<<cb>> \o r(u), u, called[u], posted[u])
    BY Zenon, <2>2, <2>3
  <2>5. /\ cb.thread = u => cb.n = called[u] + 1
                            /\ Complete(r(u), u, called[u] + 1, posted[u])
        /\ cb.thread # u => Complete(r(u), u, called[u], posted[u])
        /\ Bars(<<cb>> \o r(u), u) = Bars(<<cb>>, u) \cup Bars(r(u), u)
    <3> DEFINE s == r(u)
               lo == called[u]
               hi == posted[u]
    <3>1. /\ cb \in Callback /\ s \in Seq(Callback) /\ lo \in Nat /\ hi \in Nat
          /\ Complete(<<cb>> \o s, u, lo, hi)
      BY Zenon, <1>1, <2>1, <2>3, <2>4
    <3> HIDE DEF s, lo, hi
    <3>2. /\ cb.thread = u => cb.n = lo + 1 /\ Complete(s, u, lo + 1, hi)
          /\ cb.thread # u => Complete(s, u, lo, hi)
          /\ Bars(<<cb>> \o s, u) = Bars(<<cb>>, u) \cup Bars(s, u)
      BY ZenonT(30), <3>1, QueueHead
    <3> QED
      BY Zenon, <3>2 DEF s, lo, hi
  <2>6. Bars(Queue(u), u) = Bars(<<cb>>, u) \cup Bars(r(u), u)
    BY Zenon, <2>3, <2>5
  <2>7. called'[u] = IF cb.thread = u THEN called[u] + 1 ELSE called[u]
    BY Zenon, <1>2, <1>3
  <2>8. Complete(r(u), u, called'[u], posted[u])
    BY Zenon, <2>5, <2>7
  <2>9. called'[u] \in Nat /\ called'[u] >= called[u]
    BY <2>1, <2>7
  <2>10. /\ Complete(Queue(u)', u, called'[u], posted'[u])
         /\ Bars(Queue(u)', u) = Bars(r(u), u)
         /\ posted'[u] \in Nat /\ posted'[u] >= posted[u]
         /\ \A i \in DOMAIN cbset'[u] : cbset'[u][i].thread = u
    <3> DEFINE s == r(u)
               lo == called'[u]
    <3>1. /\ s = (Tail(batch[t]) \o flushed_cbsets) \o cbset[u] /\ s \in Seq(Callback)
          /\ lo \in Nat /\ Complete(s, u, lo, posted[u])
      BY Zenon, <1>4, <2>3, <2>8, <2>9
    <3> HIDE DEF s, lo
    <3>2. /\ Complete(Queue(u)', u, lo, posted'[u])
          /\ Bars(Queue(u)', u) = Bars(s, u)
          /\ posted'[u] \in Nat /\ posted'[u] >= posted[u]
          /\ \A i \in DOMAIN cbset'[u] : cbset'[u][i].thread = u
      BY Zenon, <3>1, CallLeaves
    <3> QED
      BY Zenon, <3>2 DEF s, lo
  <2>11. CASE cb.thread = u /\ cb.kind = "barrier"
    <3>1. /\ cb.n = called[u] + 1 /\ Complete(r(u), u, called[u] + 1, posted[u])
          /\ called'[u] = called[u] + 1
      BY Zenon, <2>5, <2>7, <2>11
    <3>2. Barred(u)'
      BY Zenon, <1>1, <2>1, <2>3, <2>6, <2>10, <2>11, <3>1, CallBars
    <3> QED
      BY Zenon, <2>10, <3>2
  <2>12. CASE ~(cb.thread = u /\ cb.kind = "barrier")
    <3>1. Bars(<<cb>>, u) =
            IF cb.thread = u /\ cb.kind = "barrier" THEN {cb.n} ELSE {}
      BY Zenon, QueueOne
    <3>2. Bars(<<cb>>, u) = {}
      BY Zenon, <2>12, <3>1
    <3> DEFINE x == Bars(Queue(u), u)
               y == Bars(r(u), u)
               z == Bars(<<cb>>, u)
    <3>3. x = z \cup y /\ z = {}
      BY Zenon, <2>6, <3>2
    <3> HIDE DEF x, y, z
    <3>4. x = y
      BY <3>3
    <3>5. Bars(Queue(u)', u) = Bars(Queue(u), u)
      BY Zenon, <2>10, <3>4 DEF x, y
    <3>6. fired'[u] = fired[u]
      BY Zenon, <1>2, <1>3, <2>12
    <3>7. Barred(u)'
      BY Zenon, <2>1, <2>3, <2>9, <2>10, <3>5, <3>6, SameBarred
    <3> QED
      BY Zenon, <2>10, <3>7
  <2> QED
    BY Zenon, <2>11, <2>12
<1>6. CallbacksInOrder'
  BY Zenon, <1>5, CompleteQueuesNext
<1>7. Owned'
  BY Zenon, <1>5 DEF Owned
<1> QED
  BY Zenon, <1>5, <1>6, <1>7 DEF Outstanding

(* A step of ovsrcu_barrier() in t: it has no callback in a queue.         *)
LEMMA BarrierSteps ==
  ASSUME TypeOK, Outstanding, NEW t \in Thread,
         UNCHANGED <<cbset, flushed_cbsets, batch, posted, called>>,
         Bars(Queue(t), t) = {}, owed'[t][t] <= posted[t], fired'[t] = FALSE,
         \A u \in Thread \ {t} :
           /\ owed'[u] = owed[u] /\ fired'[u] = fired[u] /\ todo'[u] = todo[u]
  PROVE  Outstanding'
<1>1. \A u \in Thread : Queue(u)' = Queue(u)
  BY Zenon DEF Queue
<1>2. Owned'
  BY Zenon DEF Owned, Outstanding
<1>3. CallbacksInOrder'
  BY Zenon, <1>1, CompleteQueues, CompleteQueuesNext DEF Outstanding
<1>4. Barred(t)'
  <2>1. Bars(Queue(t), t)' = {}
    BY Zenon, <1>1 DEF Bars
  <2>2. ~fired'[t] /\ owed'[t][t] <= posted'[t]
    BY Zenon
  <2> HIDE DEF Bars, Has, Queue
  <2> QED
    BY <2>1, <2>2 DEF Barred
<1>5. ASSUME NEW u \in Thread \ {t} PROVE Barred(u)'
  <2>1. posted'[u] \in Nat /\ posted'[u] >= posted[u]
    BY QueueTypes
  <2>2. called'[u] \in Nat /\ called'[u] >= called[u]
    BY QueueTypes
  <2>3. Barred(u) /\ owed'[u] = owed[u] /\ fired'[u] = fired[u] /\ todo'[u] = todo[u]
    BY Zenon DEF Outstanding
  <2>4. Bars(Queue(u)', u) = Bars(Queue(u), u)
    BY Zenon, <1>1
  <2> QED
    BY Zenon, <2>1, <2>2, <2>3, <2>4, StaysBarred
<1> QED
  BY Zenon, <1>2, <1>3, <1>4, <1>5 DEF Outstanding

(* A thread calls ovsrcu_barrier().                                        *)
LEMMA BarrierCalls ==
  ASSUME TypeOK, Callers, Outstanding, NEW t \in Thread, Barrier(t)
  PROVE  Outstanding'
<1>1. /\ Begin(t, "barrier", ovsrcu_barrier(t))
      /\ fired' = [fired EXCEPT ![t] = FALSE] /\ owed' = [owed EXCEPT ![t] = posted]
      /\ UNCHANGED <<cbset, flushed_cbsets, batch, posted, called>>
  BY Zenon DEF Barrier
<1>2. todo[t] = <<>>
  BY Zenon, <1>1 DEF Begin, Calling
<1>3. ~Has(todo[t], "barrier_check")
  BY <1>2 DEF Has
<1>4. Bars(Queue(t), t) = {}
  BY Zenon, <1>3 DEF Outstanding, Barred
<1>5. fired \in [Thread -> BOOLEAN] /\ owed \in [Thread -> [Thread -> Nat]]
  BY Zenon DEF TypeOK
<1>6. /\ fired'[t] = FALSE /\ owed'[t][t] = posted[t]
      /\ \A u \in Thread \ {t} : owed'[u] = owed[u] /\ fired'[u] = fired[u]
  BY Zenon, <1>1, <1>5
<1>7. owed'[t][t] <= posted[t]
  BY <1>6, QueueTypes
<1>8. \A u \in Thread \ {t} : todo'[u] = todo[u]
  BY Zenon, BarrierCallers
<1> QED
  BY Zenon, <1>1, <1>4, <1>6, <1>7, <1>8, BarrierSteps

(* ovsrcu_barrier() returns.                                               *)
LEMMA BarrierCheckCalls ==
  ASSUME TypeOK, Outstanding, NEW t \in Thread, BarrierCheck(t)
  PROVE  Outstanding'
<1>1. /\ fired[t] /\ Then(t, <<>>)
      /\ owed' = [owed EXCEPT ![t] = [u \in Thread |-> 0]]
      /\ fired' = [fired EXCEPT ![t] = FALSE]
      /\ UNCHANGED <<cbset, flushed_cbsets, batch, posted, called>>
  BY Zenon DEF BarrierCheck
<1>2. Bars(Queue(t), t) = {}
  BY Zenon, <1>1 DEF Outstanding, Barred
<1>3. /\ fired \in [Thread -> BOOLEAN] /\ owed \in [Thread -> [Thread -> Nat]]
      /\ todo \in [Thread -> Seq(Steps)]
  BY Zenon DEF TypeOK
<1>4. /\ fired'[t] = FALSE /\ owed'[t][t] = 0
      /\ \A u \in Thread \ {t} :
           owed'[u] = owed[u] /\ fired'[u] = fired[u] /\ todo'[u] = todo[u]
  BY Zenon, <1>1, <1>3 DEF Then
<1>5. owed'[t][t] <= posted[t]
  BY <1>4, QueueTypes
<1> QED
  BY Zenon, <1>1, <1>2, <1>4, <1>5, BarrierSteps

(* The steps of a thread.                                                  *)
LEMMA StepCalls ==
  ASSUME TypeOK, Order, Callers, Outstanding, NEW t \in Thread, Step(t) \/ Timer(t)
  PROVE  Outstanding'
<1>1. SameBarriers \/ BarrierCheck(t)
  BY Zenon, StepCallers
<1>2. CASE BarrierCheck(t)
  BY Zenon, <1>2, BarrierCheckCalls
<1>3. CASE SameBarriers
  <2>1. CASE PushCbset(t)
    BY Zenon, <2>1, PushCalls
  <2>2. CASE PopAll(t)
    BY Zenon, <2>2, PopAllCalls
  <2>3. CASE Call(t)
    BY Zenon, <1>3, <2>3, CallCalls
  <2>4. CASE BarrierPost(t)
    BY Zenon, <1>3, <2>4, BarrierPostCalls
  <2>5. CASE UNCHANGED cbVars
    BY Zenon, <1>3, <2>5, QuietCalls
  <2>6. CASE \/ ReadSeqno(t) \/ Insert(t) \/ ChangeFlushed(t) \/ Remove(t)
             \/ ChangeGlobal(t) \/ Quiesced(t) \/ ReadTarget(t) \/ ReadCur(t)
             \/ Scan(t) \/ WaitGlobal(t) \/ Timer(t)
    BY Zenon, <2>5, <2>6 DEF ReadSeqno, Insert, ChangeFlushed, Remove, ChangeGlobal,
       Quiesced, ReadTarget, ReadCur, Scan, WaitGlobal, Timer
  <2>7. CASE \/ CallEnter(t) \/ CallDone(t) \/ BarrierPoll(t) \/ BarrierWait(t)
             \/ SetExit(t) \/ Arrive(t) \/ Block(t) \/ Gather(t) \/ ExitRound(t)
             \/ Deleted(t)
    BY Zenon, <2>5, <2>7 DEF CallEnter, CallDone, BarrierPoll, BarrierWait, SetExit,
       Arrive, Block, Gather, ExitRound, Deleted
  <2>8. CASE \/ t = Urcu /\ (Loop \/ ReadFlushed \/ PollFlushed \/ WaitFlushed)
             \/ t = Main /\ Create
    BY Zenon, <2>5, <2>8 DEF Loop, ReadFlushed, PollFlushed, WaitFlushed, Create
  <2> QED
    BY Zenon, <1>2, <2>1, <2>2, <2>3, <2>4, <2>6, <2>7, <2>8 DEF Step
<1> QED
  BY Zenon, <1>1, <1>2, <1>3

(* The calls of the program.                                               *)
LEMMA ProgramCalls ==
  ASSUME TypeOK, Callers, Outstanding, NEW t \in Thread, Program(t)
  PROVE  Outstanding'
<1>1. SameBarriers \/ Barrier(t)
  BY Zenon, ProgramCallers
<1>2. CASE Barrier(t)
  BY Zenon, <1>2, BarrierCalls
<1>3. CASE SameBarriers
  <2>1. CASE Change(t, "change", "free") \/ Change(t, "change_again", "again")
    <3>1. "free" \in {"free", "again"} /\ "again" \in {"free", "again"}
      OBVIOUS
    <3> QED
      BY Zenon, <1>3, <2>1, <3>1, ChangeCalls
  <2>2. CASE UNCHANGED cbVars
    BY Zenon, <1>3, <2>2, QuietCalls
  <2>3. CASE \/ Get(t) \/ Delete(t) \/ Quiesce(t) \/ QuiesceStart(t) \/ QuiesceEnd(t)
             \/ TryQuiesce(t) \/ TryQuiesceBusy(t) \/ Finish(t)
             \/ t = Main /\ (ThreadCreate \/ Exit)
    BY Zenon, <2>2, <2>3 DEF Get, Delete, Quiesce, QuiesceStart, QuiesceEnd,
       TryQuiesce, TryQuiesceBusy, Finish, ThreadCreate, Exit
  <2> QED
    BY Zenon, <1>2, <2>1, <2>3 DEF Program
<1> QED
  BY Zenon, <1>1, <1>2, <1>3

(* Nothing was postponed at first.                                         *)
LEMMA InitCalls ==
  ASSUME Init
  PROVE  Callers /\ Outstanding
<1>1. Main # Urcu /\ Main \in Thread /\ Urcu \in Thread
  BY ThreadAssumption DEF Thread
<1>2. ASSUME NEW t \in Thread, NEW step \in Marks PROVE ~Has(todo[t], step)
  <2>1. todo[t] = <<>> \/ todo[t] = <<"unborn">>
    BY Zenon DEF Init
  <2> QED
    BY <2>1 DEF Has, Marks, Leads, Takes
<1>3. Callers
  <2>1. \A step \in Takes : step \in Leads
    BY Zenon DEF Leads
  <2>2. Leads \subseteq Marks /\ {"loop", "exit_round", "arrive"} \subseteq Leads
    BY Zenon DEF Leads, Marks
  <2>3. {"gather", "barrier_post"} \subseteq Marks /\ "call" \in Takes
    BY Zenon DEF Marks, Takes
  <2>4. OthersCall
    BY Zenon, <1>2, <2>2 DEF OthersCall
  <2>5. arrived = {} /\ multithreaded = FALSE
    BY Zenon DEF Init
  <2>6. UrcuCalls
    BY Zenon, <1>1, <1>2, <2>2, <2>5 DEF UrcuCalls, LoopLast, Has
  <2>7. MainCalls
    BY Zenon, <1>1, <1>2, <2>2, <2>5 DEF MainCalls, MeetsOnce, Has
  <2>8. Arrives
    BY <2>5 DEF Arrives
  <2>9. \A t \in Thread : Posts(todo[t])
    BY Zenon, <1>2, <2>3 DEF Posts, Has
  <2> QED
    BY Zenon, <2>4, <2>6, <2>7, <2>8, <2>9 DEF Callers
<1>4. ASSUME NEW t \in Thread
      PROVE  /\ cbset[t] = <<>> /\ Queue(t) = <<>> /\ called[t] = 0 /\ posted[t] = 0
             /\ owed[t][t] = 0 /\ fired[t] = FALSE
  <2>1. /\ cbset[t] = <<>> /\ flushed_cbsets = <<>> /\ batch[Main] = <<>>
        /\ batch[Urcu] = <<>> /\ called[t] = 0 /\ posted[t] = 0
        /\ owed[t][t] = 0 /\ fired[t] = FALSE
    BY Zenon, <1>1 DEF Init
  <2>2. <<>> \o <<>> = <<>>
    OBVIOUS
  <2> QED
    BY Zenon, <2>1, <2>2 DEF Queue
<1>5. Owned
  <2>1. DOMAIN <<>> = {}
    OBVIOUS
  <2> QED
    BY Zenon, <1>4, <2>1 DEF Owned
<1>6. ASSUME NEW t \in Thread
      PROVE  Complete(Queue(t), t, called[t], posted[t]) /\ Barred(t)
  <2>1. Numbers(Queue(t), t) = {} /\ Bars(Queue(t), t) = {} /\ InOrder(Queue(t), t)
    BY Zenon, <1>4, QueueOne
  <2>2. 0 + 1 .. 0 = {} /\ 0 <= 0
    OBVIOUS
  <2>3. Complete(Queue(t), t, called[t], posted[t])
    BY Zenon, <1>4, <2>1, <2>2 DEF Complete
  <2>4. owed[t][t] <= posted[t] /\ ~fired[t]
    BY Zenon, <1>4, <2>2
  <2> HIDE DEF Has, Queue, Bars
  <2> QED
    BY <2>1, <2>3, <2>4 DEF Barred
<1>7. CallbacksInOrder
  BY Zenon, <1>6, CompleteQueues
<1> QED
  BY Zenon, <1>3, <1>5, <1>6, <1>7 DEF Outstanding

(* A step of the system.                                                   *)
LEMMA NextCalls ==
  ASSUME Inv, Callers, Outstanding, [Next]_vars
  PROVE  Callers' /\ Outstanding'
<1>1. TypeOK /\ Order
  BY Zenon DEF Inv
<1>2. CASE Next
  <2>1. PICK t \in Thread : (Step(t) \/ Timer(t)) \/ Program(t)
    BY Zenon, <1>2 DEF Next
  <2>2. CASE Step(t) \/ Timer(t)
    BY Zenon, <1>1, <2>2, StepCallers, StepCalls
  <2>3. CASE Program(t)
    BY Zenon, <1>1, <2>3, ProgramCallers, ProgramCalls
  <2> QED
    BY Zenon, <2>1, <2>2, <2>3
<1>3. CASE UNCHANGED vars
  <2>1. UNCHANGED cbVars /\ UNCHANGED <<multithreaded, created, arrived, todo>>
    BY Zenon, <1>3 DEF vars, exitVars
  <2>2. \A u \in Thread : Same({}, {}, todo[u], todo'[u])
    BY Zenon, <2>1, SameAsItself
  <2>3. Callers' /\ SameBarriers
    <3> DEFINE X == {}
    <3>1. "arrive" \notin X /\ "gather" \notin X /\ "barrier_check" \notin X
      OBVIOUS
    <3>2. \A u \in Thread : Same({}, X, todo[u], todo'[u])
      BY Zenon, <2>2
    <3> HIDE DEF X
    <3> QED
      BY Zenon, <2>1, <3>1, <3>2, SameCallers
  <2> QED
    BY Zenon, <1>1, <2>1, <2>3, QuietCalls
<1> QED
  BY Zenon, <1>2, <1>3

-----------------------------------------------------------------------------
(* "All functions registered by a single thread are guaranteed to execute  *)
(* in the registering order": from ovsrcu_postpone__() to                  *)
(* ovsrcu_call_postponed() no callback is lost, called twice or overtaken  *)
(* by another of its thread, for any number of threads and any program.    *)
THEOREM CallbacksOrdered == Spec => []CallbacksInOrder
<1>1. Init => Inv /\ Callers /\ Outstanding
  BY Zenon, InitInv, InitCalls
<1>2. Inv /\ Callers /\ Outstanding /\ [Next]_vars => Inv' /\ Callers' /\ Outstanding'
  BY Zenon, NextInv, NextCalls
<1>3. Outstanding => CallbacksInOrder
  BY Zenon DEF Outstanding
<1> QED
  BY <1>1, <1>2, <1>3, PTL DEF Spec

(* destroy_A() in ovs-rcu.h: when ovsrcu_barrier() returns, the callbacks  *)
(* that the thread had postponed were called.                              *)
THEOREM BarrierWaits == Spec => []BarrierWaitsForOwn
<1>1. Init => Inv /\ Callers /\ Outstanding
  BY Zenon, InitInv, InitCalls
<1>2. Inv /\ Callers /\ Outstanding /\ [Next]_vars => Inv' /\ Callers' /\ Outstanding'
  BY Zenon, NextInv, NextCalls
<1>3. ASSUME Inv, Outstanding PROVE BarrierWaitsForOwn
  <2> SUFFICES ASSUME NEW t \in Worker, fired[t], NEW n \in Numbers(Queue(t), t)
               PROVE  n > owed[t][t]
    BY Zenon DEF BarrierWaitsForOwn, Waited
  <2>1. t \in Thread /\ TypeOK
    BY Zenon, <1>3 DEF Thread, Inv
  <2>2. called[t] \in Nat /\ posted[t] \in Nat /\ owed[t][t] \in Nat
    BY Zenon, <2>1, QueueTypes
  <2>3. called[t] > owed[t][t]
    BY Zenon, <1>3, <2>1 DEF Outstanding, Barred
  <2>4. n \in called[t] + 1 .. posted[t]
    BY Zenon, <1>3, <2>1 DEF Outstanding, CallbacksInOrder
  <2> QED
    BY <2>2, <2>3, <2>4
<1>4. Inv /\ Outstanding => BarrierWaitsForOwn
  BY Zenon, <1>3
<1> QED
  BY <1>1, <1>2, <1>4, PTL DEF Spec
=============================================================================
