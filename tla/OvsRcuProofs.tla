---------------------------- MODULE OvsRcuProofs ----------------------------
(***************************************************************************)
(* Memory safety of lib/ovs-rcu.c, and who calls the callbacks.            *)
(*                                                                         *)
(* Each step is a step of module Rcu, given the order of the steps that    *)
(* module OvsRcuOrderProofs is about.                                      *)
(*                                                                         *)
(* At most one thread at a time is in ovsrcu_call_postponed(), so that     *)
(* callbacks that were popped are not overtaken by those popped later.     *)
(* The main thread calls callbacks itself until it creates another thread, *)
(* then the thread that ovsrcu_quiesced() creates does, and in             *)
(* ovsrcu_exit() the main thread does again.  What makes the second change *)
(* safe is that both threads meet at postpone_barrier: the one that called *)
(* callbacks has left its loop for good when it gets there, and the main   *)
(* thread has not begun its own.  Callers says so of the steps that both   *)
(* have left.                                                              *)
(***************************************************************************)
EXTENDS OvsRcuOrderProofs

(* How long a prover may take where a proof does not say which one to use. *)
USE SMTT(20), ZenonT(20)

-----------------------------------------------------------------------------
(* The steps as steps of module Rcu.                                       *)

(* A step of the contract, or none.                                        *)
RcuStep == R!Next \/ UNCHANGED <<ptr, ref, Retired>>

(* The objects of a list of callbacks.                                     *)
LEMMA ObjsOfLists ==
  /\ Objs(<<>>) = {}
  /\ \A s \in Seq(Callback), cb \in Callback : Objs(Append(s, cb)) = Objs(s) \cup {cb.obj}
  /\ \A p, q \in Seq(Callback) : Objs(p \o q) = Objs(p) \cup Objs(q)
  /\ \A s \in Seq(Callback) : s # <<>> => Objs(s) = Objs(Tail(s)) \cup {Head(s).obj}
<1>1. Objs(<<>>) = {}
  BY DEF Objs
<1>2. ASSUME NEW s \in Seq(Callback), NEW cb \in Callback
      PROVE  Objs(Append(s, cb)) = Objs(s) \cup {cb.obj}
  <2> DEFINE r == Append(s, cb)
  <2>1. /\ Len(s) \in Nat /\ DOMAIN s = 1 .. Len(s) /\ DOMAIN r = 1 .. Len(s) + 1
        /\ r[Len(s) + 1] = cb /\ \A i \in 1 .. Len(s) : r[i] = s[i]
    OBVIOUS
  <2> HIDE DEF r
  <2>2. ASSUME NEW o \in Objs(r) PROVE o \in Objs(s) \cup {cb.obj}
    <3>1. PICK i \in DOMAIN r : o = r[i].obj
      BY Zenon DEF Objs
    <3>2. i \in DOMAIN s \/ i = Len(s) + 1
      BY <2>1
    <3> QED
      BY Zenon, <2>1, <3>1, <3>2 DEF Objs
  <2>3. Objs(s) \subseteq Objs(r)
    BY <2>1 DEF Objs
  <2>4. cb.obj \in Objs(r)
    BY <2>1 DEF Objs
  <2> QED
    BY Zenon, <2>2, <2>3, <2>4 DEF r
<1>3. ASSUME NEW p \in Seq(Callback), NEW q \in Seq(Callback)
      PROVE  Objs(p \o q) = Objs(p) \cup Objs(q)
  <2> DEFINE r == p \o q
  <2>1. /\ Len(p) \in Nat /\ Len(q) \in Nat
        /\ DOMAIN p = 1 .. Len(p) /\ DOMAIN q = 1 .. Len(q)
        /\ DOMAIN r = 1 .. Len(p) + Len(q)
        /\ \A i \in 1 .. Len(p) : r[i] = p[i]
        /\ \A i \in Len(p) + 1 .. Len(p) + Len(q) : r[i] = q[i - Len(p)]
    BY ConcatList
  <2> HIDE DEF r
  <2>2. ASSUME NEW o \in Objs(r) PROVE o \in Objs(p) \cup Objs(q)
    <3>1. PICK i \in DOMAIN r : o = r[i].obj
      BY Zenon DEF Objs
    <3>2. \/ i \in DOMAIN p /\ r[i] = p[i]
          \/ i - Len(p) \in DOMAIN q /\ r[i] = q[i - Len(p)]
      BY <2>1
    <3> QED
      BY Zenon, <3>1, <3>2 DEF Objs
  <2>3. Objs(p) \subseteq Objs(r)
    BY <2>1 DEF Objs
  <2>4. ASSUME NEW o \in Objs(q) PROVE o \in Objs(r)
    <3>1. PICK i \in DOMAIN q : o = q[i].obj
      BY Zenon DEF Objs
    <3>2. i + Len(p) \in DOMAIN r /\ r[i + Len(p)] = q[i]
      BY <2>1
    <3> QED
      BY Zenon, <3>1, <3>2 DEF Objs
  <2> QED
    BY Zenon, <2>2, <2>3, <2>4 DEF r
<1>4. ASSUME NEW s \in Seq(Callback), s # <<>>
      PROVE  Objs(s) = Objs(Tail(s)) \cup {Head(s).obj}
  <2> DEFINE r == Tail(s)
  <2>1. /\ Len(s) \in Nat /\ Len(s) >= 1 /\ DOMAIN s = 1 .. Len(s) /\ Head(s) = s[1]
        /\ DOMAIN r = 1 .. Len(s) - 1 /\ \A i \in 1 .. Len(s) - 1 : r[i] = s[i + 1]
    BY <1>4, TailList
  <2> HIDE DEF r
  <2>2. ASSUME NEW o \in Objs(s) PROVE o \in Objs(r) \cup {Head(s).obj}
    <3>1. PICK i \in DOMAIN s : o = s[i].obj
      BY Zenon DEF Objs
    <3>2. i = 1 \/ (i - 1 \in DOMAIN r /\ r[i - 1] = s[i])
      BY <2>1
    <3> QED
      BY Zenon, <2>1, <3>1, <3>2 DEF Objs
  <2>3. ASSUME NEW o \in Objs(r) PROVE o \in Objs(s)
    <3>1. PICK i \in DOMAIN r : o = r[i].obj
      BY Zenon DEF Objs
    <3>2. i + 1 \in DOMAIN s /\ r[i] = s[i + 1]
      BY <2>1
    <3> QED
      BY Zenon, <3>1, <3>2 DEF Objs
  <2>4. Head(s).obj \in Objs(s)
    BY <2>1 DEF Objs
  <2> QED
    BY Zenon, <2>2, <2>3, <2>4 DEF r
<1> QED
  BY <1>1, <1>2, <1>3, <1>4

(* The membership of InRetired after a step.                               *)
LEMMA InRetiredNext ==
  ASSUME NEW o
  PROVE  o \in Retired' <=>
           /\ o # NONE
           /\ \/ o \in Objs(flushed_cbsets')
              \/ \E t \in Thread : \/ o \in Objs(cbset'[t])
                                   \/ o \in Objs(batch'[t]) \/ o = mine'[t]
BY DEF Retired, Objs

(* Nothing is retired or reclaimed unless these variables change.          *)
LEMMA SameRetired ==
  ASSUME UNCHANGED <<cbset, flushed_cbsets, batch, mine>>
  PROVE  Retired' = Retired
<1>1. \A o : o \in Retired' <=> o \in Retired
  BY Zenon, InRetired, InRetiredNext
<1> QED
  BY Zenon, <1>1

(* A callback is moved, or one is added that frees nothing.                *)
LEMMA PushCbsetRcu ==
  ASSUME TypeOK, NEW t \in Thread, PushCbset(t)
  PROVE  RcuStep
<1>1. /\ cbset \in [Thread -> Seq(Callback)] /\ flushed_cbsets \in Seq(Callback)
      /\ flushed_cbsets' = flushed_cbsets \o cbset[t]
      /\ cbset' = [cbset EXCEPT ![t] = <<>>]
      /\ UNCHANGED <<batch, ptr, ref, mine>>
  BY Zenon DEF PushCbset, TypeOK, userVars
<1>2. cbset'[t] = <<>> /\ \A u \in Thread \ {t} : cbset'[u] = cbset[u]
  BY <1>1
<1>3. Objs(flushed_cbsets') = Objs(flushed_cbsets) \cup Objs(cbset[t])
  BY <1>1, ObjsOfLists
<1>4. Objs(cbset'[t]) = {} /\ \A u \in Thread \ {t} : Objs(cbset'[u]) = Objs(cbset[u])
  BY Zenon, <1>2, ObjsOfLists
<1>5. \A o : o \in Retired' <=> o \in Retired
  BY Zenon, <1>1, <1>3, <1>4, InRetired, InRetiredNext
<1>6. Retired' = Retired
  BY Zenon, <1>5
<1> QED
  BY Zenon, <1>1, <1>6 DEF RcuStep

(* guarded_list_pop_all() moves the callbacks.                             *)
LEMMA PopAllRcu ==
  ASSUME TypeOK, Order, NEW t \in Thread, PopAll(t)
  PROVE  RcuStep
<1>1. /\ batch \in [Thread -> Seq(Callback)] /\ flushed_cbsets' = <<>>
      /\ batch' = [batch EXCEPT ![t] = flushed_cbsets]
      /\ UNCHANGED <<cbset, ptr, ref, mine>>
  BY Zenon DEF PopAll, TypeOK, userVars
<1>2. batch'[t] = flushed_cbsets /\ \A u \in Thread \ {t} : batch'[u] = batch[u]
  BY <1>1
<1>3. Objs(flushed_cbsets') = {}
  BY Zenon, <1>1, ObjsOfLists
<1>4. Objs(batch[t]) = {}
  BY Zenon, PopAllInv, ObjsOfLists
<1>5. \A u \in Thread \ {t} : Objs(batch'[u]) = Objs(batch[u])
  BY Zenon, <1>2
<1>6. \A o : o \in Retired' <=> o \in Retired
  BY Zenon, <1>1, <1>2, <1>3, <1>4, <1>5, InRetired, InRetiredNext
<1>7. Retired' = Retired
  BY Zenon, <1>6
<1> QED
  BY Zenon, <1>1, <1>7 DEF RcuStep

(* A callback is added for an object.                                      *)
LEMMA PostponeRcu ==
  ASSUME TypeOK, NEW t \in Thread, NEW kind \in {"free", "again", "barrier"},
         NEW obj \in Obj \cup {NONE}, ovsrcu_postpone__(t, kind, obj)
  PROVE  /\ Objs(cbset'[t]) = Objs(cbset[t]) \cup {obj}
         /\ \A u \in Thread \ {t} : Objs(cbset'[u]) = Objs(cbset[u])
<1> DEFINE cb == [thread |-> t, n |-> posted[t] + 1, kind |-> kind, obj |-> obj]
<1>1. posted \in [Thread -> Nat] /\ cbset \in [Thread -> Seq(Callback)]
  BY Zenon DEF TypeOK
<1>2. cb \in Callback /\ cb.obj = obj
  BY <1>1 DEF Callback
<1>3. cbset' = [cbset EXCEPT ![t] = Append(@, cb)]
  BY Zenon DEF ovsrcu_postpone__
<1> HIDE DEF cb
<1>4. /\ cbset'[t] = Append(cbset[t], cb) /\ cbset[t] \in Seq(Callback)
      /\ \A u \in Thread \ {t} : cbset'[u] = cbset[u]
  BY <1>1, <1>3
<1>5. Objs(Append(cbset[t], cb)) = Objs(cbset[t]) \cup {obj}
  BY <1>2, <1>4, ObjsOfLists
<1> QED
  BY Zenon, <1>4, <1>5

(* The barrier's callback has no object.                                   *)
LEMMA BarrierPostRcu ==
  ASSUME TypeOK, NEW t \in Thread, BarrierPost(t)
  PROVE  RcuStep
<1>1. /\ ovsrcu_postpone__(t, "barrier", NONE)
      /\ UNCHANGED <<flushed_cbsets, batch, ptr, ref, mine>>
  BY Zenon DEF BarrierPost, userVars
<1>2. /\ Objs(cbset'[t]) = Objs(cbset[t]) \cup {NONE}
      /\ \A u \in Thread \ {t} : Objs(cbset'[u]) = Objs(cbset[u])
  BY <1>1, PostponeRcu
<1>3. \A o : o \in Retired' <=> o \in Retired
  BY Zenon, <1>1, <1>2, InRetired, InRetiredNext
<1>4. Retired' = Retired
  BY Zenon, <1>3
<1> QED
  BY Zenon, <1>1, <1>4 DEF RcuStep

(* An object is reclaimed, unless it is freed once more.                   *)
LEMMA CallRcu ==
  ASSUME TypeOK, Order, NEW t \in Thread, Call(t)
  PROVE  RcuStep
<1> DEFINE cb == Head(batch[t])
<1>1. /\ batch \in [Thread -> Seq(Callback)] /\ batch[t] # <<>>
      /\ batch' = [batch EXCEPT ![t] = Tail(@)]
      /\ cb.kind = "again" => ovsrcu_postpone__(t, "free", cb.obj)
      /\ cb.kind # "again" => UNCHANGED <<cbset, posted>>
      /\ UNCHANGED <<flushed_cbsets, ptr, ref, mine>>
  BY Zenon DEF Call, TypeOK, userVars
<1>2. /\ cb \in Callback /\ batch[t] \in Seq(Callback)
      /\ batch'[t] = Tail(batch[t])
      /\ \A u \in Thread \ {t} : batch'[u] = batch[u]
  BY <1>1
<1>3. cb.obj \in Obj \cup {NONE}
  BY <1>2 DEF Callback
<1>4. Objs(batch[t]) = Objs(batch'[t]) \cup {cb.obj}
  <2>1. Objs(batch[t]) = Objs(Tail(batch[t])) \cup {cb.obj}
    BY <1>1, <1>2, ObjsOfLists
  <2> QED
    BY Zenon, <1>2, <2>1
<1> HIDE DEF cb
<1>5. \A u \in Thread \ {t} : Objs(batch'[u]) = Objs(batch[u])
  BY Zenon, <1>2
<1>6. /\ Objs(cbset[t]) \subseteq Objs(cbset'[t])
      /\ Objs(cbset'[t]) \subseteq Objs(cbset[t]) \cup {cb.obj}
      /\ \A u \in Thread \ {t} : Objs(cbset'[u]) = Objs(cbset[u])
  <2>1. CASE cb.kind = "again"
    <3>1. "free" \in {"free", "again", "barrier"}
      OBVIOUS
    <3>2. /\ Objs(cbset'[t]) = Objs(cbset[t]) \cup {cb.obj}
          /\ \A u \in Thread \ {t} : Objs(cbset'[u]) = Objs(cbset[u])
      BY Zenon, <1>1, <1>3, <2>1, <3>1, PostponeRcu
    <3> QED
      BY Zenon, <3>2
  <2>2. CASE cb.kind # "again"
    BY Zenon, <1>1, <2>2
  <2> QED
    BY <2>1, <2>2
<1>7. \A o : /\ o \in Retired /\ o # cb.obj => o \in Retired'
             /\ o \in Retired' => o \in Retired
  <2>1. ASSUME NEW o, o \in Retired, o # cb.obj PROVE o \in Retired'
    BY Zenon, <1>1, <1>4, <1>5, <1>6, <2>1, InRetired, InRetiredNext
  <2>2. ASSUME NEW o, o \in Retired' PROVE o \in Retired
    BY Zenon, <1>1, <1>4, <1>5, <1>6, <2>2, InRetired, InRetiredNext
  <2> QED
    BY Zenon, <2>1, <2>2
<1>8. CASE cb.obj \in Retired' \/ cb.obj = NONE
  <2>1. NONE \notin Retired
    BY Zenon, InRetired
  <2>2. \A o : o \in Retired' <=> o \in Retired
    BY Zenon, <1>7, <1>8, <2>1
  <2>3. Retired' = Retired
    BY Zenon, <2>2
  <2> QED
    BY Zenon, <1>1, <2>3 DEF RcuStep
<1>9. CASE cb.obj \notin Retired' /\ cb.obj # NONE
  <2>1. cb.obj \in Doomed(t)
    BY Zenon, <1>4, <1>9 DEF Doomed
  <2>2. cb.obj \in Retired /\ cb.obj \in Obj
    BY Zenon, <1>3, <1>9, <2>1, DoomedIsRetired
  <2>3. \A u \in Thread : ref[u] # cb.obj
    <3>1. "call" \in Frees /\ At(t, "call")
      BY DEF Frees, Call
    <3> QED
      BY Zenon, <2>1, <3>1, NoUsers
  <2>4. \A o : o \in Retired' <=> o \in Retired \ {cb.obj}
    BY Zenon, <1>7, <1>9
  <2>5. Retired' = Retired \ {cb.obj}
    BY Zenon, <2>4
  <2>6. R!Reclaim(cb.obj)
    BY Zenon, <1>1, <2>2, <2>3, <2>5 DEF R!Reclaim
  <2> QED
    BY Zenon, <2>2, <2>6 DEF RcuStep, R!Next
<1> QED
  BY <1>8, <1>9

(* The object of a thread that freed it after ovsrcu_synchronize().        *)
LEMMA DeletedRcu ==
  ASSUME TypeOK, Order, NEW t \in Thread, Deleted(t)
  PROVE  RcuStep
<1>1. /\ mine \in [Thread -> Obj \cup {NONE}] /\ mine' = [mine EXCEPT ![t] = NONE]
      /\ UNCHANGED <<cbset, flushed_cbsets, batch, ptr, ref>>
  BY Zenon DEF Deleted, TypeOK, cbVars
<1>2. mine'[t] = NONE /\ \A u \in Thread \ {t} : mine'[u] = mine[u]
  BY <1>1
<1>3. \A o : /\ o \in Retired /\ o # mine[t] => o \in Retired'
             /\ o \in Retired' => o \in Retired
  BY Zenon, <1>1, <1>2, InRetired, InRetiredNext
<1>4. CASE mine[t] \in Retired' \/ mine[t] = NONE
  <2>1. NONE \notin Retired
    BY Zenon, InRetired
  <2>2. \A o : o \in Retired' <=> o \in Retired
    BY Zenon, <1>3, <1>4, <2>1
  <2>3. Retired' = Retired
    BY Zenon, <2>2
  <2> QED
    BY Zenon, <1>1, <2>3 DEF RcuStep
<1>5. CASE mine[t] \notin Retired' /\ mine[t] # NONE
  <2>1. mine[t] \in Doomed(t)
    BY Zenon, <1>5 DEF Doomed
  <2>2. mine[t] \in Retired /\ mine[t] \in Obj
    BY <1>1, <1>5, <2>1, DoomedIsRetired
  <2>3. \A u \in Thread : ref[u] # mine[t]
    <3>1. "delete" \in Frees /\ At(t, "delete")
      BY DEF Frees, Deleted
    <3> QED
      BY Zenon, <2>1, <3>1, NoUsers
  <2>4. \A o : o \in Retired' <=> o \in Retired \ {mine[t]}
    BY Zenon, <1>3, <1>5
  <2>5. Retired' = Retired \ {mine[t]}
    BY Zenon, <2>4
  <2>6. R!Reclaim(mine[t])
    BY Zenon, <1>1, <2>2, <2>3, <2>5 DEF R!Reclaim
  <2> QED
    BY Zenon, <2>2, <2>6 DEF RcuStep, R!Next
<1> QED
  BY <1>4, <1>5

(* An object is replaced by one that is free.                              *)
LEMMA ChangeRcu ==
  ASSUME TypeOK, NEW t \in Thread, NEW call, NEW kind \in {"free", "again"},
         Change(t, call, kind)
  PROVE  RcuStep
<1>1. /\ ovsrcu_postpone__(t, kind, ptr) /\ ptr \in Obj
      /\ R!Free # {} /\ ptr' = xmalloc
      /\ UNCHANGED <<flushed_cbsets, batch, ref, mine>>
  BY Zenon DEF Change, TypeOK
<1>2. ptr' \in R!Free
  BY Zenon, <1>1, Allocates
<1>3. /\ Objs(cbset'[t]) = Objs(cbset[t]) \cup {ptr}
      /\ \A u \in Thread \ {t} : Objs(cbset'[u]) = Objs(cbset[u])
  <2>1. kind \in {"free", "again", "barrier"}
    BY Zenon
  <2> QED
    BY <1>1, <2>1, PostponeRcu
<1>4. ptr # NONE
  BY Zenon, <1>1, ObjAssumption
<1>5. \A o : o \in Retired' <=> o \in Retired \cup {ptr}
  BY Zenon, <1>1, <1>3, <1>4, InRetired, InRetiredNext
<1>6. Retired' = Retired \cup {ptr}
  BY Zenon, <1>5
<1>7. R!Replace(t)
  BY Zenon, <1>1, <1>2, <1>6 DEF R!Replace
<1> QED
  BY Zenon, <1>7 DEF RcuStep, R!Next

(* Replacing an object that the thread is to free itself.                  *)
LEMMA DeleteRcu ==
  ASSUME TypeOK, Order, NEW t \in Thread, Delete(t)
  PROVE  RcuStep
<1>1. /\ mine \in [Thread -> Obj \cup {NONE}] /\ mine' = [mine EXCEPT ![t] = ptr]
      /\ ptr \in Obj /\ R!Free # {} /\ ptr' = xmalloc
      /\ UNCHANGED <<cbset, flushed_cbsets, batch>>
      /\ ref' = [ref EXCEPT ![t] = NONE]
  BY Zenon DEF Delete, Begin, TypeOK, cbVars
<1>2. mine'[t] = ptr /\ \A u \in Thread \ {t} : mine'[u] = mine[u]
  BY <1>1
<1>3. ptr' \in R!Free
  BY Zenon, <1>1, Allocates
<1>4. mine[t] = NONE /\ ptr # NONE
  BY Zenon, <1>1, DeleteInv, ObjAssumption
<1>5. \A o : o \in Retired' <=> o \in Retired \cup {ptr}
  BY Zenon, <1>1, <1>2, <1>4, InRetired, InRetiredNext
<1>6. Retired' = Retired \cup {ptr}
  BY Zenon, <1>5
<1>7. R!Replace(t)
  BY Zenon, <1>1, <1>3, <1>6 DEF R!Replace
<1> QED
  BY Zenon, <1>7 DEF RcuStep, R!Next

(* The other steps change no object, and most of them no user of one.      *)
LEMMA QuietRcu ==
  ASSUME UNCHANGED <<cbset, flushed_cbsets, batch, mine, ptr>>,
         \/ UNCHANGED ref
         \/ \E t \in Thread : ref' = [ref EXCEPT ![t] = NONE]
         \/ \E t \in Thread : ref' = [ref EXCEPT ![t] = ptr]
  PROVE  RcuStep
<1>1. Retired' = Retired
  BY SameRetired
<1> QED
  BY Zenon, <1>1 DEF RcuStep, R!Next, R!Quiesce, R!Get

(* Every step of a thread is a step of the contract, or none.              *)
LEMMA StepRcu ==
  ASSUME TypeOK, Order, NEW t \in Thread, Step(t) \/ Timer(t)
  PROVE  RcuStep
<1>1. CASE \/ ReadSeqno(t) \/ Insert(t) \/ ChangeFlushed(t) \/ Remove(t)
           \/ ChangeGlobal(t) \/ Quiesced(t) \/ ReadTarget(t) \/ ReadCur(t)
  <2>1. UNCHANGED <<cbset, flushed_cbsets, batch, mine, ptr, ref>>
    BY Zenon, <1>1 DEF ReadSeqno, Insert, ChangeFlushed, Remove, ChangeGlobal, Quiesced,
       ReadTarget, ReadCur, cbVars, userVars
  <2> QED
    BY Zenon, <2>1, QuietRcu
<1>2. CASE \/ Scan(t) \/ WaitGlobal(t) \/ Timer(t) \/ CallEnter(t) \/ CallDone(t)
           \/ BarrierPoll(t) \/ BarrierWait(t) \/ BarrierCheck(t)
  <2>1. UNCHANGED <<cbset, flushed_cbsets, batch, mine, ptr, ref>>
    BY Zenon, <1>2 DEF Scan, WaitGlobal, Timer, CallEnter, CallDone, BarrierPoll,
       BarrierWait, BarrierCheck, cbVars, userVars
  <2> QED
    BY Zenon, <2>1, QuietRcu
<1>3. CASE \/ SetExit(t) \/ Arrive(t) \/ Block(t) \/ Gather(t) \/ ExitRound(t) \/ Loop
           \/ ReadFlushed \/ PollFlushed \/ WaitFlushed \/ Create
  <2>1. UNCHANGED <<cbset, flushed_cbsets, batch, mine, ptr, ref>>
    BY Zenon, <1>3 DEF SetExit, Arrive, Block, Gather, ExitRound, Loop,
       ReadFlushed, PollFlushed, WaitFlushed, Create, cbVars, userVars
  <2> QED
    BY Zenon, <2>1, QuietRcu
<1> QED
  BY Zenon, <1>1, <1>2, <1>3, PushCbsetRcu, PopAllRcu, CallRcu, BarrierPostRcu, DeletedRcu
  DEF Step

(* So is every call of a program.                                          *)
LEMMA ProgramRcu ==
  ASSUME TypeOK, Order, NEW t \in Thread, Program(t)
  PROVE  RcuStep
<1>1. CASE \/ Quiesce(t) \/ QuiesceStart(t) \/ QuiesceEnd(t) \/ TryQuiesce(t)
           \/ Barrier(t) \/ Finish(t) \/ (t = Main /\ Exit)
  <2>1. UNCHANGED <<cbset, flushed_cbsets, batch, mine, ptr>>
    BY Zenon, <1>1 DEF Quiesce, QuiesceStart, QuiesceEnd, TryQuiesce, Barrier, Finish,
       Exit, cbVars
  <2>2. ref' = [ref EXCEPT ![t] = NONE]
    BY Zenon, <1>1 DEF Quiesce, QuiesceStart, QuiesceEnd, TryQuiesce, Barrier, Finish,
       Exit, Begin
  <2> QED
    BY Zenon, <2>1, <2>2, QuietRcu
<1>2. CASE Get(t)
  <2>1. UNCHANGED <<cbset, flushed_cbsets, batch, mine, ptr>> /\ ref' = [ref EXCEPT ![t] = ptr]
    BY Zenon, <1>2 DEF Get, cbVars
  <2> QED
    BY Zenon, <2>1, QuietRcu
<1>3. CASE TryQuiesceBusy(t) \/ ThreadCreate
  <2>1. UNCHANGED <<cbset, flushed_cbsets, batch, mine, ptr, ref>>
    BY Zenon, <1>3 DEF TryQuiesceBusy, ThreadCreate, cbVars
  <2> QED
    BY Zenon, <2>1, QuietRcu
<1>4. CASE Delete(t)
  BY <1>4, DeleteRcu
<1>5. CASE Change(t, "change", "free") \/ Change(t, "change_again", "again")
  <2>1. "free" \in {"free", "again"} /\ "again" \in {"free", "again"}
    OBVIOUS
  <2> QED
    BY Zenon, <1>5, <2>1, ChangeRcu
<1> QED
  BY Zenon, <1>1, <1>2, <1>3, <1>4, <1>5 DEF Program

-----------------------------------------------------------------------------
(* The invariant, with what a thread uses: it is in the pointer or is yet  *)
(* to be freed.                                                            *)
InUse == \A t \in Thread : ref[t] \in {NONE, ptr} \cup Retired

(* The inductive invariant.                                                *)
Inv == TypeOK /\ Order /\ ptr \notin Retired /\ InUse

(* It holds at the start.                                                  *)
LEMMA InitInv ==
  ASSUME Init
  PROVE  Inv /\ R!Init
<1>1. ptr \in Obj
  BY Zenon, ObjAssumption DEF Init
<1>2. TypeOK
  <2>1. <<>> \in Seq(Callback) /\ <<>> \in Seq(Steps) /\ <<"unborn">> \in Seq(Steps)
    BY DEF Steps
  <2>2. /\ todo \in [Thread -> Seq(Steps)] /\ cbset \in [Thread -> Seq(Callback)]
        /\ batch \in [Thread -> Seq(Callback)] /\ flushed_cbsets \in Seq(Callback)
    BY <2>1 DEF Init
  <2>3. /\ seqno \in [Thread -> Nat] /\ target \in [Thread -> Nat]
        /\ cur \in [Thread -> Nat] /\ posted \in [Thread -> Nat]
        /\ called \in [Thread -> Nat] /\ owed \in [Thread -> [Thread -> Nat]]
        /\ rounds \in Nat /\ global_seqno \in Nat /\ flushed_cbsets_seq \in Nat
    BY DEF Init
  <2>4. /\ ref \in [Thread -> Obj \cup {NONE}] /\ mine \in [Thread -> Obj \cup {NONE}]
        /\ fired \in [Thread -> BOOLEAN] /\ seq_mutex \in Thread \cup {NONE}
        /\ ovsrcu_threads \subseteq Thread /\ arrived \subseteq Thread
    BY DEF Init
  <2>5. multithreaded \in BOOLEAN /\ created \in BOOLEAN /\ postpone_exit \in BOOLEAN
    BY Zenon DEF Init
  <2>6. calls \in [Worker -> Seq(Calls)]
    BY Zenon, ProgramsAssumption DEF Init
  <2> QED
    BY Zenon, <1>1, <2>2, <2>3, <2>4, <2>5, <2>6 DEF TypeOK
<1>3. \A t \in Thread : /\ batch[t] = <<>> /\ cbset[t] = <<>> /\ mine[t] = NONE
                        /\ ref[t] = NONE /\ seqno[t] = 0
                        /\ todo[t] = IF t = Main THEN <<>> ELSE <<"unborn">>
  BY DEF Init
<1>4. Lists
  <2>1. Good(multithreaded, Main, <<>>)
    BY DEF Good, Ordered, Paired, Alone, Creates
  <2>2. ASSUME NEW t \in Thread PROVE Good(multithreaded, t, <<"unborn">>)
    <3>1. <<"unborn">> \in Seq(Steps) /\ Plain(<<"unborn">>)
      BY DEF Steps, Plain, Waits, Frees
    <3>2. Paired(<<"unborn">>) /\ Creates(multithreaded, t, <<"unborn">>)
      BY DEF Paired, Creates
    <3> QED
      BY <3>1, <3>2 DEF Good, Plain, Ordered, Alone
  <2> QED
    BY Zenon, <1>3, <2>1, <2>2 DEF Lists
<1>5. Unborn
  <2>1. Urcu \in Thread /\ Urcu # Main
    BY Zenon, ThreadAssumption DEF Thread
  <2>2. ~created /\ ~multithreaded
    BY DEF Init
  <2> QED
    BY Zenon, <1>3, <2>1, <2>2 DEF Unborn
<1>6. Users /\ Holders
  BY Zenon, <1>3 DEF Users, Holders
<1>7. Behind
  BY <1>3 DEF Behind, Init
<1>8. Grace
  BY Zenon, <1>3 DEF Grace, Doomed
<1>9. Retired = {}
  <2>1. Objs(flushed_cbsets) = {}
    BY Zenon, ObjsOfLists DEF Init
  <2>2. \A t \in Thread : Objs(cbset[t]) = {} /\ Objs(batch[t]) = {}
    BY Zenon, <1>3, ObjsOfLists
  <2>3. \A o : o \notin Retired
    BY Zenon, <1>3, <2>1, <2>2, InRetired
  <2> QED
    BY Zenon, <2>3
<1>10. InUse
  BY Zenon, <1>3 DEF InUse
<1>11. R!Init
  BY Zenon, <1>1, <1>9 DEF Init, R!Init
<1> QED
  BY Zenon, <1>2, <1>4, <1>5, <1>6, <1>7, <1>8, <1>9, <1>10, <1>11 DEF Inv, Order

(* A step keeps the invariant, and is a step of module Rcu or none.        *)
LEMMA NextInv ==
  ASSUME Inv, [Next]_vars
  PROVE  Inv' /\ RcuStep
<1>1. TypeOK /\ Order /\ ptr \notin Retired /\ InUse
  BY Zenon DEF Inv
<1>2. TypeOK' /\ Order' /\ RcuStep
  <2>1. CASE Next
    <3>1. PICK t \in Thread : Step(t) \/ Program(t) \/ Timer(t)
      BY Zenon, <2>1 DEF Next
    <3>2. CASE Step(t)
      BY Zenon, <1>1, <3>2, StepInv, StepRcu
    <3>3. CASE Program(t)
      BY Zenon, <1>1, <3>3, ProgramInv, ProgramRcu
    <3>4. CASE Timer(t)
      BY Zenon, <1>1, <3>4, WaitGlobalInv, StepRcu
    <3> QED
      BY <3>1, <3>2, <3>3, <3>4
  <2>2. CASE UNCHANGED vars
    <3>1. TypeOK'
      BY Zenon, <1>1, <2>2
      DEF TypeOK, vars, exitVars, seqVars, cbVars, syncVars, userVars
    <3>2. UNCHANGED <<multithreaded, created, todo, ref, ovsrcu_threads, seqno,
                      global_seqno, batch, mine, target>>
      BY Zenon, <2>2 DEF vars, exitVars, seqVars, cbVars, syncVars, userVars
    <3>3. UNCHANGED <<cbset, flushed_cbsets, batch, mine, ptr, ref>>
      BY Zenon, <2>2 DEF vars, cbVars, userVars
    <3>4. Order'
      <4>1. Lists /\ Unborn /\ Users /\ Behind /\ Holders /\ Grace
        BY Zenon, <1>1 DEF Order
      <4>2. Lists'
        BY <3>2, <4>1 DEF Lists, Good, Ordered, Paired, Alone, Creates, Sync
      <4>3. Unborn' /\ Users' /\ Behind'
        BY Zenon, <3>2, <4>1 DEF Unborn, Users, Behind
      <4>4. Holders'
        BY Zenon, <3>2, <4>1 DEF Holders, Has
      <4>5. Grace'
        BY Zenon, <3>2, <4>1 DEF Grace, Doomed, WaitsFor, Has
      <4> QED
        BY Zenon, <4>2, <4>3, <4>4, <4>5 DEF Order
    <3> QED
      BY Zenon, <3>1, <3>3, <3>4, QuietRcu
  <2> QED
    BY <2>1, <2>2
<1>3. ptr' \notin Retired' /\ InUse'
  <2>1. ref \in [Thread -> Obj \cup {NONE}]
    BY Zenon, <1>1 DEF TypeOK
  <2>2. CASE UNCHANGED <<ptr, ref, Retired>>
    BY Zenon, <1>1, <2>2 DEF InUse
  <2>3. ASSUME NEW t \in Thread, R!Get(t) \/ R!Quiesce(t) PROVE ptr' \notin Retired' /\ InUse'
    <3>1. /\ ptr' = ptr /\ Retired' = Retired
          /\ ref' \in {[ref EXCEPT ![t] = ptr], [ref EXCEPT ![t] = NONE]}
      BY Zenon, <2>3 DEF R!Get, R!Quiesce
    <3>2. \A u \in Thread : ref'[u] = ref[u] \/ ref'[u] = NONE \/ ref'[u] = ptr
      BY <2>1, <3>1
    <3> QED
      BY Zenon, <1>1, <3>1, <3>2 DEF InUse
  <2>4. ASSUME NEW t \in Thread, R!Replace(t) PROVE ptr' \notin Retired' /\ InUse'
    <3>1. /\ ptr' \in Obj \ ({ptr} \cup Retired) /\ Retired' = Retired \cup {ptr}
          /\ ref' \in {ref, [ref EXCEPT ![t] = NONE]}
      BY Zenon, <2>4 DEF R!Replace, R!Free
    <3>2. \A u \in Thread : ref'[u] = ref[u] \/ ref'[u] = NONE
      BY <2>1, <3>1
    <3> QED
      BY Zenon, <1>1, <3>1, <3>2 DEF InUse
  <2>5. ASSUME NEW o \in Obj, R!Reclaim(o) PROVE ptr' \notin Retired' /\ InUse'
    BY Zenon, <1>1, <2>5 DEF InUse, R!Reclaim
  <2> QED
    BY Zenon, <1>2, <2>2, <2>3, <2>4, <2>5 DEF RcuStep, R!Next
<1> QED
  BY Zenon, <1>2, <1>3 DEF Inv

(* The variables of lib/ovs-rcu.c and of its users have their types.       *)
THEOREM TypeCorrect == Spec => []TypeOK
<1>1. Init => Inv
  BY InitInv
<1>2. Inv /\ [Next]_vars => Inv'
  BY NextInv
<1>3. Inv => TypeOK
  BY Zenon DEF Inv
<1> QED
  BY <1>1, <1>2, <1>3, PTL DEF Spec

(* lib/ovs-rcu.c keeps the promise of ovs-rcu.h: whatever the callbacks    *)
(* and the callers of ovsrcu_synchronize() free, no thread uses it.        *)
THEOREM ImplementsRcu == Spec => RcuSpec
<1>1. Init => Inv /\ R!Init
  BY InitInv
<1>2. Inv /\ [Next]_vars => Inv' /\ [R!Next]_(R!rcuVars)
  <2> SUFFICES ASSUME Inv, [Next]_vars PROVE Inv' /\ [R!Next]_(R!rcuVars)
    OBVIOUS
  <2>1. Inv' /\ RcuStep
    BY NextInv
  <2> QED
    BY Zenon, <2>1 DEF RcuStep, R!rcuVars
<1> QED
  BY <1>1, <1>2, PTL DEF Spec, RcuSpec, R!Spec

(* So that no thread ever uses an object that was freed.                   *)
THEOREM MemorySafety == Spec => []R!NoUseAfterFree
<1>1. Init => Inv
  BY InitInv
<1>2. Inv /\ [Next]_vars => Inv'
  BY NextInv
<1>3. Inv => R!NoUseAfterFree
  BY ObjAssumption DEF Inv, InUse, R!NoUseAfterFree, R!Free
<1> QED
  BY <1>1, <1>2, <1>3, PTL DEF Spec

-----------------------------------------------------------------------------
(* Who calls callbacks.                                                    *)

(* Neither do the other threads, ...                                       *)
OthersCall ==
  \A t \in Thread \ {Main, Urcu} : \A step \in Leads : ~Has(todo[t], step)

(* ... nor does the thread that is there to call them after it came to     *)
(* postpone_barrier, ...                                                   *)
UrcuCalls ==
  /\ ~Has(todo[Urcu], "exit_round") /\ LoopLast(todo[Urcu])
  /\ Has(todo[Urcu], "arrive") \/ Urcu \in arrived =>
       \A step \in Takes \cup {"loop"} : ~Has(todo[Urcu], step)

(* ... nor the main thread before that, if there are threads.              *)
MainCalls ==
  /\ ~Has(todo[Main], "loop") /\ MeetsOnce(todo[Main])
  /\ multithreaded /\ Urcu \notin arrived =>
       Meets(todo[Main]) /\ \A step \in Takes : ~Has(todo[Main], step)

(* Only these two meet.                                                    *)
Arrives ==
  /\ arrived \subseteq {Main, Urcu} /\ (Urcu \in arrived => created)
  /\ Main \in arrived /\ Urcu \notin arrived =>
       Has(todo[Main], "gather") /\ ~Has(todo[Main], "arrive")

Callers ==
  /\ OthersCall /\ UrcuCalls /\ MainCalls /\ Arrives
  /\ \A t \in Thread : Posts(todo[t])

(* No thread comes into ovsrcu_barrier() or out of it.                     *)
SameBarriers ==
  \A t \in Thread : /\ Has(todo'[t], "barrier_post") => Has(todo[t], "barrier_post")
                    /\ Has(todo[t], "barrier_check") => Has(todo'[t], "barrier_check")

(* A step of a thread that leaves the marks ahead as they are.             *)
LEMMA SameCallers ==
  ASSUME Callers, NEW X, "arrive" \notin X, "gather" \notin X,
         \A u \in Thread : Same({}, X, todo[u], todo'[u]),
         UNCHANGED <<multithreaded, created, arrived>>
  PROVE  Callers' /\ ("barrier_check" \notin X => SameBarriers)
<1>1. Main \in Thread /\ Urcu \in Thread
  BY Zenon, ThreadAssumption DEF Thread
<1>2. \A step \in Leads \cup {"gather", "barrier_post", "barrier_check"} : step \in Marks
  BY Zenon DEF Marks
<1>3. /\ {"pop_all", "call", "loop", "exit_round", "arrive"} \subseteq Leads
      /\ Takes \subseteq Leads
  BY DEF Leads, Takes
<1>4. OthersCall'
  BY Zenon, <1>2 DEF Callers, OthersCall, Same
<1>5. UrcuCalls'
  <2>1. ~Has(todo'[Urcu], "exit_round") /\ LoopLast(todo'[Urcu])
    BY Zenon, <1>1, <1>2, <1>3 DEF Callers, UrcuCalls, Same
  <2>2. ASSUME Has(todo'[Urcu], "arrive") \/ Urcu \in arrived',
               NEW step \in Takes \cup {"loop"}
        PROVE  ~Has(todo'[Urcu], step)
    <3>1. Has(todo[Urcu], "arrive") \/ Urcu \in arrived
      BY Zenon, <1>1, <1>2, <1>3, <2>2 DEF Same
    <3>2. ~Has(todo[Urcu], step) /\ step \in Marks
      BY Zenon, <1>2, <1>3, <2>2, <3>1 DEF Callers, UrcuCalls
    <3> QED
      BY Zenon, <1>1, <3>2 DEF Same
  <2> QED
    BY Zenon, <2>1, <2>2 DEF UrcuCalls
<1>6. MainCalls'
  BY Zenon, <1>1, <1>2, <1>3 DEF Callers, MainCalls, Same
<1>7. Arrives'
  BY Zenon, <1>1, <1>2, <1>3 DEF Callers, Arrives, Same
<1>8. \A u \in Thread : Posts(todo'[u])
  BY Zenon DEF Callers, Same
<1>9. "barrier_check" \notin X => SameBarriers
  BY Zenon, <1>2 DEF SameBarriers, Same
<1> QED
  BY Zenon, <1>4, <1>5, <1>6, <1>7, <1>8, <1>9 DEF Callers

(* The same, for the list of one thread.                                   *)
LEMMA SameCallersOf ==
  ASSUME TypeOK, Callers, NEW t \in Thread, NEW X, "arrive" \notin X, "gather" \notin X,
         NEW new, todo' = [todo EXCEPT ![t] = new], Same({}, X, todo[t], new),
         UNCHANGED <<multithreaded, created, arrived>>
  PROVE  Callers' /\ ("barrier_check" \notin X => SameBarriers)
<1>1. todo'[t] = new /\ \A u \in Thread \ {t} : todo'[u] = todo[u]
  <2>1. todo \in [Thread -> Seq(Steps)]
    BY Zenon DEF TypeOK
  <2> QED
    BY <2>1
<1>2. \A u \in Thread : Same({}, X, todo[u], todo'[u])
  BY Zenon, <1>1, SameAsItself DEF Same
<1> QED
  BY Zenon, <1>2, SameCallers

(* Most steps.                                                             *)
LEMMA ThenCallers ==
  ASSUME TypeOK, Callers, NEW t \in Thread, NEW step, At(t, step),
         step # "arrive", step # "gather", NEW p, Then(t, p), Dull(p),
         UNCHANGED <<multithreaded, created, arrived>>
  PROVE  Callers' /\ (step # "barrier_check" => SameBarriers)
<1>1. todo[t] \in Seq(Steps)
  BY DEF TypeOK
<1>2. Only({}, p)
  BY Zenon DEF Dull, Only
<1>3. Same({}, {step}, todo[t], p \o Tail(todo[t]))
  BY Zenon, <1>1, <1>2, SameThen DEF At
<1>4. /\ "arrive" \notin {step} /\ "gather" \notin {step}
      /\ step # "barrier_check" => "barrier_check" \notin {step}
  OBVIOUS
<1> QED
  BY Zenon, <1>3, <1>4, SameCallersOf DEF Then

(* Most calls.                                                             *)
LEMMA BeginCallers ==
  ASSUME TypeOK, Callers, NEW t \in Thread, todo[t] = <<>>,
         NEW p, todo' = [todo EXCEPT ![t] = p], Dull(p),
         UNCHANGED <<multithreaded, created, arrived>>
  PROVE  Callers' /\ SameBarriers
<1>1. Same({}, {}, todo[t], p)
  <2>1. \A step \in Marks : ~Has(p, step)
    BY Zenon DEF Dull, Has
  <2>2. {"loop", "exit_round", "arrive", "barrier_post"} \subseteq Marks
    BY DEF Marks, Leads
  <2>3. LoopLast(p) /\ Meets(p) /\ MeetsOnce(p) /\ Posts(p)
    BY Zenon, <2>1, <2>2 DEF LoopLast, Meets, MeetsOnce, Posts, Has
  <2>4. \A step : ~Has(todo[t], step)
    BY DEF Has
  <2> QED
    BY Zenon, <2>1, <2>3, <2>4 DEF Same
<1> DEFINE X == {}
<1>2. /\ "arrive" \notin X /\ "gather" \notin X /\ "barrier_check" \notin X
      /\ Same({}, X, todo[t], p)
  BY <1>1
<1> HIDE DEF X
<1> QED
  BY Zenon, <1>2, SameCallersOf

-----------------------------------------------------------------------------
(* The steps that do nothing to what is ahead but that they are done.      *)
LEMMA DoneCallers ==
  ASSUME TypeOK, Callers, NEW t \in Thread,
         \/ ReadSeqno(t) \/ Insert(t) \/ ChangeFlushed(t) \/ Remove(t) \/ ChangeGlobal(t)
         \/ ReadTarget(t) \/ ReadCur(t) \/ CallDone(t) \/ BarrierPost(t) \/ BarrierWait(t)
         \/ BarrierCheck(t) \/ SetExit(t) \/ Deleted(t)
         \/ (t = Urcu /\ (ReadFlushed \/ WaitFlushed))
  PROVE  Callers' /\ (SameBarriers \/ BarrierCheck(t))
<1> DEFINE S == {"read_seqno", "insert", "flushed", "remove", "global", "read_target",
                 "read_cur", "call", "barrier_post", "barrier_wait", "set_exit", "delete",
                 "read_flushed", "wait_flushed"}
<1>1. ASSUME NEW step \in S \cup {"barrier_check"}, At(t, step), Then(t, <<>>),
             UNCHANGED <<multithreaded, created, arrived>>
      PROVE  Callers' /\ (step \in S => SameBarriers)
  <2>1. step # "arrive" /\ step # "gather" /\ (step \in S => step # "barrier_check")
    OBVIOUS
  <2> QED
    BY Zenon, <1>1, <2>1, DullLists, ThenCallers
<1>2. CASE \/ ReadSeqno(t) \/ Insert(t) \/ ChangeFlushed(t) \/ Remove(t) \/ ChangeGlobal(t)
  <2>1. /\ At(t, "read_seqno") \/ At(t, "insert") \/ At(t, "flushed") \/ At(t, "remove")
           \/ At(t, "global")
        /\ Then(t, <<>>) /\ UNCHANGED <<multithreaded, created, arrived>>
    BY Zenon, <1>2 DEF ReadSeqno, Insert, ChangeFlushed, Remove, ChangeGlobal, exitVars
  <2>2. {"read_seqno", "insert", "flushed", "remove", "global"} \subseteq S
    OBVIOUS
  <2> QED
    BY Zenon, <1>1, <2>1, <2>2
<1>3. CASE ReadTarget(t) \/ ReadCur(t) \/ CallDone(t) \/ BarrierPost(t) \/ BarrierWait(t)
  <2>1. /\ At(t, "read_target") \/ At(t, "read_cur") \/ At(t, "call")
           \/ At(t, "barrier_post") \/ At(t, "barrier_wait")
        /\ Then(t, <<>>) /\ UNCHANGED <<multithreaded, created, arrived>>
    BY Zenon, <1>3 DEF ReadTarget, ReadCur, CallDone, BarrierPost, BarrierWait, exitVars
  <2>2. {"read_target", "read_cur", "call", "barrier_post", "barrier_wait"} \subseteq S
    OBVIOUS
  <2> QED
    BY Zenon, <1>1, <2>1, <2>2
<1>4. CASE SetExit(t) \/ Deleted(t) \/ (t = Urcu /\ (ReadFlushed \/ WaitFlushed))
  <2>1. /\ At(t, "set_exit") \/ At(t, "delete") \/ At(t, "read_flushed")
           \/ At(t, "wait_flushed")
        /\ Then(t, <<>>) /\ UNCHANGED <<multithreaded, created, arrived>>
    BY Zenon, <1>4 DEF SetExit, Deleted, ReadFlushed, WaitFlushed, exitVars
  <2>2. {"set_exit", "delete", "read_flushed", "wait_flushed"} \subseteq S
    OBVIOUS
  <2> QED
    BY Zenon, <1>1, <2>1, <2>2
<1>5. CASE BarrierCheck(t)
  <2>1. At(t, "barrier_check") /\ Then(t, <<>>) /\ UNCHANGED <<multithreaded, created, arrived>>
    BY Zenon, <1>5 DEF BarrierCheck, exitVars
  <2> QED
    BY Zenon, <1>1, <1>5, <2>1
<1> QED
  BY Zenon, <1>2, <1>3, <1>4, <1>5

(* Those after which the thread synchronizes or polls.                     *)
LEMMA PollCallers ==
  ASSUME TypeOK, Callers, NEW t \in Thread,
         \/ Scan(t) \/ WaitGlobal(t) \/ Timer(t) \/ BarrierPoll(t)
         \/ (t = Urcu /\ PollFlushed)
  PROVE  Callers' /\ SameBarriers
<1>1. /\ Dull(<<>>) /\ Dull(<<"wait_global">>) /\ Dull(<<"read_cur", "scan">>)
      /\ Dull(<<"barrier_wait">>) /\ Dull(<<"wait_flushed">>)
  BY DEF Dull, Marks, Leads, Takes, Steps
<1>2. \E p : /\ Then(t, p) /\ Dull(p)
             /\ \E step \in {"scan", "wait_global", "barrier_poll", "poll_flushed"} :
                  At(t, step)
             /\ UNCHANGED <<multithreaded, created, arrived>>
  <2>1. CASE Scan(t)
    BY Zenon, <1>1, <2>1, DullLists DEF Scan, exitVars, ovsrcu_quiesce_end
  <2>2. CASE WaitGlobal(t) \/ Timer(t)
    BY Zenon, <1>1, <2>2 DEF WaitGlobal, Timer, exitVars
  <2>3. CASE BarrierPoll(t)
    <3>1. Dull(Poll(t, <<>>)) /\ Dull(Poll(t, <<"barrier_wait">>))
      BY Zenon, <1>1, DullPoll
    <3> QED
      BY Zenon, <2>3, <3>1 DEF BarrierPoll, exitVars
  <2>4. CASE t = Urcu /\ PollFlushed
    <3>1. Dull(Poll(t, <<>>)) /\ Dull(Poll(t, <<"wait_flushed">>))
      BY Zenon, <1>1, DullPoll
    <3> QED
      BY Zenon, <2>4, <3>1 DEF PollFlushed, exitVars
  <2> QED
    BY Zenon, <2>1, <2>2, <2>3, <2>4
<1>3. \A step \in {"scan", "wait_global", "barrier_poll", "poll_flushed"} :
        step # "arrive" /\ step # "gather" /\ step # "barrier_check"
  OBVIOUS
<1> QED
  BY Zenon, <1>2, <1>3, ThenCallers

(* A callback is called, or the thread becomes active first.               *)
LEMMA CallCallers ==
  ASSUME TypeOK, Callers, NEW t \in Thread, Call(t) \/ CallEnter(t)
  PROVE  Callers' /\ SameBarriers
<1> DEFINE X == {}
<1>1. "arrive" \notin X /\ "gather" \notin X /\ "barrier_check" \notin X
  OBVIOUS
<1>2. UNCHANGED <<multithreaded, created, arrived>>
  BY Zenon DEF Call, CallEnter, exitVars
<1>3. CASE Call(t)
  <2>1. todo' = todo
    BY Zenon, <1>3 DEF Call
  <2>2. \A u \in Thread : Same({}, X, todo[u], todo'[u])
    BY Zenon, <2>1, SameAsItself
  <2> HIDE DEF X
  <2> QED
    BY Zenon, <1>1, <1>2, <2>2, SameCallers
<1>4. CASE CallEnter(t)
  <2>1. todo' = [todo EXCEPT ![t] = ovsrcu_perthread_get \o todo[t]]
    BY Zenon, <1>4 DEF CallEnter
  <2>2. todo[t] \in Seq(Steps)
    BY DEF TypeOK
  <2>3. Only({}, ovsrcu_perthread_get)
    BY Zenon, DullLists DEF Dull, Only
  <2>4. Same({}, X, todo[t], ovsrcu_perthread_get \o todo[t])
    BY Zenon, <2>2, <2>3, SameAfter
  <2> HIDE DEF X
  <2> QED
    BY Zenon, <1>1, <1>2, <2>1, <2>4, SameCallersOf
<1> QED
  BY Zenon, <1>3, <1>4

(* ovsrcu_flush_cbset__() with nothing to flush drops a step.              *)
LEMMA PushCallers ==
  ASSUME TypeOK, Order, Callers, NEW t \in Thread, PushCbset(t)
  PROVE  Callers' /\ SameBarriers
<1> DEFINE s == todo[t]
<1>1. s \in Seq(Steps) /\ s # <<>> /\ Head(s) = "push"
  BY DEF TypeOK, PushCbset, At
<1>2. Paired(s)
  BY Zenon DEF Order, Lists, Good
<1> HIDE DEF s
<1>3. Tail(s) \in Seq(Steps) /\ Tail(s) # <<>> /\ Head(Tail(s)) = "flushed"
  <2>1. /\ DOMAIN s = 1 .. Len(s) /\ Len(s) \in Nat /\ Head(s) = s[1]
        /\ Tail(s) \in Seq(Steps) /\ Len(Tail(s)) = Len(s) - 1 /\ Len(s) >= 1
        /\ \A i \in 1 .. Len(s) - 1 : Tail(s)[i] = s[i + 1]
    BY <1>1, TailList
  <2>2. 1 \in DOMAIN s
    BY <2>1
  <2>3. 1 + 1 \in DOMAIN s /\ s[1 + 1] = "flushed"
    BY Zenon, <1>1, <1>2, <2>1, <2>2 DEF Paired
  <2> DEFINE r == Tail(s)
  <2>4. r \in Seq(Steps) /\ Len(r) >= 1 /\ r[1] = "flushed"
    BY <2>1, <2>3
  <2> HIDE DEF r
  <2>5. r # <<>> /\ Head(r) = r[1]
    BY <2>4
  <2> QED
    BY Zenon, <2>4, <2>5 DEF r
<1>4. Same({}, {"push"}, s, Tail(s)) /\ Same({}, {"flushed"}, Tail(s), Tail(Tail(s)))
  BY Zenon, <1>1, <1>3, SameTail
<1>5. Same({}, {"push"} \cup {"flushed"}, s, Tail(Tail(s)))
  BY Zenon, <1>4, SameTwice
<1>6. PICK X \in {{"push"}, {"push"} \cup {"flushed"}} :
        \E new : todo' = [todo EXCEPT ![t] = new] /\ Same({}, X, s, new)
  BY Zenon, <1>4, <1>5 DEF PushCbset, s
<1>7. "arrive" \notin X /\ "gather" \notin X /\ "barrier_check" \notin X
  BY <1>6
<1>8. UNCHANGED <<multithreaded, created, arrived>>
  BY Zenon DEF PushCbset, exitVars
<1> QED
  BY Zenon, <1>6, <1>7, <1>8, SameCallersOf DEF s

(* The main thread does something else.                                    *)
LEMMA MainCallers ==
  ASSUME TypeOK, Callers, NEW new, todo' = [todo EXCEPT ![Main] = new], Posts(new),
         Urcu \in arrived' <=> Urcu \in arrived, MainCalls', Arrives'
  PROVE  Callers'
<1>1. Main \in Thread /\ Urcu \in Thread /\ Main # Urcu
  BY Zenon, ThreadAssumption DEF Thread
<1>2. todo'[Main] = new /\ \A u \in Thread \ {Main} : todo'[u] = todo[u]
  <2>1. todo \in [Thread -> Seq(Steps)]
    BY Zenon DEF TypeOK
  <2> QED
    BY <1>1, <2>1
<1>3. UrcuCalls' /\ OthersCall'
  BY Zenon, <1>1, <1>2 DEF Callers, UrcuCalls, OthersCall
<1> QED
  BY Zenon, <1>2, <1>3 DEF Callers

(* The thread that calls callbacks does.                                   *)
LEMMA UrcuCallers ==
  ASSUME TypeOK, Callers, NEW new, todo' = [todo EXCEPT ![Urcu] = new], Posts(new),
         UrcuCalls', UNCHANGED <<multithreaded, created>>,
         arrived' = arrived \/ (created /\ arrived' = arrived \cup {Urcu})
  PROVE  Callers'
<1>1. Main \in Thread /\ Urcu \in Thread /\ Main # Urcu
  BY Zenon, ThreadAssumption DEF Thread
<1>2. todo'[Urcu] = new /\ \A u \in Thread \ {Urcu} : todo'[u] = todo[u]
  <2>1. todo \in [Thread -> Seq(Steps)]
    BY Zenon DEF TypeOK
  <2> QED
    BY <1>1, <2>1
<1>3. MainCalls' /\ OthersCall'
  BY Zenon, <1>1, <1>2 DEF Callers, MainCalls, OthersCall
<1>4. Arrives'
  BY Zenon, <1>1, <1>2 DEF Callers, Arrives
<1> QED
  BY Zenon, <1>2, <1>3, <1>4 DEF Callers

(* A thread that has one of these steps ahead is one of the two.           *)
LEMMA OnlyTwo ==
  ASSUME Callers, NEW t \in Thread, NEW step \in Leads, Has(todo[t], step)
  PROVE  t = Main \/ t = Urcu
BY Zenon DEF Callers, OthersCall

(* The next step is ahead.                                                 *)
LEMMA HasHead ==
  ASSUME TypeOK, NEW t \in Thread, NEW step, At(t, step)
  PROVE  /\ todo[t] \in Seq(Steps) /\ todo[t] # <<>> /\ Head(todo[t]) = step
         /\ Has(todo[t], step)
<1>1. todo[t] \in Seq(Steps) /\ todo[t] # <<>> /\ Head(todo[t]) = step
  BY DEF TypeOK, At
<1>2. 1 \in DOMAIN todo[t] /\ todo[t][1] = step
  BY <1>1
<1> QED
  BY Zenon, <1>1, <1>2 DEF Has

(* No more than these barriers.                                            *)
LEMMA SameBarriersOf ==
  ASSUME TypeOK, NEW t \in Thread, NEW new, todo' = [todo EXCEPT ![t] = new],
         NEW A, NEW X, Same(A, X, todo[t], new), "barrier_post" \notin A,
         "barrier_check" \notin X
  PROVE  SameBarriers
<1>1. todo'[t] = new /\ \A u \in Thread \ {t} : todo'[u] = todo[u]
  <2>1. todo \in [Thread -> Seq(Steps)]
    BY Zenon DEF TypeOK
  <2> QED
    BY <2>1
<1>2. "barrier_post" \in Marks /\ "barrier_check" \in Marks
  BY DEF Marks
<1> QED
  BY Zenon, <1>1, <1>2 DEF Same, SameBarriers

(* Taking the callbacks that were flushed.                                 *)
LEMMA PopAllCallers ==
  ASSUME TypeOK, Callers, NEW t \in Thread, PopAll(t)
  PROVE  Callers' /\ SameBarriers
<1> DEFINE s == todo[t]
           rest == Tail(s)
           over == IF rest # <<>> /\ Head(rest) = "exit_round" THEN Tail(rest) ELSE rest
<1>1. s \in Seq(Steps) /\ s # <<>> /\ Head(s) = "pop_all" /\ Has(s, "pop_all")
  <2>1. At(t, "pop_all")
    BY Zenon DEF PopAll
  <2> QED
    BY Zenon, <2>1, HasHead
<1>2. rest \in Seq(Steps)
  BY Zenon, <1>1, TailList
<1>3. UNCHANGED <<multithreaded, created, arrived>>
  BY Zenon DEF PopAll, exitVars
<1>4. CASE flushed_cbsets = <<>>
  <2>1. Same({}, {"pop_all"}, s, rest)
    BY Zenon, <1>1, SameTail
  <2>2. Same({}, {"pop_all"}, s, <<"poll_flushed">> \o rest)
    <3>1. Dull(<<"poll_flushed">>)
      BY DEF Dull, Marks, Leads, Takes, Steps
    <3> QED
      BY Zenon, <1>1, <3>1, SameThen DEF Dull, Only
  <2>3. Same({}, {"pop_all"} \cup {"exit_round"}, s, over)
    <3>1. CASE over = rest
      BY Zenon, <2>1, <3>1 DEF Same
    <3>2. CASE rest # <<>> /\ Head(rest) = "exit_round"
      <4>1. Same({}, {"exit_round"}, rest, Tail(rest))
        BY Zenon, <1>2, <3>2, SameTail
      <4> QED
        BY Zenon, <2>1, <3>2, <4>1, SameTwice
    <3> QED
      BY Zenon, <3>1, <3>2
  <2>4. PICK X \in {{"pop_all"}, {"pop_all"} \cup {"exit_round"}} :
          \E new : todo' = [todo EXCEPT ![t] = new] /\ Same({}, X, s, new)
    BY Zenon, <1>4, <2>2, <2>3 DEF PopAll
  <2>5. "arrive" \notin X /\ "gather" \notin X /\ "barrier_check" \notin X
    BY <2>4
  <2> QED
    BY Zenon, <1>3, <2>4, <2>5, SameCallersOf
<1>5. CASE flushed_cbsets # <<>>
  <2> DEFINE p == ovsrcu_synchronize(t) \o <<"call">>
             new == p \o rest
  <2>1. todo' = [todo EXCEPT ![t] = new]
    BY Zenon, <1>5 DEF PopAll
  <2>2. Only({"call"}, p)
    <3>1. Dull(ovsrcu_synchronize(t))
      BY Zenon, DullLists
    <3>2. Only({"call"}, <<"call">>)
      BY DEF Only, Steps
    <3> QED
      BY Zenon, <3>1, <3>2, OnlyAfter
  <2>3. Same({"call"}, {"pop_all"}, s, new)
    BY Zenon, <1>1, <2>2, SameThen
  <2> HIDE DEF new, p
  <2>4. /\ "call" # "loop" /\ "call" # "barrier_post"
        /\ "call" # "arrive" /\ "call" # "exit_round"
        /\ "pop_all" # "barrier_check" /\ "pop_all" # "gather"
        /\ {"pop_all", "loop", "exit_round", "arrive"} \subseteq Leads
        /\ "pop_all" \in Takes
        /\ Leads \subseteq Marks /\ "gather" \in Marks
    BY DEF Marks, Leads, Takes
  <2>5. SameBarriers
    BY Zenon, <2>1, <2>3, <2>4, SameBarriersOf
  <2>6. Posts(new)
    BY <2>3, <2>4 DEF Callers, Same
  <2>7. todo'[t] = new
    BY <2>1 DEF TypeOK
  <2>8. CASE t = Main
    <3>1. ~(multithreaded /\ Urcu \notin arrived)
      BY Zenon, <1>1, <2>4, <2>8 DEF Callers, MainCalls
    <3>2. ~Has(new, "loop") /\ MeetsOnce(new)
      <4>1. /\ ~Has(s, "loop") /\ MeetsOnce(s)
            /\ "loop" \in Marks \ {"call"} /\ "arrive" \notin {"call"}
        BY Zenon, <2>4, <2>8 DEF Callers, MainCalls
      <4> QED
        BY Zenon, <2>3, <4>1 DEF Same
    <3>3. MainCalls'
      BY Zenon, <1>3, <2>7, <2>8, <3>1, <3>2 DEF MainCalls
    <3>4. /\ Has(s, "gather") => Has(new, "gather")
          /\ Has(new, "arrive") => Has(s, "arrive")
      BY <2>3, <2>4 DEF Same
    <3>5. Arrives'
      BY Zenon, <1>3, <2>7, <2>8, <3>4 DEF Callers, Arrives
    <3> QED
      BY Zenon, <1>3, <2>1, <2>5, <2>6, <2>8, <3>3, <3>5, MainCallers
  <2>9. CASE t = Urcu
    <3>1. ~Has(s, "arrive") /\ Urcu \notin arrived
      BY Zenon, <1>1, <2>4, <2>9 DEF Callers, UrcuCalls
    <3>2. ~Has(new, "arrive")
      BY <2>3, <2>4, <3>1 DEF Same
    <3>3. ~Has(new, "exit_round") /\ LoopLast(new)
      <4>1. ~Has(s, "exit_round") /\ LoopLast(s)
        BY Zenon, <2>9 DEF Callers, UrcuCalls
      <4> QED
        BY <2>3, <2>4, <4>1 DEF Same
    <3>4. UrcuCalls'
      BY Zenon, <1>3, <2>7, <2>9, <3>1, <3>2, <3>3 DEF UrcuCalls
    <3> QED
      BY Zenon, <1>3, <2>1, <2>5, <2>6, <2>9, <3>4, UrcuCallers
  <2> QED
    BY Zenon, <1>1, <2>4, <2>8, <2>9, OnlyTwo
<1> QED
  BY Zenon, <1>4, <1>5

(* The loop of ovsrcu_exit().                                              *)
LEMMA ExitRoundCallers ==
  ASSUME TypeOK, Callers, NEW t \in Thread, ExitRound(t)
  PROVE  Callers' /\ SameBarriers
<1> DEFINE s == todo[t]
           A == {"pop_all", "exit_round"}
<1>1. s \in Seq(Steps) /\ s # <<>> /\ Head(s) = "exit_round" /\ Has(s, "exit_round")
  <2>1. At(t, "exit_round")
    BY Zenon DEF ExitRound
  <2> QED
    BY Zenon, <2>1, HasHead
<1>2. UNCHANGED <<multithreaded, created, arrived>>
  BY Zenon DEF ExitRound
<1>3. t = Main /\ Main \in Thread
  <2>1. "exit_round" \in Leads
    BY DEF Leads
  <2> QED
    BY Zenon, <1>1, <2>1, OnlyTwo, ThreadAssumption DEF Callers, UrcuCalls, Thread
<1>4. PICK p \in {ovsrcu_synchronize(t) \o <<"pop_all", "exit_round">>, <<>>} : Then(t, p)
  BY Zenon DEF ExitRound
<1>5. Only(A, p)
  <2>1. Dull(ovsrcu_synchronize(t))
    BY Zenon, DullLists
  <2>2. Only(A, <<>>) /\ Only(A, <<"pop_all", "exit_round">>)
    BY DEF Only, Steps
  <2> QED
    BY Zenon, <1>4, <2>1, <2>2, OnlyAfter
<1> DEFINE new == p \o Tail(s)
<1>6. todo' = [todo EXCEPT ![t] = new] /\ Same(A, {"exit_round"}, s, new)
  BY ZenonT(30), <1>1, <1>4, <1>5, SameThen DEF Then
<1>7. todo'[t] = new
  BY Zenon, <1>6 DEF TypeOK
<1> HIDE DEF new, s
<1>8. /\ "loop" \in Marks \ A /\ "gather" \in Marks \ {"exit_round"} /\ "arrive" \in Marks \ A
      /\ "barrier_post" \notin A /\ "barrier_check" \notin {"exit_round"}
  BY DEF Marks, Leads
<1>9. SameBarriers
  BY Zenon, <1>6, <1>8, SameBarriersOf DEF s
<1>10. ~(multithreaded /\ Urcu \notin arrived)
  <2>1. ~Meets(s)
    <3>1. Len(s) \in Nat /\ DOMAIN s = 1 .. Len(s) /\ Len(s) >= 1 /\ s[1] = "exit_round"
      BY <1>1
    <3> QED
      BY <3>1 DEF Meets
  <2> QED
    BY Zenon, <1>3, <2>1 DEF Callers, MainCalls, s
<1>11. /\ ~Has(new, "loop") /\ MeetsOnce(new) /\ Posts(new)
       /\ Has(s, "gather") => Has(new, "gather")
       /\ Has(new, "arrive") => Has(s, "arrive")
  <2>1. ~Has(s, "loop") /\ MeetsOnce(s) /\ Posts(s)
    BY Zenon, <1>3 DEF Callers, MainCalls, s
  <2> QED
    BY Zenon, <1>6, <1>8, <2>1 DEF Same
<1>12. MainCalls'
  BY Zenon, <1>2, <1>3, <1>7, <1>10, <1>11 DEF MainCalls
<1>13. Arrives'
  BY Zenon, <1>2, <1>3, <1>7, <1>11 DEF Callers, Arrives, s
<1> QED
  BY Zenon, <1>2, <1>3, <1>6, <1>9, <1>11, <1>12, <1>13, MainCallers

(* ovsrcu_quiesced() of a thread that is alone calls callbacks, ...        *)
LEMMA QuiescedAloneCallers ==
  ASSUME TypeOK, Order, Callers, NEW t \in Thread, Quiesced(t), ~multithreaded
  PROVE  Callers' /\ SameBarriers
<1> DEFINE s == todo[t]
           new == <<"pop_all">> \o Tail(s)
<1>1. s \in Seq(Steps) /\ s # <<>> /\ Head(s) = "quiesced"
  BY DEF TypeOK, Quiesced, At
<1>2. t = Main /\ Main \in Thread /\ Urcu \in Thread /\ Urcu # Main
  <2>1. s # <<"unborn">>
    BY <1>1
  <2> QED
    BY Zenon, <2>1, ThreadAssumption DEF Order, Unborn, Thread
<1>3. ~created /\ ~created'
  BY Zenon DEF Quiesced, Order, Unborn
<1>4. todo' = [todo EXCEPT ![t] = new]
  <2>1. todo' = [todo EXCEPT ![t] = new, ![Urcu] = todo[Urcu]]
    BY Zenon, <1>2, <1>3 DEF Quiesced
  <2> QED
    BY Zenon, <1>2, <2>1 DEF TypeOK
<1>5. UNCHANGED <<multithreaded, arrived>>
  BY Zenon DEF Quiesced
<1>6. Same({"pop_all"}, {"quiesced"}, s, new)
  <2>1. Only({"pop_all"}, <<"pop_all">>)
    BY DEF Only, Steps
  <2> QED
    BY Zenon, <1>1, <2>1, SameThen
<1>7. todo'[t] = new
  BY Zenon, <1>4 DEF TypeOK
<1> HIDE DEF new, s
<1>8. /\ "loop" \in Marks \ {"pop_all"} /\ "gather" \in Marks \ {"quiesced"}
      /\ "arrive" \in Marks \ {"pop_all"}
      /\ "barrier_post" \notin {"pop_all"} /\ "barrier_check" \notin {"quiesced"}
  BY DEF Marks, Leads
<1>9. SameBarriers
  BY Zenon, <1>4, <1>6, <1>8, SameBarriersOf DEF s
<1>10. /\ ~Has(new, "loop") /\ MeetsOnce(new) /\ Posts(new)
       /\ Has(s, "gather") => Has(new, "gather")
       /\ Has(new, "arrive") => Has(s, "arrive")
  <2>1. ~Has(s, "loop") /\ MeetsOnce(s) /\ Posts(s)
    BY Zenon, <1>2 DEF Callers, MainCalls, s
  <2> QED
    BY Zenon, <1>6, <1>8, <2>1 DEF Same
<1>11. MainCalls'
  BY Zenon, <1>2, <1>5, <1>7, <1>10 DEF MainCalls
<1>12. Arrives'
  BY Zenon, <1>2, <1>3, <1>5, <1>7, <1>10 DEF Callers, Arrives, s
<1> QED
  BY ZenonT(30), <1>2, <1>4, <1>5, <1>9, <1>10, <1>11, <1>12, MainCallers

(* ... and otherwise creates the thread that does, unless it is there.     *)
LEMMA QuiescedCallers ==
  ASSUME TypeOK, Order, Callers, NEW t \in Thread, Quiesced(t)
  PROVE  Callers' /\ SameBarriers
<1>1. /\ Main \in Thread /\ Urcu \in Thread /\ Urcu # Main
      /\ todo \in [Thread -> Seq(Steps)] /\ todo[t] \in Seq(Steps)
  BY Zenon, ThreadAssumption DEF TypeOK, Thread
<1>2. todo[t] # <<>> /\ Head(todo[t]) = "quiesced"
  BY Zenon DEF Quiesced, At
<1> SUFFICES ASSUME multithreaded PROVE Callers' /\ SameBarriers
  BY Zenon, QuiescedAloneCallers
<1>3. multithreaded' = multithreaded /\ arrived' = arrived /\ created'
  BY Zenon DEF Quiesced
<1>4. Same({}, {"quiesced"}, todo[t], Tail(todo[t]))
  BY Zenon, <1>1, <1>2, SameTail
<1>5. /\ "arrive" \notin {"quiesced"} /\ "gather" \notin {"quiesced"}
      /\ "barrier_check" \notin {"quiesced"}
  OBVIOUS
<1>6. CASE created
  <2>1. todo' = [todo EXCEPT ![t] = Tail(todo[t])]
    <3> DEFINE rest == Tail(todo[t])
    <3>1. todo' = [todo EXCEPT ![t] = rest, ![Urcu] = @]
      BY Zenon, <1>6 DEF Quiesced
    <3> HIDE DEF rest
    <3>2. \A u \in Thread : todo'[u] = [todo EXCEPT ![t] = rest][u]
      BY <1>1, <3>1
    <3>3. todo' = [todo EXCEPT ![t] = rest]
      BY Zenon, <1>1, <3>1, <3>2
    <3> QED
      BY Zenon, <3>3 DEF rest
  <2> QED
    BY Zenon, <1>3, <1>4, <1>5, <1>6, <2>1, SameCallersOf
<1>7. CASE ~created
  <2> DEFINE new == ovsrcu_quiesce_end \o <<"loop">>
  <2>1. todo[Urcu] = <<"unborn">> /\ t # Urcu
    BY <1>2, <1>7 DEF Order, Unborn
  <2>2. /\ todo'[t] = Tail(todo[t]) /\ todo'[Urcu] = new
        /\ \A u \in Thread \ {t, Urcu} : todo'[u] = todo[u]
    <3>1. todo' = [todo EXCEPT ![t] = Tail(todo[t]), ![Urcu] = new]
      BY Zenon, <1>3, <1>7 DEF Quiesced
    <3> QED
      BY <1>1, <2>1, <3>1
  <2>3. Same({}, {}, <<"loop">>, new)
    <3>1. Only({}, ovsrcu_quiesce_end) /\ <<"loop">> \in Seq(Steps)
      BY DullLists DEF Dull, Only, Steps, ovsrcu_quiesce_end
    <3> QED
      BY Zenon, <3>1, SameAfter
  <2>4. /\ LoopLast(new) /\ Posts(new)
        /\ ~Has(new, "exit_round") /\ ~Has(new, "arrive")
        /\ ~Has(new, "barrier_post") /\ ~Has(todo[Urcu], "barrier_check")
    <3> HIDE DEF new
    <3>1. /\ LoopLast(<<"loop">>) /\ Posts(<<"loop">>)
          /\ ~Has(<<"loop">>, "exit_round") /\ ~Has(<<"loop">>, "arrive")
          /\ ~Has(<<"loop">>, "barrier_post") /\ ~Has(<<"unborn">>, "barrier_check")
      BY DEF LoopLast, Posts, Has
    <3>2. {"exit_round", "arrive", "barrier_post"} \subseteq Marks
      BY DEF Marks, Leads
    <3> QED
      BY <2>1, <2>3, <3>1, <3>2 DEF Same
  <2> HIDE DEF new
  <2>5. \A u \in Thread \ {Urcu} : Same({}, {"quiesced"}, todo[u], todo'[u])
    BY Zenon, <1>4, <2>2, SameAsItself DEF Same
  <2>6. /\ {"loop", "exit_round", "arrive"} \subseteq Leads /\ Leads \subseteq Marks
        /\ Takes \subseteq Leads
        /\ {"gather", "barrier_post", "barrier_check"} \subseteq Marks
    BY DEF Marks, Leads
  <2>7. Urcu \notin arrived
    BY Zenon, <1>7 DEF Callers, Arrives
  <2>8. UrcuCalls'
    BY Zenon, <1>3, <2>2, <2>4, <2>7 DEF UrcuCalls
  <2>9. OthersCall'
    BY Zenon, <2>5, <2>6 DEF Callers, OthersCall, Same
  <2>10. MainCalls'
    BY Zenon, <1>1, <1>3, <1>5, <2>5, <2>6 DEF Callers, MainCalls, Same
  <2>11. Arrives'
    BY Zenon, <1>1, <1>3, <1>5, <2>5, <2>6 DEF Callers, Arrives, Same
  <2>12. \A u \in Thread : Posts(todo'[u])
    BY Zenon, <2>2, <2>4, <2>5 DEF Callers, Same
  <2>13. SameBarriers
    BY Zenon, <1>5, <2>2, <2>4, <2>5, <2>6 DEF SameBarriers, Same
  <2> QED
    BY ZenonT(30), <2>8, <2>9, <2>10, <2>11, <2>12, <2>13 DEF Callers
<1> QED
  BY ZenonT(30), <1>6, <1>7

(* Both threads have come to the barrier of ovsrcu_exit().                 *)
LEMMA GatheredCallers ==
  ASSUME TypeOK, Callers, NEW t \in Thread, At(t, "gather"), NEW p, Then(t, p), Dull(p),
         Urcu \in arrived, UNCHANGED <<multithreaded, created, arrived>>
  PROVE  Callers' /\ SameBarriers
<1>1. Main \in Thread /\ Urcu \in Thread
  BY Zenon, ThreadAssumption DEF Thread
<1> DEFINE new == p \o Tail(todo[t])
<1>2. todo[t] \in Seq(Steps) /\ todo[t] # <<>> /\ Head(todo[t]) = "gather"
  BY Zenon, HasHead
<1>3. Only({}, p)
  BY Zenon DEF Dull, Only
<1>4. todo' = [todo EXCEPT ![t] = new]
  BY Zenon DEF Then
<1>5. Same({}, {"gather"}, todo[t], new)
  BY Zenon, <1>2, <1>3, SameThen
<1> HIDE DEF new
<1>6. todo'[t] = new /\ \A u \in Thread \ {t} : todo'[u] = todo[u]
  BY <1>4 DEF TypeOK
<1>7. \A u \in Thread : Same({}, {"gather"}, todo[u], todo'[u])
  BY Zenon, <1>5, <1>6, SameAsItself DEF Same
<1>8. /\ {"loop", "exit_round", "arrive"} \subseteq Leads /\ Leads \subseteq Marks
      /\ Takes \subseteq Leads
      /\ "barrier_post" \notin {} /\ "barrier_check" \notin {"gather"}
  BY DEF Marks, Leads
<1>10. OthersCall'
  BY Zenon, <1>7, <1>8 DEF Callers, OthersCall, Same
<1>11. UrcuCalls'
  BY Zenon, <1>1, <1>7, <1>8 DEF Callers, UrcuCalls, Same
<1>12. MainCalls' /\ Arrives'
  BY Zenon, <1>1, <1>7, <1>8 DEF Callers, MainCalls, Arrives, Same
<1>13. \A u \in Thread : Posts(todo'[u])
  BY Zenon, <1>7 DEF Callers, Same
<1>14. SameBarriers
  BY Zenon, <1>4, <1>5, <1>8, SameBarriersOf
<1> QED
  BY Zenon, <1>10, <1>11, <1>12, <1>13, <1>14 DEF Callers

(* One goes on.                                                            *)
LEMMA GatherCallers ==
  ASSUME TypeOK, Callers, NEW t \in Thread, Gather(t)
  PROVE  Callers' /\ SameBarriers
<1>1. /\ At(t, "gather") /\ Then(t, <<>>) /\ Urcu \in arrived
      /\ UNCHANGED <<multithreaded, created, arrived>>
  BY Zenon DEF Gather, exitVars
<1> QED
  BY Zenon, <1>1, DullLists, GatheredCallers

(* The steps of a thread that comes to it, ...                             *)
LEMMA ArriveSteps ==
  ASSUME TypeOK, NEW t \in Thread, Arrive(t)
  PROVE  \E p : /\ Then(t, p) /\ Only({"gather"}, p)
                /\ arrived # {} \/ Has(p, "gather")
<1>1. Only({"gather"}, <<"gather">>) /\ Has(<<"gather">>, "gather") /\ Only({"gather"}, <<>>)
  BY DEF Only, Steps, Has
<1> QED
  BY Zenon, <1>1 DEF Arrive

(* ... and those of one that waits there.                                  *)
LEMMA BlockSteps ==
  ASSUME NEW t \in Thread
  PROVE  /\ Dull(Poll(t, <<>>))
         /\ Only({"gather"}, Poll(t, <<"gather">>)) /\ Has(Poll(t, <<"gather">>), "gather")
<1>1. Only({"gather"}, <<"gather">>)
  BY DEF Only, Steps
<1> DEFINE q == ovsrcu_quiesce_start(t) \o <<"gather">>
<1>2. Only({"gather"}, q) /\ Has(q, "gather")
  <2>1. Dull(ovsrcu_quiesce_start(t)) /\ ovsrcu_quiesce_start(t) \in Seq(Steps)
    BY Zenon, DullLists DEF Dull
  <2>2. <<"gather">> \in Seq(Steps)
    BY DEF Steps
  <2>3. Only({"gather"}, q)
    BY Zenon, <1>1, <2>1, OnlyAfter
  <2>4. q[Len(ovsrcu_quiesce_start(t)) + 1] = "gather"
    BY <2>1, <2>2
  <2>5. Len(ovsrcu_quiesce_start(t)) + 1 \in DOMAIN q
    BY <2>1, <2>2
  <2> QED
    BY Zenon, <2>3, <2>4, <2>5 DEF Has
<1> HIDE DEF q
<1>3. Only({"gather"}, q \o ovsrcu_quiesce_end) /\ Has(q \o ovsrcu_quiesce_end, "gather")
  <2>1. q \in Seq(Steps) /\ ovsrcu_quiesce_end \in Seq(Steps) /\ Dull(ovsrcu_quiesce_end)
    BY Zenon, <1>2, DullLists DEF Dull, Only, ovsrcu_quiesce_end
  <2>2. Only({"gather"}, q \o ovsrcu_quiesce_end)
    BY <1>2, <2>1, ConcatList DEF Dull, Only
  <2>3. PICK i \in DOMAIN q : q[i] = "gather"
    BY Zenon, <1>2 DEF Has
  <2>4. i \in DOMAIN (q \o ovsrcu_quiesce_end) /\ (q \o ovsrcu_quiesce_end)[i] = "gather"
    BY <2>1, <2>3, ConcatList
  <2> QED
    BY Zenon, <2>2, <2>4 DEF Has
<1>4. Poll(t, <<"gather">>) = q \o ovsrcu_quiesce_end
  <2>1. <<"gather">> # <<>>
    OBVIOUS
  <2> QED
    BY Zenon, <2>1 DEF Poll, q
<1>5. Dull(Poll(t, <<>>))
  BY Zenon, DullLists DEF Poll
<1> QED
  BY Zenon, <1>3, <1>4, <1>5

(* It waits there.                                                         *)
LEMMA BlockCallers ==
  ASSUME TypeOK, Callers, NEW t \in Thread, Block(t)
  PROVE  Callers' /\ SameBarriers
<1>1. At(t, "gather") /\ UNCHANGED <<multithreaded, created, arrived>>
  BY Zenon DEF Block, exitVars
<1>2. CASE arrived = {Main, Urcu}
  <2>1. Then(t, Poll(t, <<>>)) /\ Urcu \in arrived
    BY Zenon, <1>2 DEF Block
  <2> QED
    BY Zenon, <1>1, <2>1, BlockSteps, GatheredCallers
<1>3. CASE arrived # {Main, Urcu}
  <2> DEFINE s == todo[t]
             p == Poll(t, <<"gather">>)
             new == p \o Tail(s)
  <2>1. s \in Seq(Steps) /\ s # <<>> /\ Head(s) = "gather" /\ Has(s, "gather")
    BY Zenon, <1>1, HasHead
  <2>2. Then(t, p) /\ Only({"gather"}, p)
    BY Zenon, <1>3, BlockSteps DEF Block
  <2>3. PICK j \in DOMAIN p : p[j] = "gather"
    BY Zenon, BlockSteps DEF Has
  <2> HIDE DEF p
  <2>4. todo' = [todo EXCEPT ![t] = new] /\ Same({"gather"}, {"gather"}, s, new)
    BY Zenon, <2>1, <2>2, SameThen DEF Then
  <2>5. /\ Len(p) \in Nat /\ DOMAIN p = 1 .. Len(p) /\ Len(Tail(s)) \in Nat
        /\ DOMAIN new = 1 .. Len(p) + Len(Tail(s))
        /\ \A k \in 1 .. Len(p) : new[k] = p[k]
    BY <2>1, <2>2, TailList, ConcatList DEF Only
  <2>6. "exit_round" \in Marks /\ "exit_round" # "gather"
    BY DEF Marks, Leads
  <2> HIDE DEF new, s
  <2>7. Has(new, "gather")
    BY <2>3, <2>5 DEF Has
  <2>8. ASSUME NEW i \in DOMAIN new, new[i] = "exit_round"
        PROVE  j \in DOMAIN new /\ j < i /\ new[j] = "gather"
    <3>1. i \notin 1 .. Len(p)
      BY <2>2, <2>5, <2>6, <2>8 DEF Only
    <3> QED
      BY <2>3, <2>5, <2>8, <3>1
  <2>9. Meets(new)
    BY Zenon, <2>8 DEF Meets
  <2>10. /\ \A step \in Marks \ {"gather"} : Has(new, step) <=> Has(s, step)
         /\ LoopLast(s) => LoopLast(new)
         /\ MeetsOnce(s) => MeetsOnce(new)
         /\ Posts(s) => Posts(new)
    <3>1. /\ "loop" \notin {"gather"} /\ "arrive" \notin {"gather"}
          /\ "barrier_post" \notin {"gather"}
      OBVIOUS
    <3> QED
      BY Zenon, <2>4, <3>1 DEF Same
  <2>11. \A step \in Marks : Has(new, step) <=> Has(s, step)
    BY Zenon, <2>1, <2>7, <2>10
  <2>12. Same({}, {}, s, new)
    BY Zenon, <2>9, <2>10, <2>11 DEF Same
  <2> DEFINE X == {}
  <2>13. /\ Same({}, X, todo[t], new)
         /\ "arrive" \notin X /\ "gather" \notin X /\ "barrier_check" \notin X
    BY Zenon, <2>12 DEF s
  <2> HIDE DEF X
  <2> QED
    BY Zenon, <1>1, <2>4, <2>13, SameCallersOf
<1> QED
  BY Zenon, <1>2, <1>3

(* A thread comes to the barrier of ovsrcu_exit().                         *)
LEMMA ArriveCallers ==
  ASSUME TypeOK, Order, Callers, NEW t \in Thread, Arrive(t)
  PROVE  Callers' /\ SameBarriers
<1> DEFINE s == todo[t]
<1>1. s \in Seq(Steps) /\ s # <<>> /\ Head(s) = "arrive" /\ Has(s, "arrive")
  <2>1. At(t, "arrive")
    BY Zenon DEF Arrive
  <2> QED
    BY Zenon, <2>1, HasHead
<1>2. PICK p : Then(t, p) /\ Only({"gather"}, p) /\ (arrived # {} \/ Has(p, "gather"))
  BY Zenon, ArriveSteps
<1> DEFINE new == p \o Tail(s)
<1>3. todo' = [todo EXCEPT ![t] = new] /\ Same({"gather"}, {"arrive"}, s, new)
  BY Zenon, <1>1, <1>2, SameThen DEF Then
<1>4. todo'[t] = new
  BY Zenon, <1>3 DEF TypeOK
<1>5. /\ arrived' = arrived \cup {t} /\ UNCHANGED <<multithreaded, created>>
      /\ Urcu # Main /\ Urcu \in Thread /\ Main \in Thread
  BY Zenon, ThreadAssumption DEF Arrive, Thread
<1>6. /\ {"loop", "exit_round"} \subseteq Marks \ {"gather"}
      /\ Takes \subseteq Marks \ {"gather"}
      /\ "arrive" \in Leads
      /\ {"loop", "exit_round", "arrive", "barrier_post"} \cap {"gather"} = {}
      /\ "barrier_post" \notin {"gather"} /\ "barrier_check" \notin {"arrive"}
      /\ "loop" \notin {"gather"}
  BY DEF Marks, Leads, Takes
<1>7. SameBarriers
  BY Zenon, <1>3, <1>6, SameBarriersOf
<1>8. Posts(new)
  BY Zenon, <1>3, <1>6 DEF Callers, Same
<1>9. CASE t = Urcu
  <2>1. /\ ~Has(s, "exit_round") /\ LoopLast(s)
        /\ \A step \in Takes \cup {"loop"} : ~Has(s, step)
    BY Zenon, <1>1, <1>9 DEF Callers, UrcuCalls
  <2>2. /\ ~Has(new, "exit_round") /\ LoopLast(new)
        /\ \A step \in Takes \cup {"loop"} : ~Has(new, step)
    BY Zenon, <1>3, <1>6, <2>1 DEF Same
  <2>3. UrcuCalls'
    BY Zenon, <1>4, <1>9, <2>2 DEF UrcuCalls
  <2>4. created
    <3>1. s # <<"unborn">>
      BY <1>1
    <3> QED
      BY Zenon, <1>9, <3>1 DEF Order, Unborn
  <2> QED
    BY Zenon, <1>3, <1>5, <1>7, <1>8, <1>9, <2>3, <2>4, UrcuCallers
<1>10. CASE t = Main
  <2>1. ~Has(s, "loop") /\ MeetsOnce(s)
    BY Zenon, <1>10 DEF Callers, MainCalls
  <2>2. ~Has(new, "loop") /\ ~Has(new, "arrive")
    <3>1. ~Has(new, "loop")
      BY Zenon, <1>3, <1>6, <2>1 DEF Same
    <3>2. ~Has(Tail(s), "arrive")
      <4>1. /\ DOMAIN s = 1 .. Len(s) /\ s[1] = "arrive" /\ Len(s) \in Nat /\ Len(s) >= 1
            /\ DOMAIN Tail(s) = 1 .. Len(s) - 1
            /\ \A i \in 1 .. Len(s) - 1 : Tail(s)[i] = s[i + 1]
        BY <1>1, TailList
      <4> HIDE DEF s
      <4> QED
        BY <2>1, <4>1 DEF MeetsOnce, Has
    <3>3. Tail(s) \in Seq(Steps) /\ "arrive" \in Marks \ {"gather"}
      BY <1>1, TailList DEF Marks, Leads
    <3>4. Same({"gather"}, {}, Tail(s), new)
      BY Zenon, <1>2, <3>3, SameAfter
    <3> QED
      BY Zenon, <3>1, <3>2, <3>3, <3>4 DEF Same
  <2>3. ASSUME multithreaded, Urcu \notin arrived
        PROVE  Has(p, "gather") /\ Meets(new) /\ \A step \in Takes : ~Has(new, step)
    <3>1. Main \notin arrived
      BY Zenon, <1>1, <1>10, <2>3 DEF Callers, Arrives
    <3>2. arrived = {}
      BY Zenon, <2>3, <3>1 DEF Callers, Arrives
    <3>3. PICK j \in DOMAIN p : p[j] = "gather"
      BY Zenon, <1>2, <3>2 DEF Has
    <3>4. \A step \in Takes : ~Has(new, step)
      BY Zenon, <1>3, <1>6, <1>10, <2>3 DEF Callers, MainCalls, Same
    <3>5. ASSUME NEW i \in DOMAIN new, new[i] = "exit_round"
          PROVE  j \in DOMAIN new /\ j < i /\ new[j] = "gather"
      <4>1. /\ Len(p) \in Nat /\ DOMAIN p = 1 .. Len(p) /\ Len(Tail(s)) \in Nat
            /\ DOMAIN new = 1 .. Len(p) + Len(Tail(s))
            /\ \A k \in 1 .. Len(p) : new[k] = p[k]
        BY <1>1, <1>2, TailList, ConcatList DEF Only
      <4>2. "exit_round" \in Marks /\ "exit_round" # "gather"
        BY DEF Marks, Leads
      <4> HIDE DEF new, s
      <4>3. i \notin 1 .. Len(p)
        BY <1>2, <3>5, <4>1, <4>2 DEF Only
      <4> QED
        BY <3>3, <3>5, <4>1, <4>3
    <3>6. Meets(new)
      BY Zenon, <3>5 DEF Meets
    <3> QED
      BY Zenon, <3>3, <3>4, <3>6 DEF Has
  <2>4. ASSUME Has(p, "gather") PROVE Has(new, "gather")
    <3>1. PICK j \in DOMAIN p : p[j] = "gather"
      BY Zenon, <2>4 DEF Has
    <3>2. j \in DOMAIN new /\ new[j] = "gather"
      BY <1>1, <1>2, <3>1, TailList, ConcatList DEF Only
    <3> QED
      BY Zenon, <3>2 DEF Has
  <2>5. MeetsOnce(new)
    BY Zenon, <2>2 DEF MeetsOnce, Has
  <2>6. MainCalls'
    BY Zenon, <1>4, <1>5, <1>10, <2>2, <2>3, <2>5 DEF MainCalls
  <2>7. Arrives'
    <3>1. ASSUME Urcu \notin arrived PROVE arrived = {} \/ Main \in arrived
      BY Zenon, <3>1 DEF Callers, Arrives
    <3>2. ASSUME Urcu \notin arrived PROVE Has(new, "gather")
      BY Zenon, <1>1, <1>2, <1>10, <2>4, <3>1, <3>2 DEF Callers, Arrives
    <3> QED
      BY Zenon, <1>4, <1>5, <1>10, <2>2, <3>2 DEF Callers, Arrives
  <2> QED
    BY Zenon, <1>3, <1>5, <1>7, <1>8, <1>10, <2>6, <2>7, MainCallers
<1> QED
  BY Zenon, <1>1, <1>6, <1>9, <1>10, OnlyTwo

(* ovsrcu_postpone_thread() goes on or ends.                               *)
LEMMA LoopCallers ==
  ASSUME TypeOK, Order, Callers, Loop
  PROVE  Callers' /\ SameBarriers
<1> DEFINE s == todo[Urcu]
           goes == <<"read_flushed", "pop_all", "loop">>
           ends == <<"arrive">> \o ovsrcu_unregister__ \o <<"gone">>
<1>1. Urcu \in Thread
  BY Zenon DEF Thread
<1>2. s \in Seq(Steps) /\ s # <<>> /\ Head(s) = "loop" /\ Has(s, "loop")
  <2>1. At(Urcu, "loop")
    BY Zenon DEF Loop
  <2> QED
    BY Zenon, <1>1, <2>1, HasHead
<1>3. Tail(s) = <<>>
  <2>1. LoopLast(s)
    BY Zenon DEF Callers, UrcuCalls
  <2>2. Len(s) = 1
    <3>1. Len(s) >= 1 /\ DOMAIN s = 1 .. Len(s) /\ s[1] = "loop" /\ Len(s) \in Nat
      BY <1>2, TailList
    <3>2. 1 \in DOMAIN s
      BY <3>1
    <3> QED
      BY Zenon, <2>1, <3>1, <3>2 DEF LoopLast
  <2> QED
    BY <1>2, <2>2
<1>4. goes \in Seq(Steps) /\ ends \in Seq(Steps)
  BY DEF Steps, ovsrcu_unregister__
<1>5. PICK new \in {goes, ends} : todo' = [todo EXCEPT ![Urcu] = new]
  <2>1. goes \o <<>> = goes /\ ends \o <<>> = ends
    BY <1>4
  <2> QED
    BY Zenon, <1>3, <2>1 DEF Loop, Then
<1>6. todo'[Urcu] = new
  BY <1>1, <1>5 DEF TypeOK
<1>7. UNCHANGED <<multithreaded, created, arrived>>
  BY Zenon DEF Loop, exitVars
<1>8. ~Has(s, "arrive") /\ Urcu \notin arrived
  BY Zenon, <1>2 DEF Callers, UrcuCalls
<1>9. /\ ~Has(new, "exit_round") /\ LoopLast(new) /\ Posts(new)
      /\ Has(new, "arrive") => \A step \in Takes \cup {"loop"} : ~Has(new, step)
      /\ ~Has(new, "barrier_post")
  <2>1. CASE new = goes
    BY <2>1 DEF Has, LoopLast, Posts
  <2>2. CASE new = ends
    <3>1. /\ Only({"arrive"}, <<"arrive">>) /\ Only({"arrive"}, <<"gone">>)
          /\ Only({"arrive"}, ovsrcu_unregister__)
      BY DullLists DEF Only, Dull, Steps, Marks, Leads, Takes
    <3>2. Only({"arrive"}, new)
      BY Zenon, <2>2, <3>1, OnlyConcat
    <3>3. /\ Takes \cup {"loop", "exit_round", "barrier_post"} \subseteq Marks \ {"arrive"}
      BY DEF Marks, Leads, Takes
    <3>4. \A step \in Marks \ {"arrive"} : ~Has(new, step)
      BY Zenon, <3>2 DEF Only, Has
    <3> QED
      BY Zenon, <3>3, <3>4 DEF Has, LoopLast, Posts
  <2> QED
    BY Zenon, <1>5, <2>1, <2>2
<1>10. UrcuCalls'
  BY Zenon, <1>6, <1>7, <1>8, <1>9 DEF UrcuCalls
<1>11. SameBarriers
  <2>1. ~Has(s, "barrier_check")
    <3>1. Len(s) = 1 /\ s[1] = "loop"
      <4>1. Len(Tail(s)) = Len(s) - 1 /\ s[1] = Head(s) /\ Len(s) \in Nat
        BY <1>2, TailList
      <4>2. Len(<<>>) = 0
        OBVIOUS
      <4> HIDE DEF s
      <4> QED
        BY <1>2, <1>3, <4>1, <4>2
    <3>2. DOMAIN s = 1 .. 1
      BY <1>2, <3>1
    <3> QED
      BY <3>1, <3>2 DEF Has
  <2>2. \A u \in Thread \ {Urcu} : todo'[u] = todo[u]
    BY <1>5 DEF TypeOK
  <2> QED
    BY Zenon, <1>6, <1>9, <2>1, <2>2 DEF SameBarriers
<1> QED
  BY Zenon, <1>5, <1>7, <1>9, <1>10, <1>11, UrcuCallers

(* The threads are created.                                                *)
LEMMA CreateCallers ==
  ASSUME TypeOK, Order, Callers, Create
  PROVE  Callers' /\ SameBarriers
<1> DEFINE s == todo[Main]
<1>1. Main \in Thread /\ Urcu \in Thread /\ Urcu # Main /\ Urcu \notin Worker
  BY Zenon, ThreadAssumption DEF Thread
<1>2. s = <<"create">> /\ ~multithreaded
  <2>1. s \in Seq(Steps) /\ s # <<>> /\ Head(s) = "create" /\ Creates(multithreaded, Main, s)
    BY <1>1 DEF Create, At, TypeOK, Order, Lists, Good
  <2>2. Len(s) = 1 /\ s[1] = "create" /\ ~multithreaded
    <3>1. Len(s) >= 1 /\ DOMAIN s = 1 .. Len(s) /\ s[1] = "create" /\ Len(s) \in Nat
      BY <2>1, TailList
    <3>2. 1 \in DOMAIN s
      BY <3>1
    <3> QED
      BY Zenon, <2>1, <3>1, <3>2 DEF Creates
  <2> QED
    BY <2>1, <2>2
<1>3. ~created /\ ~created' /\ arrived' = arrived
  BY Zenon, <1>2 DEF Order, Unborn, Create
<1>4. todo'[Main] = <<>> /\ todo'[Urcu] = todo[Urcu]
  <2>1. todo'[Main] = Tail(s) /\ todo'[Urcu] = todo[Urcu]
    BY Zenon, <1>1 DEF Create
  <2>2. Tail(<<"create">>) = <<>>
    OBVIOUS
  <2> QED
    BY Zenon, <1>2, <2>1, <2>2
<1>5. \A u \in Thread \ {Main, Urcu} : todo'[u] = ovsrcu_quiesce_end
  BY Zenon DEF Create, Thread
<1>6. \A u \in Thread \ {Main} : todo[u] = <<"unborn">>
  BY Zenon, <1>2 DEF Order, Unborn
<1>7. /\ \A step : ~Has(<<>>, step)
      /\ \A step \in Marks : ~Has(ovsrcu_quiesce_end, step)
      /\ ~Has(<<"unborn">>, "barrier_check")
      /\ Meets(<<>>) /\ MeetsOnce(<<>>) /\ Posts(<<>>) /\ Posts(ovsrcu_quiesce_end)
  <2>1. \A step \in Marks : ~Has(ovsrcu_quiesce_end, step)
    BY Zenon, DullLists DEF Dull, Has, ovsrcu_quiesce_end
  <2>2. "barrier_post" \in Marks
    BY DEF Marks
  <2>3. Posts(ovsrcu_quiesce_end)
    BY Zenon, <2>1, <2>2 DEF Posts, Has
  <2> QED
    BY <2>1, <2>3 DEF Has, Meets, MeetsOnce, Posts
<1>8. Urcu \notin arrived
  BY Zenon, <1>3 DEF Callers, Arrives
<1>9. Leads \subseteq Marks /\ Takes \subseteq Leads /\ "barrier_post" \in Marks
  BY DEF Marks, Leads
<1>10. OthersCall'
  BY Zenon, <1>5, <1>7, <1>9 DEF OthersCall
<1>11. UrcuCalls'
  BY Zenon, <1>3, <1>4 DEF Callers, UrcuCalls
<1>12. MainCalls'
  BY Zenon, <1>4, <1>7 DEF MainCalls
<1>13. Arrives'
  <2>1. Main \notin arrived
    <3>1. ~Has(s, "gather")
      BY <1>2 DEF Has
    <3> QED
      BY Zenon, <1>8, <3>1 DEF Callers, Arrives
  <2> QED
    BY Zenon, <1>3, <1>8, <2>1 DEF Callers, Arrives
<1>14. \A u \in Thread : Posts(todo'[u])
  BY Zenon, <1>4, <1>5, <1>7 DEF Callers
<1>15. SameBarriers
  <2>1. ~Has(s, "barrier_check")
    BY <1>2 DEF Has
  <2> QED
    BY Zenon, <1>4, <1>5, <1>6, <1>7, <1>9, <2>1 DEF SameBarriers
<1> QED
  BY Zenon, <1>10, <1>11, <1>12, <1>13, <1>14, <1>15 DEF Callers

(* Every step of a thread.                                                 *)
LEMMA StepCallers ==
  ASSUME TypeOK, Order, Callers, NEW t \in Thread, Step(t) \/ Timer(t)
  PROVE  Callers' /\ (SameBarriers \/ BarrierCheck(t))
<1>1. CASE \/ ReadSeqno(t) \/ Insert(t) \/ ChangeFlushed(t) \/ Remove(t) \/ ChangeGlobal(t)
           \/ ReadTarget(t) \/ ReadCur(t) \/ CallDone(t) \/ BarrierPost(t) \/ BarrierWait(t)
           \/ BarrierCheck(t) \/ SetExit(t) \/ Deleted(t)
           \/ (t = Urcu /\ (ReadFlushed \/ WaitFlushed))
  BY Zenon, <1>1, DoneCallers
<1>2. CASE \/ Scan(t) \/ WaitGlobal(t) \/ Timer(t) \/ BarrierPoll(t)
           \/ (t = Urcu /\ PollFlushed)
  BY Zenon, <1>2, PollCallers
<1>3. CASE \/ PushCbset(t) \/ Quiesced(t) \/ PopAll(t) \/ Call(t) \/ CallEnter(t)
           \/ Arrive(t) \/ Block(t) \/ Gather(t) \/ ExitRound(t)
  BY Zenon, <1>3, PushCallers, QuiescedCallers, PopAllCallers, CallCallers,
     ArriveCallers, BlockCallers, GatherCallers, ExitRoundCallers
<1>4. CASE (t = Urcu /\ Loop) \/ (t = Main /\ Create)
  BY Zenon, <1>4, LoopCallers, CreateCallers
<1> QED
  BY Zenon, <1>1, <1>2, <1>3, <1>4 DEF Step

(* The call of ovsrcu_exit().                                              *)
LEMMA ExitCallers ==
  ASSUME TypeOK, Callers, Exit
  PROVE  Callers' /\ SameBarriers
<1> DEFINE new == ovsrcu_exit
<1>1. Main \in Thread /\ Urcu \in Thread
  BY Zenon, ThreadAssumption DEF Thread
<1>2. todo[Main] = <<>> /\ todo' = [todo EXCEPT ![Main] = new]
  BY Zenon DEF Exit, Begin, Calling
<1>3. UNCHANGED <<multithreaded, created, arrived>>
  BY Zenon DEF Exit
<1>4. /\ ~Has(new, "loop") /\ MeetsOnce(new) /\ Posts(new) /\ ~Has(new, "barrier_post")
      /\ multithreaded => Meets(new) /\ \A step \in Takes : ~Has(new, step)
  <2>1. CASE ~multithreaded
    <3>1. new = <<>> \o <<"exit_round">>
      BY Zenon, <2>1 DEF ovsrcu_exit
    <3>2. new = <<"exit_round">>
      BY <3>1
    <3> QED
      BY <2>1, <3>2 DEF Has, MeetsOnce, Posts
  <2>2. CASE multithreaded
    <3> DEFINE meet == <<"set_exit", "arrive">>
               loop == <<"exit_round">>
               both == meet \o loop
    <3>1. new = (ovsrcu_quiesced \o meet) \o loop
      BY Zenon, <2>2 DEF ovsrcu_exit
    <3>2. meet \in Seq(Steps) /\ loop \in Seq(Steps) /\ ovsrcu_quiesced \in Seq(Steps)
      BY DullLists DEF Steps, Dull
    <3>3. new = ovsrcu_quiesced \o both
      BY Zenon, <3>1, <3>2, ConcatAssociates
    <3>4. /\ both \in Seq(Steps) /\ DOMAIN both = 1 .. 3 /\ both[1] = "set_exit"
          /\ both[2] = "arrive" /\ both[3] = "exit_round"
      BY <3>2
    <3> HIDE DEF both, new
    <3>5. Same({}, {}, both, new)
      BY Zenon, <3>3, <3>4, DullLists, SameAfter DEF Dull, Only
    <3>6. /\ MeetsOnce(both) /\ Posts(both) /\ Meets(both)
      BY <3>4 DEF MeetsOnce, Posts, Meets
    <3>7. \A step \in Takes \cup {"loop", "barrier_post"} : ~Has(both, step)
      BY <3>4 DEF Has, Takes
    <3>8. /\ Takes \cup {"loop", "barrier_post"} \subseteq Marks
      BY DEF Marks, Leads
    <3> QED
      BY Zenon, <3>5, <3>6, <3>7, <3>8 DEF Same
  <2> QED
    BY Zenon, <2>1, <2>2
<1> HIDE DEF new
<1>5. todo'[Main] = new /\ \A u \in Thread \ {Main} : todo'[u] = todo[u]
  BY <1>1, <1>2 DEF TypeOK
<1>6. \A step : ~Has(todo[Main], step)
  BY <1>2 DEF Has
<1>7. MainCalls'
  BY Zenon, <1>3, <1>4, <1>5 DEF MainCalls
<1>8. Arrives'
  BY Zenon, <1>3, <1>6 DEF Callers, Arrives
<1>9. SameBarriers
  BY Zenon, <1>4, <1>5, <1>6 DEF SameBarriers
<1> QED
  BY Zenon, <1>2, <1>3, <1>4, <1>7, <1>8, <1>9, MainCallers

(* The call of ovsrcu_barrier().                                           *)
LEMMA BarrierCallers ==
  ASSUME TypeOK, Callers, NEW t \in Thread, Barrier(t)
  PROVE  /\ Callers' /\ Has(todo'[t], "barrier_check")
         /\ \A u \in Thread \ {t} : todo'[u] = todo[u]
<1> DEFINE wait == <<"barrier_post", "barrier_poll", "barrier_check">>
           new == ovsrcu_synchronize(t) \o wait
<1>1. todo[t] = <<>> /\ todo' = [todo EXCEPT ![t] = new]
  BY Zenon DEF Barrier, Begin, Calling, ovsrcu_barrier
<1>2. UNCHANGED <<multithreaded, created, arrived>>
  BY Zenon DEF Barrier, exitVars
<1>3. todo'[t] = new /\ \A u \in Thread \ {t} : todo'[u] = todo[u]
  BY Zenon, <1>1 DEF TypeOK
<1>4. wait \in Seq(Steps)
  BY DEF Steps
<1>5. Same({}, {}, wait, new)
  BY Zenon, <1>4, DullLists, SameAfter DEF Dull, Only
<1>6. /\ Posts(wait) /\ Has(wait, "barrier_check")
      /\ \A step \in Leads \cup {"gather"} : ~Has(wait, step)
  <2>1. /\ DOMAIN wait = 1 .. 3 /\ wait[1] = "barrier_post" /\ wait[2] = "barrier_poll"
        /\ wait[3] = "barrier_check"
    OBVIOUS
  <2> HIDE DEF wait
  <2> QED
    BY <2>1 DEF Posts, Has, Leads, Takes
<1>7. Leads \cup {"gather"} \subseteq Marks /\ "barrier_check" \in Marks
  BY DEF Marks
<1> HIDE DEF wait, new
<1>8. /\ Posts(new) /\ Has(new, "barrier_check")
      /\ \A step \in Leads \cup {"gather"} : ~Has(new, step)
  BY Zenon, <1>5, <1>6, <1>7 DEF Same
<1>9. {"loop", "exit_round", "arrive"} \subseteq Leads /\ Takes \subseteq Leads
  BY DEF Leads
<1>10. LoopLast(new) /\ Meets(new) /\ MeetsOnce(new)
  BY Zenon, <1>8, <1>9 DEF LoopLast, Meets, MeetsOnce, Has
<1>11. \A step : ~Has(todo[t], step)
  BY <1>1 DEF Has
<1>12. OthersCall'
  BY Zenon, <1>3, <1>8 DEF Callers, OthersCall
<1>13. UrcuCalls'
  BY Zenon, <1>2, <1>3, <1>8, <1>9, <1>10 DEF Callers, UrcuCalls, Thread
<1>14. MainCalls'
  BY Zenon, <1>2, <1>3, <1>8, <1>9, <1>10, ThreadAssumption DEF Callers, MainCalls, Thread
<1>15. Arrives'
  BY Zenon, <1>2, <1>3, <1>11, ThreadAssumption DEF Callers, Arrives, Thread
<1> QED
  BY Zenon, <1>3, <1>8, <1>12, <1>13, <1>14, <1>15 DEF Callers

(* Every call.                                                             *)
LEMMA ProgramCallers ==
  ASSUME TypeOK, Callers, NEW t \in Thread, Program(t)
  PROVE  Callers' /\ (SameBarriers \/ Barrier(t))
<1> DEFINE X == {}
<1>1. "arrive" \notin X /\ "gather" \notin X /\ "barrier_check" \notin X
  OBVIOUS
<1>2. CASE \/ Get(t) \/ TryQuiesceBusy(t)
           \/ Change(t, "change", "free") \/ Change(t, "change_again", "again")
  <2>1. UNCHANGED <<multithreaded, created, arrived>> /\ todo' = todo
    BY Zenon, <1>2 DEF Get, TryQuiesceBusy, Change, exitVars
  <2>2. \A u \in Thread : Same({}, X, todo[u], todo'[u])
    BY Zenon, <2>1, SameAsItself
  <2> HIDE DEF X
  <2> QED
    BY Zenon, <1>1, <2>1, <2>2, SameCallers
<1>3. ASSUME NEW p, Dull(p), todo[t] = <<>>, todo' = [todo EXCEPT ![t] = p],
             UNCHANGED <<multithreaded, created, arrived>>
      PROVE  Callers' /\ SameBarriers
  BY Zenon, <1>3, BeginCallers
<1>4. /\ Dull(<<"gone">>) /\ Dull(<<"delete">>) /\ Dull(<<"create">>)
      /\ Dull(ovsrcu_quiesce_end)
  BY DullLists DEF Dull, Marks, Leads, Takes, Steps, ovsrcu_quiesce_end
<1>5. CASE Quiesce(t) \/ QuiesceStart(t) \/ QuiesceEnd(t) \/ TryQuiesce(t)
  <2>1. PICK p \in {ovsrcu_quiesce, ovsrcu_quiesce_start(t), ovsrcu_quiesce_end, <<>>} :
          todo' = [todo EXCEPT ![t] = p]
    BY Zenon, <1>5 DEF Quiesce, QuiesceStart, QuiesceEnd, TryQuiesce, Begin
  <2>2. Dull(p)
    BY Zenon, <1>4, <2>1, DullLists
  <2>3. todo[t] = <<>> /\ UNCHANGED <<multithreaded, created, arrived>>
    BY Zenon, <1>5 DEF Quiesce, QuiesceStart, QuiesceEnd, TryQuiesce, Begin, Calling, exitVars
  <2> QED
    BY Zenon, <1>3, <2>1, <2>2, <2>3
<1>6. CASE Delete(t)
  <2>1. Dull(ovsrcu_synchronize(t) \o <<"delete">>)
    BY Zenon, <1>4, DullLists, DullConcat
  <2> QED
    BY Zenon, <1>3, <1>6, <2>1 DEF Delete, Begin, Calling, exitVars
<1>7. CASE Finish(t)
  <2>1. /\ Dull(ovsrcu_quiesce_start(t) \o <<"gone">>)
        /\ Dull(ovsrcu_unregister__ \o <<"gone">>)
        /\ Dull(<<>> \o <<"gone">>)
    BY Zenon, <1>4, DullLists, DullConcat
  <2>2. PICK p \in {ovsrcu_quiesce_start(t) \o <<"gone">>, ovsrcu_unregister__ \o <<"gone">>,
                    <<>> \o <<"gone">>} : todo' = [todo EXCEPT ![t] = p]
    BY Zenon, <1>7 DEF Finish
  <2>3. todo[t] = <<>> /\ UNCHANGED <<multithreaded, created, arrived>>
    BY Zenon, <1>7 DEF Finish, exitVars
  <2> QED
    BY Zenon, <1>3, <2>1, <2>2, <2>3
<1>8. CASE t = Main /\ ThreadCreate
  <2>1. Dull(<<>> \o <<"create">>) /\ Dull(ovsrcu_quiesce_end \o <<"create">>)
    BY Zenon, <1>4, DullLists, DullConcat
  <2>2. PICK p \in {<<>> \o <<"create">>, ovsrcu_quiesce_end \o <<"create">>} :
          todo' = [todo EXCEPT ![t] = p]
    BY Zenon, <1>8 DEF ThreadCreate
  <2>3. todo[t] = <<>> /\ UNCHANGED <<multithreaded, created, arrived>>
    BY Zenon, <1>8 DEF ThreadCreate, Calling, exitVars
  <2> QED
    BY Zenon, <1>3, <2>1, <2>2, <2>3
<1> QED
  BY Zenon, <1>2, <1>5, <1>6, <1>7, <1>8, ExitCallers, BarrierCallers DEF Program
=============================================================================
