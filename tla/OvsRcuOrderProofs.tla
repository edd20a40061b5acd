-------------------------- MODULE OvsRcuOrderProofs -------------------------
(***************************************************************************)
(* The order in which the threads of lib/ovs-rcu.c do things, for any      *)
(* number of threads and any programs.                                     *)
(*                                                                         *)
(* The argument is the one of read-copy-update: an object that is going to *)
(* be freed is not in the pointer any more, so that no thread gets it, and *)
(* a thread that has got it before has a sequence number which is not      *)
(* greater than the target of the thread that is going to free it.  What   *)
(* is left to show is that nobody frees before the wait is over, which is  *)
(* a matter of the order of the steps that are left to do.  TypeOK and     *)
(* Order say so, and are kept by each step of a thread and by each call of *)
(* a program.  At the end there are laws of lists of steps and of queues   *)
(* of callbacks, for the modules that extend this one.                     *)
(***************************************************************************)
EXTENDS OvsRcu, TLAPS

(* How long a prover may take where a proof does not say which one to use. *)
USE SMTT(20), ZenonT(20)

-----------------------------------------------------------------------------
(* The steps that are left of the functions a thread is in the middle of;  *)
(* m says whether there is more than one thread.                           *)

(* A step is in a list.                                                    *)
Has(s, step) == \E i \in DOMAIN s : s[i] = step

(* The steps of ovsrcu_synchronize() that wait, and those that free.       *)
Waits == {"read_target", "read_cur", "scan", "wait_global"}
Frees == {"call", "delete"}

(* What may come before one of them.  A thread that quiesces while there   *)
(* is no other one calls the callbacks itself.                             *)
Quiescing == {"read_seqno", "insert", "push", "flushed", "remove", "global"}
Sync(m, step) == step \in Waits \cup Quiescing \/ (m /\ step = "quiesced")

(* Nothing but quiescing and waiting comes before a step that waits or     *)
(* frees.                                                                  *)
Ordered(m, s) ==
  \A i, j \in DOMAIN s : i < j /\ s[j] \in Waits \cup Frees => Sync(m, s[i])

(* The second half of ovsrcu_flush_cbset__() follows the first one.        *)
Paired(s) ==
  \A i \in DOMAIN s : s[i] = "push" => i + 1 \in DOMAIN s /\ s[i + 1] = "flushed"

(* Only when there are other threads does a thread wait for them.          *)
Alone(m, s) == \A i \in DOMAIN s : s[i] \in Waits => m

(* The main thread creates the others at the end of ovs_thread_create().   *)
Creates(m, t, s) ==
  \A i \in DOMAIN s : s[i] = "create" => ~m /\ t = Main /\ i = Len(s)

(* What holds of the list of every thread.                                 *)
Good(m, t, s) ==
  s \in Seq(Steps) /\ Ordered(m, s) /\ Paired(s) /\ Alone(m, s) /\ Creates(m, t, s)

(* Nothing is left that waits or frees.                                    *)
Plain(s) == \A i \in DOMAIN s : s[i] \notin Waits \cup Frees

(* Steps that may be put in front of any others, and in front of those     *)
(* that are plain.                                                         *)
Early(m, s) ==
  s \in Seq(Steps) /\ Paired(s) /\ Alone(m, s) /\ \A i \in DOMAIN s : Sync(m, s[i])
Late(s) == s \in Seq(Steps) /\ Paired(s) /\ Plain(s) /\ ~Has(s, "create")

(* The tail of a list.                                                     *)
LEMMA TailList ==
  ASSUME NEW S, NEW s \in Seq(S), s # <<>>
  PROVE  /\ Len(s) \in Nat /\ Len(s) >= 1 /\ DOMAIN s = 1 .. Len(s)
         /\ Head(s) = s[1] /\ Head(s) \in S
         /\ Tail(s) \in Seq(S) /\ Len(Tail(s)) = Len(s) - 1
         /\ DOMAIN Tail(s) = 1 .. Len(s) - 1
         /\ \A i \in 1 .. Len(s) - 1 : Tail(s)[i] = s[i + 1]
OBVIOUS

(* One list in front of another one.                                       *)
LEMMA ConcatList ==
  ASSUME NEW S, NEW p \in Seq(S), NEW s \in Seq(S)
  PROVE  /\ Len(p) \in Nat /\ Len(s) \in Nat
         /\ DOMAIN p = 1 .. Len(p) /\ DOMAIN s = 1 .. Len(s)
         /\ p \o s \in Seq(S) /\ Len(p \o s) = Len(p) + Len(s)
         /\ DOMAIN (p \o s) = 1 .. Len(p) + Len(s)
         /\ \A i \in 1 .. Len(p) : (p \o s)[i] = p[i]
         /\ \A i \in Len(p) + 1 .. Len(p) + Len(s) : (p \o s)[i] = s[i - Len(p)]
OBVIOUS

(* A step is done.                                                         *)
LEMMA GoodTail ==
  ASSUME NEW m \in BOOLEAN, NEW t, NEW s, Good(m, t, s), s # <<>>
  PROVE  /\ Good(m, t, Tail(s))
         /\ ~Sync(m, Head(s)) => Plain(Tail(s))
         /\ \A step : Has(s, step) /\ step # Head(s) => Has(Tail(s), step)
<1>1. s \in Seq(Steps) /\ Ordered(m, s) /\ Paired(s) /\ Alone(m, s) /\ Creates(m, t, s)
  BY DEF Good
<1>2. /\ Len(s) \in Nat /\ Len(s) >= 1 /\ DOMAIN s = 1 .. Len(s) /\ Head(s) = s[1]
      /\ Tail(s) \in Seq(Steps) /\ Len(Tail(s)) = Len(s) - 1
      /\ DOMAIN Tail(s) = 1 .. Len(s) - 1
      /\ \A i \in 1 .. Len(s) - 1 : Tail(s)[i] = s[i + 1]
  BY <1>1, TailList
<1>3. Ordered(m, Tail(s))
  BY <1>1, <1>2 DEF Ordered
<1>4. Paired(Tail(s))
  BY <1>1, <1>2 DEF Paired
<1>5. Alone(m, Tail(s)) /\ Creates(m, t, Tail(s))
  BY <1>1, <1>2 DEF Alone, Creates
<1>6. ASSUME ~Sync(m, Head(s)) PROVE Plain(Tail(s))
  <2> SUFFICES ASSUME NEW i \in 1 .. Len(s) - 1 PROVE Tail(s)[i] \notin Waits \cup Frees
    BY <1>2 DEF Plain
  <2>1. 1 \in DOMAIN s /\ i + 1 \in DOMAIN s /\ 1 < i + 1 /\ Tail(s)[i] = s[i + 1]
    BY <1>2
  <2> QED
    BY <1>1, <1>2, <1>6, <2>1 DEF Ordered
<1>7. ASSUME NEW step, Has(s, step), step # Head(s) PROVE Has(Tail(s), step)
  <2>1. PICK i \in 1 .. Len(s) : s[i] = step
    BY <1>2, <1>7 DEF Has
  <2>2. i - 1 \in 1 .. Len(s) - 1 /\ Tail(s)[i - 1] = s[i]
    BY <1>2, <1>7, <2>1
  <2> QED
    BY Zenon, <1>2, <2>1, <2>2 DEF Has
<1> QED
  BY <1>2, <1>3, <1>4, <1>5, <1>6, <1>7 DEF Good

(* Steps are put in front of those that are left.                          *)
LEMMA GoodConcat ==
  ASSUME NEW m \in BOOLEAN, NEW t, NEW p, NEW s, Good(m, t, s),
         Early(m, p) \/ (Late(p) /\ Plain(s))
  PROVE  /\ Good(m, t, p \o s)
         /\ Late(p) /\ Plain(s) => Plain(p \o s)
         /\ \A step : Has(s, step) \/ Has(p, step) => Has(p \o s, step)
<1>1. s \in Seq(Steps) /\ Ordered(m, s) /\ Paired(s) /\ Alone(m, s) /\ Creates(m, t, s)
  BY DEF Good
<1>2. /\ p \in Seq(Steps) /\ Paired(p) /\ Alone(m, p)
      /\ \A i \in DOMAIN p : p[i] # "create"
      /\ (\A i \in DOMAIN p : Sync(m, p[i])) \/ (Plain(p) /\ Plain(s))
  <2>1. CASE Early(m, p)
    BY <2>1 DEF Early, Sync, Waits, Quiescing
  <2>2. CASE Late(p) /\ Plain(s)
    BY <2>2 DEF Late, Alone, Plain, Has
  <2> QED
    BY <2>1, <2>2
<1>3. /\ Len(p) \in Nat /\ Len(s) \in Nat
      /\ DOMAIN p = 1 .. Len(p) /\ DOMAIN s = 1 .. Len(s)
      /\ p \o s \in Seq(Steps) /\ Len(p \o s) = Len(p) + Len(s)
      /\ DOMAIN (p \o s) = 1 .. Len(p) + Len(s)
      /\ \A i \in 1 .. Len(p) : (p \o s)[i] = p[i]
      /\ \A i \in Len(p) + 1 .. Len(p) + Len(s) : (p \o s)[i] = s[i - Len(p)]
  BY <1>1, <1>2, ConcatList
<1>4. ASSUME Plain(p), Plain(s) PROVE Plain(p \o s)
  BY <1>3, <1>4 DEF Plain
<1>5. Ordered(m, p \o s)
  <2>1. CASE Plain(p) /\ Plain(s)
    BY <1>4, <2>1 DEF Plain, Ordered
  <2>2. CASE \A i \in DOMAIN p : Sync(m, p[i])
    <3> SUFFICES ASSUME NEW i \in 1 .. Len(p) + Len(s), NEW j \in 1 .. Len(p) + Len(s),
                        i < j, (p \o s)[j] \in Waits \cup Frees
                 PROVE  Sync(m, (p \o s)[i])
      BY <1>3 DEF Ordered
    <3>1. CASE i <= Len(p)
      BY <1>3, <2>2, <3>1
    <3>2. CASE i > Len(p)
      <4>1. /\ i - Len(p) \in DOMAIN s /\ j - Len(p) \in DOMAIN s
            /\ i - Len(p) < j - Len(p)
            /\ (p \o s)[i] = s[i - Len(p)] /\ (p \o s)[j] = s[j - Len(p)]
        BY <1>3, <3>2
      <4> QED
        BY <1>1, <4>1 DEF Ordered
    <3> QED
      BY <1>3, <3>1, <3>2
  <2> QED
    BY <1>2, <2>1, <2>2
<1>6. Paired(p \o s)
  <2> SUFFICES ASSUME NEW i \in 1 .. Len(p) + Len(s), (p \o s)[i] = "push"
               PROVE  i + 1 \in 1 .. Len(p) + Len(s) /\ (p \o s)[i + 1] = "flushed"
    BY <1>3 DEF Paired
  <2>1. CASE i <= Len(p)
    <3>1. i \in DOMAIN p /\ p[i] = "push"
      BY <1>3, <2>1
    <3>2. i + 1 \in DOMAIN p /\ p[i + 1] = "flushed"
      BY <1>2, <3>1 DEF Paired
    <3> QED
      BY <1>3, <3>2
  <2>2. CASE i > Len(p)
    <3>1. i - Len(p) \in DOMAIN s /\ s[i - Len(p)] = "push"
      BY <1>3, <2>2
    <3>2. (i - Len(p)) + 1 \in DOMAIN s /\ s[(i - Len(p)) + 1] = "flushed"
      BY Zenon, <1>1, <3>1 DEF Paired
    <3> QED
      BY <1>3, <2>2, <3>2
  <2> QED
    BY <1>3, <2>1, <2>2
<1>7. Alone(m, p \o s) /\ Creates(m, t, p \o s)
  <2> SUFFICES ASSUME NEW i \in 1 .. Len(p) + Len(s)
               PROVE  /\ (p \o s)[i] \in Waits => m
                      /\ (p \o s)[i] = "create" => ~m /\ t = Main /\ i = Len(p) + Len(s)
    BY <1>3 DEF Alone, Creates
  <2>1. CASE i <= Len(p)
    BY <1>2, <1>3, <2>1 DEF Alone
  <2>2. CASE i > Len(p)
    <3>1. i - Len(p) \in DOMAIN s /\ s[i - Len(p)] = (p \o s)[i]
      BY <1>3, <2>2
    <3>2. /\ s[i - Len(p)] \in Waits => m
          /\ s[i - Len(p)] = "create" => ~m /\ t = Main /\ i - Len(p) = Len(s)
      BY <1>1, <3>1 DEF Alone, Creates
    <3> QED
      BY <1>3, <3>1, <3>2
  <2> QED
    BY <1>3, <2>1, <2>2
<1>8. ASSUME NEW step, Has(s, step) \/ Has(p, step) PROVE Has(p \o s, step)
  <2>1. CASE Has(p, step)
    BY <1>3, <2>1 DEF Has
  <2>2. CASE Has(s, step)
    <3>1. PICK i \in 1 .. Len(s) : s[i] = step
      BY <1>3, <2>2 DEF Has
    <3>2. i + Len(p) \in 1 .. Len(p) + Len(s) /\ (p \o s)[i + Len(p)] = s[i]
      BY <1>3
    <3> QED
      BY <1>3, <3>1, <3>2 DEF Has
  <2> QED
    BY <1>8, <2>1, <2>2
<1> QED
  BY <1>3, <1>4, <1>5, <1>6, <1>7, <1>8 DEF Good, Late

(* Lists in front of each other.                                           *)
LEMMA ConcatAssociates ==
  ASSUME NEW p \in Seq(Steps), NEW q \in Seq(Steps), NEW s \in Seq(Steps)
  PROVE  (p \o q) \o s = p \o (q \o s)
OBVIOUS

(* Early and late steps after each other.                                  *)
LEMMA EarlyConcat ==
  ASSUME NEW m \in BOOLEAN, NEW p, NEW q, Early(m, p), Early(m, q)
  PROVE  Early(m, p \o q)
<1>1. Good(m, Urcu, q)
  BY DEF Early, Good, Ordered, Creates, Sync, Waits, Quiescing
<1>2. Good(m, Urcu, p \o q)
  BY <1>1, GoodConcat
<1>3. \A i \in DOMAIN (p \o q) : Sync(m, (p \o q)[i])
  <2>1. p \in Seq(Steps) /\ q \in Seq(Steps)
    BY DEF Early
  <2> QED
    BY <2>1, ConcatList DEF Early
<1> QED
  BY <1>2, <1>3 DEF Early, Good

(* Two lists that may be put in front of plain steps, one after the other. *)
LEMMA LateConcat ==
  ASSUME NEW p, NEW q, Late(p), Late(q)
  PROVE  Late(p \o q)
<1>1. Good(TRUE, Urcu, q) /\ Plain(q)
  BY Zenon DEF Late, Good, Ordered, Plain, Alone, Creates, Has
<1>2. Good(TRUE, Urcu, p \o q) /\ Plain(p \o q)
  BY Zenon, <1>1, GoodConcat
<1> QED
  BY <1>2 DEF Late, Good, Creates, Has

(* What frees is put in front of plain steps.                              *)
LEMMA GoodFree ==
  ASSUME NEW m \in BOOLEAN, NEW t, NEW s, Good(m, t, s), Plain(s), NEW step \in Frees
  PROVE  Good(m, t, <<step>> \o s) /\ Has(<<step>> \o s, step)
<1>1. s \in Seq(Steps) /\ Paired(s) /\ Alone(m, s) /\ Creates(m, t, s)
  BY DEF Good
<1>2. step \in Steps /\ step \notin Waits \cup {"push", "create"}
  BY DEF Steps, Frees, Waits
<1>3. /\ Len(s) \in Nat /\ DOMAIN s = 1 .. Len(s)
      /\ <<step>> \o s \in Seq(Steps) /\ Len(<<step>> \o s) = 1 + Len(s)
      /\ DOMAIN (<<step>> \o s) = 1 .. 1 + Len(s)
      /\ (<<step>> \o s)[1] = step
      /\ \A i \in 2 .. 1 + Len(s) : (<<step>> \o s)[i] = s[i - 1]
  BY <1>1, <1>2
<1>4. Ordered(m, <<step>> \o s)
  BY <1>3 DEF Plain, Ordered
<1>5. Paired(<<step>> \o s)
  <2> SUFFICES ASSUME NEW i \in 1 .. 1 + Len(s), (<<step>> \o s)[i] = "push"
               PROVE  i + 1 \in 1 .. 1 + Len(s) /\ (<<step>> \o s)[i + 1] = "flushed"
    BY <1>3 DEF Paired
  <2>1. i \in 2 .. 1 + Len(s) /\ i - 1 \in DOMAIN s /\ s[i - 1] = "push"
    BY <1>2, <1>3
  <2>2. (i - 1) + 1 \in DOMAIN s /\ s[(i - 1) + 1] = "flushed"
    BY Zenon, <1>1, <2>1 DEF Paired
  <2> QED
    BY <1>3, <2>1, <2>2
<1>6. Alone(m, <<step>> \o s) /\ Creates(m, t, <<step>> \o s)
  BY <1>1, <1>2, <1>3 DEF Alone, Creates
<1> QED
  BY <1>3, <1>4, <1>5, <1>6 DEF Good, Has


-----------------------------------------------------------------------------
(* The lists that functions put in front of what is left: registering and  *)
(* unregistering a thread.                                                 *)
LEMMA EarlyLists ==
  ASSUME NEW m \in BOOLEAN
  PROVE  /\ Early(m, <<>>) /\ Early(m, ovsrcu_perthread_get)
         /\ Early(m, ovsrcu_unregister__)
<1>1. /\ <<>> \in Seq(Steps) /\ ovsrcu_perthread_get \in Seq(Steps)
      /\ ovsrcu_unregister__ \in Seq(Steps)
  BY DEF Steps, ovsrcu_perthread_get, ovsrcu_unregister__
<1>2. /\ Paired(<<>>) /\ Paired(ovsrcu_perthread_get) /\ Paired(ovsrcu_unregister__)
  BY DEF Paired, ovsrcu_perthread_get, ovsrcu_unregister__
<1>3. Early(m, <<>>)
  BY <1>1, <1>2 DEF Early, Alone
<1>4. Early(m, ovsrcu_perthread_get)
  BY <1>1, <1>2 DEF Early, Alone, Sync, Waits, Quiescing, ovsrcu_perthread_get
<1>5. Early(m, ovsrcu_unregister__)
  BY <1>1, <1>2 DEF Early, Alone, Sync, Waits, Quiescing, ovsrcu_unregister__
<1> QED
  BY <1>3, <1>4, <1>5

(* Quiescing.                                                              *)
LEMMA LateLists ==
  /\ Late(<<>>) /\ Late(ovsrcu_perthread_get) /\ Late(ovsrcu_unregister__)
  /\ Late(ovsrcu_quiesced) /\ Late(ovsrcu_quiesce)
  /\ \A t \in Thread : Late(ovsrcu_quiesce_start(t))
<1>1. \A s : Early(FALSE, s) => Late(s)
  BY DEF Early, Late, Plain, Has, Alone, Sync, Waits, Frees, Quiescing
<1>2. Late(<<>>) /\ Late(ovsrcu_perthread_get) /\ Late(ovsrcu_unregister__)
  BY Zenon, <1>1, EarlyLists
<1>3. Late(<<"quiesced">>)
  BY DEF Late, Steps, Paired, Plain, Has, Waits, Frees
<1>4. Late(ovsrcu_quiesced)
  BY <1>2, <1>3 DEF ovsrcu_quiesced
<1>5. Late(<<"read_seqno", "push", "flushed", "global">>)
  BY DEF Late, Steps, Paired, Plain, Has, Waits, Frees
<1>6. Late(ovsrcu_quiesce)
  BY <1>4, <1>5, LateConcat DEF ovsrcu_quiesce
<1>7. ASSUME NEW t \in Thread PROVE Late(ovsrcu_quiesce_start(t))
  BY <1>2, <1>4, LateConcat DEF ovsrcu_quiesce_start
<1> QED
  BY <1>2, <1>4, <1>6, <1>7

(* poll_block()                                                            *)
LEMMA LatePoll ==
  ASSUME NEW t \in Thread, NEW steps, Late(steps)
  PROVE  Late(Poll(t, steps))
<1>1. Late(ovsrcu_quiesce_start(t) \o steps)
  BY LateLists, LateConcat
<1>2. Late((ovsrcu_quiesce_start(t) \o steps) \o ovsrcu_quiesce_end)
  BY <1>1, LateLists, LateConcat DEF ovsrcu_quiesce_end
<1> QED
  BY <1>2, LateLists DEF Poll

(* ovsrcu_synchronize() comes before what frees, and there is a wait in it *)
(* if there are other threads.                                             *)
LEMMA Synchronizes ==
  ASSUME NEW t \in Thread, multithreaded \in BOOLEAN
  PROVE  /\ Early(multithreaded, ovsrcu_synchronize(t))
         /\ multithreaded => /\ Has(ovsrcu_synchronize(t), "scan")
                             /\ ovsrcu_synchronize(t) # <<>>
                             /\ Head(ovsrcu_synchronize(t)) = "read_target"
<1>1. CASE ~multithreaded
  BY <1>1, EarlyLists DEF ovsrcu_synchronize
<1>2. CASE multithreaded
  <2> DEFINE start == ovsrcu_quiesce_start(t)
  <2>1. Early(TRUE, <<"quiesced">>) /\ Early(TRUE, <<"read_target">>)
    BY DEF Early, Steps, Paired, Alone, Sync, Waits, Quiescing
  <2>2. Early(TRUE, <<"read_cur", "scan">>)
    BY DEF Early, Steps, Paired, Alone, Sync, Waits, Quiescing
  <2>3. Early(TRUE, ovsrcu_quiesced)
    BY Zenon, <2>1, EarlyLists DEF ovsrcu_quiesced
  <2>4. Early(TRUE, start)
    BY Zenon, <2>3, EarlyLists, EarlyConcat DEF ovsrcu_quiesce_start
  <2> HIDE DEF start
  <2>5. Early(TRUE, <<"read_target">> \o start)
    BY Zenon, <2>1, <2>4, EarlyConcat
  <2>6. Early(TRUE, (<<"read_target">> \o start) \o <<"read_cur", "scan">>)
    BY Zenon, <2>2, <2>5, EarlyConcat
  <2>7. ovsrcu_synchronize(t) = (<<"read_target">> \o start) \o <<"read_cur", "scan">>
    BY <1>2 DEF ovsrcu_synchronize, start
  <2>8. start \in Seq(Steps)
    BY <2>4 DEF Early
  <2>9. "read_target" \in Steps /\ "read_cur" \in Steps /\ "scan" \in Steps
    BY DEF Steps
  <2>10. /\ <<"read_target">> \o start \in Seq(Steps)
         /\ Len(<<"read_target">> \o start) \in Nat /\ Len(<<"read_target">> \o start) >= 1
         /\ (<<"read_target">> \o start)[1] = "read_target"
    BY <2>8, <2>9
  <2> DEFINE r == <<"read_target">> \o start
             q == r \o <<"read_cur", "scan">>
  <2> HIDE DEF r
  <2>11. /\ Len(q) = Len(r) + 2 /\ q \in Seq(Steps)
         /\ q[1] = "read_target" /\ q[Len(r) + 2] = "scan"
    BY <2>9, <2>10 DEF r
  <2> HIDE DEF q
  <2>12. Has(q, "scan") /\ q # <<>> /\ Head(q) = "read_target"
    BY <2>10, <2>11 DEF Has, r
  <2> QED
    BY Zenon, <1>2, <2>6, <2>7, <2>12 DEF q, r
<1> QED
  BY <1>1, <1>2

-----------------------------------------------------------------------------
(* The invariant.                                                          *)

(* The list of every thread is a good one.                                 *)
Lists == \A t \in Thread : Good(multithreaded, t, todo[t])

(* A thread that was not created does nothing.                             *)
Unborn ==
  /\ created => multithreaded
  /\ ~multithreaded => \A t \in Thread \ {Main} : todo[t] = <<"unborn">>
  /\ ~created => todo[Urcu] = <<"unborn">>

(* A thread that uses an object is registered and is not in the middle of  *)
(* a function, that of ovs_thread_create() in which it quiesces apart.     *)
Users ==
  \A t \in Thread : ref[t] # NONE =>
    t \in Worker /\ t \in ovsrcu_threads /\ todo[t] \in {<<>>, <<"create">>}

(* Sequence numbers are taken from the global one.                         *)
Behind == \A t \in Thread : seqno[t] <= global_seqno

(* What t frees when its wait is over.                                     *)
Doomed(t) == (Objs(batch[t]) \cup {mine[t]}) \ {NONE}

(* A thread that uses an object has not quiesced since it got it.          *)
Holders ==
  \A t \in Thread : /\ batch[t] # <<>> => Has(todo[t], "call")
                    /\ mine[t] # NONE => Has(todo[t], "delete")

(* While a thread uses what t frees, t has a wait ahead, and it is for a   *)
(* sequence number that the other thread has not reached.                  *)
WaitsFor(t, u) ==
  /\ Has(todo[t], "scan") \/ Has(todo[t], "wait_global")
  /\ (todo[t] # <<>> /\ Head(todo[t]) = "read_target") \/ seqno[u] <= target[t]

(* A thread that is going to free an object waits for all that use it.     *)
Grace == \A t, u \in Thread : ref[u] \in Doomed(t) => WaitsFor(t, u)

(* The inductive invariant beside the types.                               *)
Order == Lists /\ Unborn /\ Users /\ Behind /\ Holders /\ Grace

(* t does a step: what belongs to another thread stays.                    *)
Keeps(t) ==
  \A u \in Thread \ {t} :
    /\ batch'[u] = batch[u] /\ mine'[u] = mine[u] /\ ref'[u] = ref[u]
    /\ seqno'[u] = seqno[u] /\ target'[u] = target[u]
    /\ u \in ovsrcu_threads => u \in ovsrcu_threads'
    /\ todo'[u] = todo[u] \/ todo[u] = <<"unborn">>

(* t uses an object that it has used before the step, or a new one that    *)
(* nobody is going to free.                                                *)
KeepsRef(t) ==
  ref'[t] # NONE =>
    /\ t \in Worker /\ t \in ovsrcu_threads' /\ todo'[t] \in {<<>>, <<"create">>}
    /\ \/ ref'[t] = ref[t] /\ seqno'[t] = seqno[t]
       \/ \A u \in Thread : ref'[t] \notin Doomed(u)'

(* The callbacks that t is going to call, and for whom it waits.           *)
KeepsOrder(t) ==
  /\ batch'[t] # <<>> => Has(todo'[t], "call")
  /\ mine'[t] # NONE => Has(todo'[t], "delete")
  /\ \A u \in Thread : ref'[u] \in Doomed(t)' => WaitsFor(t, u)'

(* What an unborn thread does not have.                                    *)
LEMMA NothingUnborn ==
  ASSUME Holders, Users, NEW t \in Thread, todo[t] = <<"unborn">>
  PROVE  batch[t] = <<>> /\ mine[t] = NONE /\ ref[t] = NONE /\ Doomed(t) = {}
<1>1. ~Has(todo[t], "call") /\ ~Has(todo[t], "delete")
  BY DEF Has
<1>2. todo[t] \notin {<<>>, <<"create">>}
  OBVIOUS
<1>3. batch[t] = <<>> /\ mine[t] = NONE /\ ref[t] = NONE
  BY <1>1, <1>2 DEF Holders, Users
<1>4. Objs(batch[t]) = {}
  BY <1>3 DEF Objs
<1> QED
  BY <1>3, <1>4 DEF Doomed

(* A step of t keeps the order of everything.                              *)
LEMMA Moves ==
  ASSUME Order, NEW t \in Thread, Keeps(t), KeepsRef(t), KeepsOrder(t)
  PROVE  Users' /\ Holders' /\ Grace'
<1>1. ASSUME NEW u \in Thread \ {t}, todo[u] = <<"unborn">>
      PROVE  batch'[u] = <<>> /\ mine'[u] = NONE /\ ref'[u] = NONE /\ Doomed(u)' = {}
  <2>1. batch[u] = <<>> /\ mine[u] = NONE /\ ref[u] = NONE /\ Doomed(u) = {}
    BY <1>1, NothingUnborn DEF Order
  <2> QED
    BY Zenon, <2>1 DEF Keeps, Doomed
<1>2. Users'
  <2> SUFFICES ASSUME NEW u \in Thread, ref'[u] # NONE
               PROVE  /\ u \in Worker /\ u \in ovsrcu_threads'
                      /\ todo'[u] \in {<<>>, <<"create">>}
    BY Zenon DEF Users
  <2>1. CASE u = t
    BY Zenon, <2>1 DEF KeepsRef
  <2>2. CASE u # t
    <3>1. todo[u] # <<"unborn">>
      BY Zenon, <1>1, <2>2
    <3> QED
      BY Zenon, <2>2, <3>1 DEF Keeps, Order, Users
  <2> QED
    BY <2>1, <2>2
<1>3. Holders'
  <2> SUFFICES ASSUME NEW u \in Thread
               PROVE  /\ batch'[u] # <<>> => Has(todo'[u], "call")
                      /\ mine'[u] # NONE => Has(todo'[u], "delete")
    BY Zenon DEF Holders, Has
  <2>1. CASE u = t
    BY Zenon, <2>1 DEF KeepsOrder
  <2>2. CASE u # t /\ todo[u] = <<"unborn">>
    BY Zenon, <1>1, <2>2
  <2>3. CASE u # t /\ todo[u] # <<"unborn">>
    BY Zenon, <2>3 DEF Keeps, Order, Holders
  <2> QED
    BY <2>1, <2>2, <2>3
<1>4. Grace'
  <2> SUFFICES ASSUME NEW v \in Thread, NEW u \in Thread, ref'[u] \in Doomed(v)'
               PROVE  WaitsFor(v, u)'
    BY Zenon DEF Grace
  <2>1. CASE v = t
    BY Zenon, <2>1 DEF KeepsOrder
  <2>2. CASE v # t
    <3>1. /\ todo[v] # <<"unborn">> /\ todo'[v] = todo[v] /\ target'[v] = target[v]
          /\ Doomed(v)' = Doomed(v)
      BY Zenon, <1>1, <2>2 DEF Keeps, Doomed
    <3>2. ref'[u] # NONE
      BY Zenon DEF Doomed
    <3>3. ref'[u] = ref[u] /\ seqno'[u] = seqno[u]
      <4>1. CASE u = t
        BY Zenon, <3>2, <4>1 DEF KeepsRef
      <4>2. CASE u # t
        BY Zenon, <4>2 DEF Keeps
      <4> QED
        BY <4>1, <4>2
    <3>4. WaitsFor(v, u)
      BY Zenon, <3>1, <3>3 DEF Order, Grace
    <3> QED
      BY Zenon, <3>1, <3>3, <3>4 DEF WaitsFor, Has
  <2> QED
    BY <2>1, <2>2
<1> QED
  BY <1>2, <1>3, <1>4

(* Only t changes what it has left to do.                                  *)
LEMMA Move ==
  ASSUME TypeOK, Order, NEW t \in Thread, todo[t] # <<"unborn">>,
         NEW new, Good(multithreaded, t, new), todo' = [todo EXCEPT ![t] = new],
         UNCHANGED <<multithreaded, created>>, Behind',
         \A u \in Thread \ {t} :
           /\ batch'[u] = batch[u] /\ mine'[u] = mine[u] /\ ref'[u] = ref[u]
           /\ seqno'[u] = seqno[u] /\ target'[u] = target[u]
           /\ u \in ovsrcu_threads => u \in ovsrcu_threads',
         KeepsRef(t), KeepsOrder(t)
  PROVE  Order' /\ todo' \in [Thread -> Seq(Steps)]
<1>1. todo \in [Thread -> Seq(Steps)] /\ multithreaded \in BOOLEAN
  BY Zenon DEF TypeOK
<1>2. todo'[t] = new /\ \A u \in Thread \ {t} : todo'[u] = todo[u]
  BY <1>1
<1>3. new \in Seq(Steps)
  BY Zenon DEF Good
<1>4. todo' \in [Thread -> Seq(Steps)]
  BY <1>1, <1>3
<1>5. Keeps(t)
  BY Zenon, <1>2 DEF Keeps
<1>6. Users' /\ Holders' /\ Grace'
  BY Zenon, <1>5, Moves
<1>7. Lists'
  <2> SUFFICES ASSUME NEW u \in Thread PROVE Good(multithreaded', u, todo'[u])
    BY Zenon DEF Lists, Good, Ordered, Paired, Alone, Creates, Sync
  <2>1. Good(multithreaded, u, todo'[u])
    BY Zenon, <1>2 DEF Order, Lists
  <2> QED
    BY <2>1
<1>8. Unborn'
  <2>1. Urcu \in Thread
    BY Zenon DEF Thread
  <2>2. /\ created => multithreaded
        /\ ~multithreaded => \A u \in Thread \ {Main} : todo[u] = <<"unborn">>
        /\ ~created => todo[Urcu] = <<"unborn">>
    BY Zenon DEF Order, Unborn
  <2> QED
    BY Zenon, <1>2, <2>1, <2>2 DEF Unborn
<1> QED
  BY Zenon, <1>4, <1>6, <1>7, <1>8 DEF Order

(* Most steps: what t frees and for whom it waits stays.                   *)
LEMMA Ordinary ==
  ASSUME TypeOK, Order, NEW t \in Thread, todo[t] # <<>>,
         Head(todo[t]) \notin {"unborn", "create", "scan", "wait_global", "read_target",
                               "call", "delete"},
         NEW new, Good(multithreaded, t, new), todo' = [todo EXCEPT ![t] = new],
         \A step \in {"call", "delete", "scan", "wait_global"} :
           Has(Tail(todo[t]), step) => Has(new, step),
         UNCHANGED <<multithreaded, created, batch, mine, ref, target>>, Behind',
         \A u \in Thread \ {t} :
           seqno'[u] = seqno[u] /\ (u \in ovsrcu_threads => u \in ovsrcu_threads')
  PROVE  Order' /\ todo' \in [Thread -> Seq(Steps)]
<1>1. /\ todo \in [Thread -> Seq(Steps)] /\ multithreaded \in BOOLEAN
      /\ Good(multithreaded, t, todo[t])
  BY Zenon DEF TypeOK, Order, Lists
<1>2. todo[t] # <<"unborn">> /\ todo[t] # <<"create">>
  OBVIOUS
<1>3. ref[t] = NONE
  BY Zenon, <1>2 DEF Order, Users
<1>4. KeepsRef(t)
  BY Zenon, <1>3 DEF KeepsRef
<1>5. \A step : Has(todo[t], step) /\ step # Head(todo[t]) => Has(Tail(todo[t]), step)
  BY Zenon, <1>1, GoodTail
<1>6. /\ Has(todo[t], "call") => Has(new, "call")
      /\ Has(todo[t], "delete") => Has(new, "delete")
      /\ Has(todo[t], "scan") => Has(new, "scan")
      /\ Has(todo[t], "wait_global") => Has(new, "wait_global")
  BY Zenon, <1>5
<1>7. todo'[t] = new
  BY <1>1
<1>8. ASSUME NEW u \in Thread, ref'[u] \in Doomed(t)' PROVE WaitsFor(t, u)'
  <2>1. ref[u] \in Doomed(t)
    BY Zenon, <1>8 DEF Doomed
  <2>2. WaitsFor(t, u)
    BY Zenon, <2>1 DEF Order, Grace
  <2>3. seqno[u] <= target[t]
    BY Zenon, <2>2 DEF WaitsFor
  <2>4. u # t
    BY Zenon, <1>3, <2>1 DEF Doomed
  <2>5. seqno'[u] = seqno[u]
    BY Zenon, <2>4
  <2> QED
    BY Zenon, <1>6, <1>7, <2>2, <2>3, <2>5 DEF WaitsFor, Has
<1>9. KeepsOrder(t)
  BY Zenon, <1>6, <1>7, <1>8 DEF KeepsOrder, Order, Holders
<1> QED
  BY Zenon, <1>2, <1>4, <1>9, Move

(* A call: t frees nothing.                                                *)
LEMMA Starts ==
  ASSUME TypeOK, Order, NEW t \in Thread, todo[t] = <<>>,
         NEW new, Good(multithreaded, t, new), todo' = [todo EXCEPT ![t] = new],
         UNCHANGED <<multithreaded, created, batch, mine, target, global_seqno, seqno,
                     ovsrcu_threads>>,
         \A u \in Thread \ {t} : ref'[u] = ref[u], KeepsRef(t)
  PROVE  Order' /\ todo' \in [Thread -> Seq(Steps)]
<1>1. ~Has(todo[t], "call") /\ ~Has(todo[t], "delete") /\ todo[t] # <<"unborn">>
  BY DEF Has
<1>2. batch[t] = <<>> /\ mine[t] = NONE
  BY Zenon, <1>1 DEF Order, Holders
<1>3. Doomed(t)' = {}
  BY <1>2 DEF Doomed, Objs
<1>4. KeepsOrder(t)
  BY Zenon, <1>2, <1>3 DEF KeepsOrder
<1>5. Behind'
  BY Zenon DEF Order, Behind
<1> QED
  BY Zenon, <1>1, <1>4, <1>5, Move

-----------------------------------------------------------------------------
(* The steps, one after the other.                                         *)

(* The steps that Ordinary is not about.                                   *)
Special == {"unborn", "create", "scan", "wait_global", "read_target", "call", "delete"}

(* What is left after a step, when steps come first.                       *)
LEMMA StepList ==
  ASSUME TypeOK, Order, NEW t \in Thread, todo[t] # <<>>, NEW steps,
         Early(multithreaded, steps)
           \/ (Late(steps) /\ ~Sync(multithreaded, Head(todo[t])))
  PROVE  /\ Good(multithreaded, t, steps \o Tail(todo[t]))
         /\ \A step : Has(Tail(todo[t]), step) \/ Has(steps, step)
                        => Has(steps \o Tail(todo[t]), step)
<1>1. multithreaded \in BOOLEAN /\ Good(multithreaded, t, todo[t])
  BY Zenon DEF TypeOK, Order, Lists
<1>2. /\ Good(multithreaded, t, Tail(todo[t]))
      /\ ~Sync(multithreaded, Head(todo[t])) => Plain(Tail(todo[t]))
  BY <1>1, GoodTail
<1> QED
  BY <1>1, <1>2, GoodConcat

(* A step after which others come first.                                   *)
LEMMA OrdinaryThen ==
  ASSUME TypeOK, Order, NEW t \in Thread, NEW step, At(t, step), step \notin Special,
         NEW steps, Then(t, steps),
         Early(multithreaded, steps) \/ (Late(steps) /\ ~Sync(multithreaded, step)),
         UNCHANGED <<multithreaded, created, batch, mine, ref, target>>, Behind',
         \A u \in Thread \ {t} :
           seqno'[u] = seqno[u] /\ (u \in ovsrcu_threads => u \in ovsrcu_threads')
  PROVE  Order' /\ todo' \in [Thread -> Seq(Steps)]
<1> DEFINE new == steps \o Tail(todo[t])
<1>1. /\ todo[t] # <<>> /\ Head(todo[t]) = step
      /\ todo' = [todo EXCEPT ![t] = new]
  BY Zenon DEF At, Then
<1>2. /\ Good(multithreaded, t, new)
      /\ \A x : Has(Tail(todo[t]), x) => Has(new, x)
  BY Zenon, <1>1, StepList
<1> HIDE DEF new
<1> QED
  BY Zenon, <1>1, <1>2, Ordinary DEF Special

(* The same when only the list changes, and what threads postponed.        *)
LEMMA QuietThen ==
  ASSUME TypeOK, Order, NEW t \in Thread, NEW step, At(t, step), step \notin Special,
         NEW steps, Then(t, steps),
         Early(multithreaded, steps) \/ (Late(steps) /\ ~Sync(multithreaded, step)),
         UNCHANGED <<multithreaded, created, batch, mine, ref, target, global_seqno,
                     seqno, ovsrcu_threads>>
  PROVE  Order' /\ todo' \in [Thread -> Seq(Steps)]
<1>1. Behind'
  BY Zenon DEF Order, Behind
<1> QED
  BY Zenon, <1>1, OrdinaryThen

(* A step of the wait, after which it goes on as long as it has to.        *)
LEMMA Wait ==
  ASSUME TypeOK, Order, NEW t \in Thread,
         NEW step \in {"read_target", "scan", "wait_global"}, At(t, step),
         NEW steps, Early(multithreaded, steps), Then(t, steps),
         target' \in [Thread -> Nat], \A u \in Thread \ {t} : target'[u] = target[u],
         \A u \in Thread : ref[u] \in Doomed(t) =>
           /\ seqno[u] <= target'[t]
           /\ \E x \in {"scan", "wait_global"} : Has(Tail(todo[t]), x) \/ Has(steps, x),
         UNCHANGED <<multithreaded, created, batch, mine, ref, seqno, global_seqno,
                     ovsrcu_threads>>
  PROVE  Order' /\ todo' \in [Thread -> Seq(Steps)]
<1> DEFINE new == steps \o Tail(todo[t])
<1>1. /\ todo[t] # <<>> /\ Head(todo[t]) = step
      /\ todo' = [todo EXCEPT ![t] = new] /\ todo \in [Thread -> Seq(Steps)]
      /\ multithreaded \in BOOLEAN /\ Good(multithreaded, t, todo[t])
  BY Zenon DEF At, Then, TypeOK, Order, Lists
<1>2. /\ Good(multithreaded, t, new)
      /\ \A x : Has(Tail(todo[t]), x) \/ Has(steps, x) => Has(new, x)
  BY Zenon, <1>1, StepList
<1>3. todo[t] \notin {<<"unborn">>, <<"create">>, <<>>} /\ todo'[t] = new
  <2>1. todo[t] \notin {<<"unborn">>, <<"create">>, <<>>}
    BY <1>1
  <2>2. todo'[t] = new
    BY Zenon, <1>1
  <2> QED
    BY Zenon, <2>1, <2>2
<1> HIDE DEF new
<1>4. ref[t] = NONE
  BY Zenon, <1>3 DEF Order, Users
<1>5. KeepsRef(t)
  BY Zenon, <1>4 DEF KeepsRef
<1>6. step # "call" /\ step # "delete"
  OBVIOUS
<1>7. \A x : Has(todo[t], x) /\ x # step => Has(new, x)
  <2>1. \A x : Has(todo[t], x) /\ x # Head(todo[t]) => Has(Tail(todo[t]), x)
    BY Zenon, <1>1, GoodTail
  <2> QED
    BY Zenon, <1>1, <1>2, <2>1
<1>8. ASSUME NEW u \in Thread, ref'[u] \in Doomed(t)' PROVE WaitsFor(t, u)'
  <2>1. ref[u] \in Doomed(t)
    BY Zenon, <1>8 DEF Doomed
  <2>2. seqno[u] <= target'[t] /\ (Has(new, "scan") \/ Has(new, "wait_global"))
    BY Zenon, <1>2, <2>1
  <2> QED
    BY Zenon, <1>3, <2>2 DEF WaitsFor, Has
<1>9. KeepsOrder(t)
  BY Zenon, <1>3, <1>6, <1>7, <1>8 DEF KeepsOrder, Order, Holders
<1>10. Behind'
  BY Zenon DEF Order, Behind
<1> QED
  BY Zenon, <1>1, <1>2, <1>3, <1>5, <1>9, <1>10, Move

(* Who waits has the wait left to do, and is not the only thread.          *)
LEMMA Awaits ==
  ASSUME TypeOK, Order, NEW t \in Thread, NEW step \in Waits, At(t, step)
  PROVE  /\ multithreaded
         /\ \A u \in Thread : ref[u] \in Doomed(t) =>
              /\ step # "read_target" => seqno[u] <= target[t]
              /\ \E x \in {"scan", "wait_global"} : x = step \/ Has(Tail(todo[t]), x)
<1>1. /\ todo[t] # <<>> /\ Head(todo[t]) = step
      /\ multithreaded \in BOOLEAN /\ Good(multithreaded, t, todo[t])
  BY Zenon DEF At, TypeOK, Order, Lists
<1>2. multithreaded
  <2>1. todo[t] \in Seq(Steps) /\ Alone(multithreaded, todo[t])
    BY Zenon, <1>1 DEF Good
  <2>2. 1 \in DOMAIN todo[t] /\ todo[t][1] = step
    BY <1>1, <2>1, TailList
  <2> QED
    BY Zenon, <2>1, <2>2 DEF Alone
<1>3. \A x : Has(todo[t], x) /\ x # Head(todo[t]) => Has(Tail(todo[t]), x)
  BY <1>1, GoodTail
<1>4. ASSUME NEW u \in Thread, ref[u] \in Doomed(t) PROVE WaitsFor(t, u)
  BY Zenon, <1>4 DEF Order, Grace
<1> QED
  BY Zenon, <1>1, <1>2, <1>3, <1>4 DEF WaitsFor

(* When t frees, nobody uses what it frees and no wait is left.            *)
LEMMA NoUsers ==
  ASSUME TypeOK, Order, NEW t \in Thread, NEW step \in Frees, At(t, step)
  PROVE  /\ Good(multithreaded, t, Tail(todo[t])) /\ Plain(Tail(todo[t]))
         /\ todo[t] \notin {<<"unborn">>, <<"create">>, <<>>} /\ ref[t] = NONE
         /\ \A u \in Thread : ref[u] \notin Doomed(t)
<1>1. /\ todo[t] # <<>> /\ Head(todo[t]) = step
      /\ multithreaded \in BOOLEAN /\ Good(multithreaded, t, todo[t])
  BY Zenon DEF At, TypeOK, Order, Lists
<1>2. step \notin Waits /\ ~Sync(multithreaded, step) /\ step # "unborn" /\ step # "create"
  BY DEF Frees, Sync, Waits, Quiescing
<1>3. /\ Good(multithreaded, t, Tail(todo[t])) /\ Plain(Tail(todo[t]))
      /\ \A x : Has(todo[t], x) /\ x # Head(todo[t]) => Has(Tail(todo[t]), x)
  BY Zenon, <1>1, <1>2, GoodTail
<1>4. todo[t] \notin {<<"unborn">>, <<"create">>, <<>>}
  BY <1>1, <1>2
<1>5. ref[t] = NONE
  BY Zenon, <1>4 DEF Order, Users
<1>6. ASSUME NEW u \in Thread PROVE ref[u] \notin Doomed(t)
  <2> SUFFICES ASSUME ref[u] \in Doomed(t) PROVE FALSE
    OBVIOUS
  <2>1. WaitsFor(t, u)
    BY Zenon DEF Order, Grace
  <2>2. PICK x \in Waits : Has(todo[t], x)
    BY <2>1 DEF WaitsFor, Waits
  <2>3. Has(Tail(todo[t]), x)
    BY Zenon, <1>1, <1>2, <1>3, <2>2
  <2> QED
    BY Zenon, <1>3, <2>2, <2>3 DEF Plain, Has
<1> QED
  BY Zenon, <1>3, <1>4, <1>5, <1>6

(* Then t may free part of it, or all.                                     *)
LEMMA Freed ==
  ASSUME TypeOK, Order, NEW t \in Thread, NEW step \in Frees, At(t, step),
         NEW new, Good(multithreaded, t, new), todo' = [todo EXCEPT ![t] = new],
         UNCHANGED <<multithreaded, created, ref, seqno, global_seqno, target,
                     ovsrcu_threads>>,
         \A u \in Thread \ {t} : batch'[u] = batch[u] /\ mine'[u] = mine[u],
         Doomed(t)' \subseteq Doomed(t),
         batch'[t] # <<>> => Has(new, "call"), mine'[t] # NONE => Has(new, "delete")
  PROVE  Order' /\ todo' \in [Thread -> Seq(Steps)]
<1>1. /\ todo[t] # <<"unborn">> /\ ref[t] = NONE
      /\ \A u \in Thread : ref[u] \notin Doomed(t)
  BY Zenon, NoUsers
<1>2. KeepsRef(t)
  BY Zenon, <1>1 DEF KeepsRef
<1>3. todo'[t] = new
  BY DEF TypeOK
<1>4. KeepsOrder(t)
  BY Zenon, <1>1, <1>3 DEF KeepsOrder
<1>5. Behind'
  BY Zenon DEF Order, Behind
<1> QED
  BY Zenon, <1>1, <1>2, <1>4, <1>5, Move

(* ovsrcu_synchronize() in front of other steps.                           *)
LEMMA SynchronizesFirst ==
  ASSUME NEW t \in Thread, multithreaded \in BOOLEAN,
         NEW q, Good(multithreaded, t, q)
  PROVE  /\ ovsrcu_synchronize(t) \in Seq(Steps)
         /\ Good(multithreaded, t, ovsrcu_synchronize(t) \o q)
         /\ \A x : Has(q, x) => Has(ovsrcu_synchronize(t) \o q, x)
         /\ multithreaded => /\ Has(ovsrcu_synchronize(t) \o q, "scan")
                             /\ ovsrcu_synchronize(t) \o q # <<>>
                             /\ Head(ovsrcu_synchronize(t) \o q) = "read_target"
<1> DEFINE p == ovsrcu_synchronize(t)
<1>1. /\ Early(multithreaded, p)
      /\ multithreaded => Has(p, "scan") /\ p # <<>> /\ Head(p) = "read_target"
  BY Synchronizes
<1>2. p \in Seq(Steps) /\ q \in Seq(Steps)
  BY Zenon, <1>1 DEF Early, Good
<1> HIDE DEF p
<1>3. Good(multithreaded, t, p \o q) /\ \A x : Has(q, x) \/ Has(p, x) => Has(p \o q, x)
  BY <1>1, GoodConcat
<1>4. ASSUME multithreaded PROVE p \o q # <<>> /\ Head(p \o q) = "read_target"
  <2>1. p # <<>> /\ Head(p) = "read_target"
    BY <1>1, <1>4
  <2> QED
    BY <1>2, <2>1
<1> QED
  BY Zenon, <1>1, <1>2, <1>3, <1>4 DEF p

(* Another thread that uses an object was created.                         *)
LEMMA OtherUser ==
  ASSUME Order, NEW t \in Thread, NEW u \in Thread \ {t}, todo[t] # <<"unborn">>,
         ref[u] # NONE
  PROVE  multithreaded
<1>1. <<"unborn">> \notin {<<>>, <<"create">>}
  OBVIOUS
<1>2. todo[u] # <<"unborn">>
  BY Zenon, <1>1 DEF Order, Users
<1> QED
  BY Zenon, <1>2 DEF Order, Unborn

(* A step that is neither a wait nor quiesces: nothing is left to free.    *)
LEMMA NothingToFree ==
  ASSUME TypeOK, Order, NEW t \in Thread, NEW step, At(t, step),
         ~Sync(multithreaded, step), step \notin Frees, step # "unborn", step # "create"
  PROVE  /\ Good(multithreaded, t, Tail(todo[t])) /\ Plain(Tail(todo[t]))
         /\ batch[t] = <<>> /\ mine[t] = NONE /\ ref[t] = NONE
         /\ todo[t] # <<"unborn">> /\ todo[t] # <<>>
<1>1. /\ todo[t] # <<>> /\ Head(todo[t]) = step
      /\ multithreaded \in BOOLEAN /\ Good(multithreaded, t, todo[t])
  BY Zenon DEF At, TypeOK, Order, Lists
<1>2. /\ Good(multithreaded, t, Tail(todo[t])) /\ Plain(Tail(todo[t]))
      /\ \A x : Has(todo[t], x) /\ x # Head(todo[t]) => Has(Tail(todo[t]), x)
  BY <1>1, GoodTail
<1>3. "call" \in Frees /\ "delete" \in Frees
  BY DEF Frees
<1>4. ~Has(Tail(todo[t]), "call") /\ ~Has(Tail(todo[t]), "delete")
  BY Zenon, <1>2, <1>3 DEF Plain, Has
<1>5. ~Has(todo[t], "call") /\ ~Has(todo[t], "delete")
  BY Zenon, <1>1, <1>2, <1>3, <1>4
<1>6. todo[t] \notin {<<"unborn">>, <<"create">>, <<>>}
  BY <1>1
<1> QED
  BY Zenon, <1>2, <1>5, <1>6 DEF Order, Holders, Users

-----------------------------------------------------------------------------
(* The steps of ovsrcu_quiesce() and ovsrcu_unregister__().                *)
LEMMA ReadSeqnoInv ==
  ASSUME TypeOK, Order, NEW t \in Thread, ReadSeqno(t)
  PROVE  TypeOK' /\ Order'
<1>1. seqno' \in [Thread -> Nat] /\ \A u \in Thread \ {t} : seqno'[u] = seqno[u]
  BY DEF ReadSeqno, TypeOK
<1>2. Behind'
  BY DEF ReadSeqno, TypeOK, Order, Behind, seqVars
<1>3. Order' /\ todo' \in [Thread -> Seq(Steps)]
  <2>1. At(t, "read_seqno") /\ "read_seqno" \notin Special /\ Then(t, <<>>)
    BY DEF ReadSeqno, Special
  <2>2. Early(multithreaded, <<>>)
    BY EarlyLists DEF TypeOK
  <2> QED
    BY Zenon, <1>1, <1>2, <2>1, <2>2, OrdinaryThen
    DEF ReadSeqno, exitVars, cbVars, syncVars, userVars
<1> QED
  BY Zenon, <1>1, <1>3
  DEF ReadSeqno, TypeOK, exitVars, seqVars, cbVars, syncVars, userVars

(* ovsrcu_quiesce_end() and ovsrcu_init_module() put the thread in the     *)
(* list.                                                                   *)
LEMMA InsertInv ==
  ASSUME TypeOK, Order, NEW t \in Thread, Insert(t)
  PROVE  TypeOK' /\ Order'
<1>1. ovsrcu_threads' \subseteq Thread /\ \A u \in ovsrcu_threads : u \in ovsrcu_threads'
  BY DEF Insert, TypeOK
<1>2. Behind'
  BY Zenon DEF Insert, Order, Behind, seqVars
<1>3. Order' /\ todo' \in [Thread -> Seq(Steps)]
  <2>1. At(t, "insert") /\ "insert" \notin Special /\ Then(t, <<>>)
    BY DEF Insert, Special
  <2>2. Early(multithreaded, <<>>)
    BY EarlyLists DEF TypeOK
  <2> QED
    BY Zenon, <1>1, <1>2, <2>1, <2>2, OrdinaryThen
    DEF Insert, exitVars, cbVars, syncVars, userVars
<1> QED
  BY Zenon, <1>1, <1>3
  DEF Insert, TypeOK, exitVars, seqVars, cbVars, syncVars, userVars

(* ovsrcu_unregister__() and the destructor take it out.                   *)
LEMMA RemoveInv ==
  ASSUME TypeOK, Order, NEW t \in Thread, Remove(t)
  PROVE  TypeOK' /\ Order'
<1>1. /\ ovsrcu_threads' \subseteq Thread /\ seqno' \in [Thread -> Nat]
      /\ \A u \in Thread \ {t} :
           seqno'[u] = seqno[u] /\ (u \in ovsrcu_threads => u \in ovsrcu_threads')
  BY Zenon DEF Remove, TypeOK
<1>2. Behind'
  BY DEF Remove, TypeOK, Order, Behind, seqVars
<1>3. Order' /\ todo' \in [Thread -> Seq(Steps)]
  <2>1. At(t, "remove") /\ "remove" \notin Special /\ Then(t, <<>>)
    BY DEF Remove, Special
  <2>2. Early(multithreaded, <<>>)
    BY EarlyLists DEF TypeOK
  <2> QED
    BY Zenon, <1>1, <1>2, <2>1, <2>2, OrdinaryThen
    DEF Remove, exitVars, cbVars, syncVars, userVars
<1> QED
  BY Zenon, <1>1, <1>3
  DEF Remove, TypeOK, exitVars, seqVars, cbVars, syncVars, userVars

(* seq_change() of the global sequence number.                             *)
LEMMA ChangeGlobalInv ==
  ASSUME TypeOK, Order, NEW t \in Thread, ChangeGlobal(t)
  PROVE  TypeOK' /\ Order'
<1>1. global_seqno' \in Nat
  BY DEF ChangeGlobal, TypeOK
<1>2. Behind'
  <2>1. /\ global_seqno \in Nat /\ seqno \in [Thread -> Nat]
        /\ global_seqno' = global_seqno + 1 /\ seqno' = seqno
        /\ \A u \in Thread : seqno[u] <= global_seqno
    BY Zenon DEF ChangeGlobal, TypeOK, Order, Behind
  <2> QED
    BY <2>1 DEF Behind
<1>3. Order' /\ todo' \in [Thread -> Seq(Steps)]
  <2>1. At(t, "global") /\ "global" \notin Special /\ Then(t, <<>>)
    BY DEF ChangeGlobal, Special
  <2>2. Early(multithreaded, <<>>)
    BY EarlyLists DEF TypeOK
  <2> QED
    BY Zenon, <1>2, <2>1, <2>2, OrdinaryThen
    DEF ChangeGlobal, exitVars, cbVars, syncVars, userVars
<1>4. seq_mutex' \in Thread \cup {NONE}
  BY Zenon DEF ChangeGlobal
<1> QED
  BY Zenon, <1>1, <1>3, <1>4
  DEF ChangeGlobal, TypeOK, exitVars, cbVars, syncVars, userVars

(* seq_change() at the end of ovsrcu_flush_cbset__().                      *)
LEMMA ChangeFlushedInv ==
  ASSUME TypeOK, Order, NEW t \in Thread, ChangeFlushed(t)
  PROVE  TypeOK' /\ Order'
<1>1. flushed_cbsets_seq' \in Nat
  BY DEF ChangeFlushed, TypeOK
<1>2. Order' /\ todo' \in [Thread -> Seq(Steps)]
  <2>1. At(t, "flushed") /\ "flushed" \notin Special /\ Then(t, <<>>)
    BY DEF ChangeFlushed, Special
  <2>2. Early(multithreaded, <<>>)
    BY EarlyLists DEF TypeOK
  <2> QED
    BY Zenon, <2>1, <2>2, QuietThen
    DEF ChangeFlushed, exitVars, cbVars, syncVars, userVars
<1> QED
  BY Zenon, <1>1, <1>2
  DEF ChangeFlushed, TypeOK, exitVars, cbVars, syncVars, userVars

(* There are two steps for a flush, of which the second one is left out    *)
(* when there is nothing to flush.                                         *)
LEMMA PushCbsetInv ==
  ASSUME TypeOK, Order, NEW t \in Thread, PushCbset(t)
  PROVE  TypeOK' /\ Order'
<1>1. flushed_cbsets' \in Seq(Callback) /\ cbset' \in [Thread -> Seq(Callback)]
  BY DEF PushCbset, TypeOK
<1>2. /\ todo[t] # <<>> /\ Head(todo[t]) = "push" /\ multithreaded \in BOOLEAN
      /\ Good(multithreaded, t, todo[t])
  BY Zenon DEF PushCbset, At, TypeOK, Order, Lists
<1> DEFINE q == Tail(todo[t])
<1>3. /\ Good(multithreaded, t, q)
      /\ \A x : Has(todo[t], x) /\ x # Head(todo[t]) => Has(q, x)
  BY <1>2, GoodTail
<1>4. q # <<>> /\ Head(q) = "flushed"
  <2>1. todo[t] \in Seq(Steps) /\ Paired(todo[t])
    BY Zenon, <1>2 DEF Good
  <2>2. /\ Len(todo[t]) \in Nat /\ 1 \in DOMAIN todo[t] /\ todo[t][1] = "push"
        /\ DOMAIN todo[t] = 1 .. Len(todo[t])
    BY <1>2, <2>1, TailList
  <2>3. 2 \in 1 .. Len(todo[t]) /\ todo[t][2] = "flushed"
    BY <2>1, <2>2 DEF Paired
  <2>4. q \in Seq(Steps) /\ Len(q) = Len(todo[t]) - 1 /\ q[1] = todo[t][1 + 1]
    BY <1>2, <2>1, <2>2, <2>3, TailList
  <2> HIDE DEF q
  <2> QED
    BY <2>2, <2>3, <2>4
<1> HIDE DEF q
<1>5. /\ Good(multithreaded, t, Tail(q))
      /\ \A x : Has(q, x) /\ x # "flushed" => Has(Tail(q), x)
  BY Zenon, <1>2, <1>3, <1>4, GoodTail
<1>6. PICK new \in {q, Tail(q)} : todo' = [todo EXCEPT ![t] = new]
  BY Zenon DEF PushCbset, q
<1>7. /\ Good(multithreaded, t, new)
      /\ \A x \in {"call", "delete", "scan", "wait_global"} : Has(q, x) => Has(new, x)
  <2>1. \A x \in {"call", "delete", "scan", "wait_global"} : x # "flushed"
    OBVIOUS
  <2> QED
    BY Zenon, <1>3, <1>5, <2>1
<1>8. Head(todo[t]) \notin Special
  BY <1>2 DEF Special
<1>9. /\ Behind'
      /\ UNCHANGED <<multithreaded, created, batch, mine, ref, target, seqno,
                     ovsrcu_threads>>
  BY Zenon DEF PushCbset, Order, Behind, exitVars, seqVars, syncVars, userVars
<1>10. Order' /\ todo' \in [Thread -> Seq(Steps)]
  BY Zenon, <1>2, <1>6, <1>7, <1>8, <1>9, Ordinary DEF Special, q
<1> QED
  BY Zenon, <1>1, <1>10
  DEF PushCbset, TypeOK, exitVars, seqVars, syncVars, userVars

(* The steps of ovsrcu_synchronize() and ovsrcu_barrier().                 *)
LEMMA ReadCurInv ==
  ASSUME TypeOK, Order, NEW t \in Thread, ReadCur(t)
  PROVE  TypeOK' /\ Order'
<1>1. cur' \in [Thread -> Nat]
  BY DEF ReadCur, TypeOK
<1>2. Order' /\ todo' \in [Thread -> Seq(Steps)]
  <2>1. At(t, "read_cur") /\ "read_cur" \notin Special
    BY DEF ReadCur, Special
  <2>2. Early(multithreaded, <<>>) /\ Then(t, <<>>)
    BY EarlyLists DEF ReadCur, TypeOK
  <2> QED
    BY Zenon, <2>1, <2>2, QuietThen
    DEF ReadCur, exitVars, seqVars, cbVars, userVars
<1> QED
  BY Zenon, <1>1, <1>2
  DEF ReadCur, TypeOK, exitVars, seqVars, cbVars, userVars

(* A callback is added to the set of the thread.                           *)
LEMMA PostponeType ==
  ASSUME TypeOK, NEW t \in Thread, NEW kind \in {"free", "again", "barrier"},
         NEW obj \in Obj \cup {NONE}, ovsrcu_postpone__(t, kind, obj)
  PROVE  cbset' \in [Thread -> Seq(Callback)] /\ posted' \in [Thread -> Nat]
<1> DEFINE cb == [thread |-> t, n |-> posted[t] + 1, kind |-> kind, obj |-> obj]
<1>1. posted \in [Thread -> Nat] /\ cbset \in [Thread -> Seq(Callback)]
  BY Zenon DEF TypeOK
<1>2. cb \in Callback
  BY <1>1 DEF Callback
<1>3. cbset' = [cbset EXCEPT ![t] = Append(@, cb)] /\ posted' = [posted EXCEPT ![t] = @ + 1]
  BY Zenon DEF ovsrcu_postpone__
<1> HIDE DEF cb
<1> QED
  BY <1>1, <1>2, <1>3

(* ovsrcu_barrier() postpones its own callback.                            *)
LEMMA BarrierPostInv ==
  ASSUME TypeOK, Order, NEW t \in Thread, BarrierPost(t)
  PROVE  TypeOK' /\ Order'
<1>1. cbset' \in [Thread -> Seq(Callback)] /\ posted' \in [Thread -> Nat]
  <2>1. ovsrcu_postpone__(t, "barrier", NONE)
    BY Zenon DEF BarrierPost
  <2> QED
    BY <2>1, PostponeType
<1>2. Order' /\ todo' \in [Thread -> Seq(Steps)]
  <2>1. At(t, "barrier_post") /\ "barrier_post" \notin Special
    BY DEF BarrierPost, Special
  <2>2. Early(multithreaded, <<>>) /\ Then(t, <<>>)
    BY EarlyLists DEF BarrierPost, TypeOK
  <2> QED
    BY Zenon, <2>1, <2>2, QuietThen
    DEF BarrierPost, exitVars, seqVars, syncVars, userVars
<1> QED
  BY Zenon, <1>1, <1>2
  DEF BarrierPost, TypeOK, exitVars, seqVars, syncVars, userVars

(* ovsrcu_barrier() sees whether its callback was called.                  *)
LEMMA BarrierPollInv ==
  ASSUME TypeOK, Order, NEW t \in Thread, BarrierPoll(t)
  PROVE  TypeOK' /\ Order'
<1>1. PICK steps : Late(steps) /\ ~Sync(multithreaded, "barrier_poll") /\ Then(t, steps)
  <2>1. ~Sync(multithreaded, "barrier_poll")
    BY DEF Sync, Waits, Quiescing
  <2>2. Late(<<"barrier_wait">>)
    BY DEF Late, Steps, Paired, Plain, Has, Waits, Frees
  <2>3. PICK steps \in {<<>>, <<"barrier_wait">>} : Then(t, Poll(t, steps))
    BY Zenon DEF BarrierPoll
  <2> QED
    BY Zenon, <2>1, <2>2, <2>3, LateLists, LatePoll
<1>2. Order' /\ todo' \in [Thread -> Seq(Steps)]
  <2>1. At(t, "barrier_poll") /\ "barrier_poll" \notin Special
    BY DEF BarrierPoll, Special
  <2> QED
    BY Zenon, <2>1, <1>1, QuietThen
    DEF BarrierPoll, exitVars, seqVars, cbVars, syncVars, userVars
<1> QED
  BY Zenon, <1>2
  DEF BarrierPoll, TypeOK, exitVars, seqVars, cbVars, syncVars, userVars

(* ovsrcu_barrier() sleeps until it is.                                    *)
LEMMA BarrierWaitInv ==
  ASSUME TypeOK, Order, NEW t \in Thread, BarrierWait(t)
  PROVE  TypeOK' /\ Order'
<1>1. Order' /\ todo' \in [Thread -> Seq(Steps)]
  <2>1. At(t, "barrier_wait") /\ "barrier_wait" \notin Special
    BY DEF BarrierWait, Special
  <2>2. Early(multithreaded, <<>>) /\ Then(t, <<>>)
    BY EarlyLists DEF BarrierWait, TypeOK
  <2> QED
    BY Zenon, <2>1, <2>2, QuietThen
    DEF BarrierWait, exitVars, seqVars, cbVars, syncVars, userVars
<1> QED
  BY Zenon, <1>1
  DEF BarrierWait, TypeOK, exitVars, seqVars, cbVars, syncVars, userVars

(* ovsrcu_barrier() is over.                                               *)
LEMMA BarrierCheckInv ==
  ASSUME TypeOK, Order, NEW t \in Thread, BarrierCheck(t)
  PROVE  TypeOK' /\ Order'
<1>1. fired' \in [Thread -> BOOLEAN] /\ owed' \in [Thread -> [Thread -> Nat]]
  BY Zenon DEF BarrierCheck, TypeOK
<1>2. Order' /\ todo' \in [Thread -> Seq(Steps)]
  <2>1. At(t, "barrier_check") /\ "barrier_check" \notin Special
    BY DEF BarrierCheck, Special
  <2>2. Early(multithreaded, <<>>) /\ Then(t, <<>>)
    BY EarlyLists DEF BarrierCheck, TypeOK
  <2> QED
    BY Zenon, <2>1, <2>2, QuietThen
    DEF BarrierCheck, exitVars, seqVars, syncVars, userVars
<1> QED
  BY Zenon, <1>1, <1>2
  DEF BarrierCheck, TypeOK, exitVars, seqVars, syncVars, userVars

(* The steps of ovsrcu_exit().                                             *)
LEMMA SetExitInv ==
  ASSUME TypeOK, Order, NEW t \in Thread, SetExit(t)
  PROVE  TypeOK' /\ Order'
<1>1. postpone_exit' \in BOOLEAN
  BY DEF SetExit
<1>2. Order' /\ todo' \in [Thread -> Seq(Steps)]
  <2>1. At(t, "set_exit") /\ "set_exit" \notin Special
    BY DEF SetExit, Special
  <2>2. Early(multithreaded, <<>>) /\ Then(t, <<>>)
    BY EarlyLists DEF SetExit, TypeOK
  <2> QED
    BY Zenon, <2>1, <2>2, QuietThen
    DEF SetExit, seqVars, cbVars, syncVars, userVars
<1> QED
  BY Zenon, <1>1, <1>2
  DEF SetExit, TypeOK, seqVars, cbVars, syncVars, userVars

(* A thread comes to the barrier of ovsrcu_exit().                         *)
LEMMA ArriveInv ==
  ASSUME TypeOK, Order, NEW t \in Thread, Arrive(t)
  PROVE  TypeOK' /\ Order'
<1>1. arrived' \in SUBSET Thread
  BY DEF Arrive, TypeOK
<1>2. PICK steps : Late(steps) /\ ~Sync(multithreaded, "arrive") /\ Then(t, steps)
  <2>1. ~Sync(multithreaded, "arrive")
    BY DEF Sync, Waits, Quiescing
  <2>2. Late(<<"gather">>)
    BY DEF Late, Steps, Paired, Plain, Has, Waits, Frees
  <2>3. PICK steps \in {<<>>, <<"gather">>} : Then(t, steps)
    BY Zenon DEF Arrive
  <2> QED
    BY Zenon, <2>1, <2>2, <2>3, LateLists
<1>3. Order' /\ todo' \in [Thread -> Seq(Steps)]
  <2>1. At(t, "arrive") /\ "arrive" \notin Special
    BY DEF Arrive, Special
  <2> QED
    BY Zenon, <2>1, <1>2, QuietThen
    DEF Arrive, seqVars, cbVars, syncVars, userVars
<1> QED
  BY Zenon, <1>1, <1>3
  DEF Arrive, TypeOK, seqVars, cbVars, syncVars, userVars

(* It waits there for the other one, ...                                   *)
LEMMA BlockInv ==
  ASSUME TypeOK, Order, NEW t \in Thread, Block(t)
  PROVE  TypeOK' /\ Order'
<1>1. PICK steps : Late(steps) /\ ~Sync(multithreaded, "gather") /\ Then(t, steps)
  <2>1. ~Sync(multithreaded, "gather")
    BY DEF Sync, Waits, Quiescing
  <2>2. Late(<<"gather">>)
    BY DEF Late, Steps, Paired, Plain, Has, Waits, Frees
  <2>3. PICK steps \in {<<>>, <<"gather">>} : Then(t, Poll(t, steps))
    BY Zenon DEF Block
  <2> QED
    BY Zenon, <2>1, <2>2, <2>3, LateLists, LatePoll
<1>2. Order' /\ todo' \in [Thread -> Seq(Steps)]
  <2>1. At(t, "gather") /\ "gather" \notin Special
    BY DEF Block, Special
  <2> QED
    BY Zenon, <2>1, <1>1, QuietThen
    DEF Block, exitVars, seqVars, cbVars, syncVars, userVars
<1> QED
  BY Zenon, <1>2
  DEF Block, TypeOK, exitVars, seqVars, cbVars, syncVars, userVars

(* ... and goes on once both have come.                                    *)
LEMMA GatherInv ==
  ASSUME TypeOK, Order, NEW t \in Thread, Gather(t)
  PROVE  TypeOK' /\ Order'
<1>1. Order' /\ todo' \in [Thread -> Seq(Steps)]
  <2>1. At(t, "gather") /\ "gather" \notin Special
    BY DEF Gather, Special
  <2>2. Early(multithreaded, <<>>) /\ Then(t, <<>>)
    BY EarlyLists DEF Gather, TypeOK
  <2> QED
    BY Zenon, <2>1, <2>2, QuietThen
    DEF Gather, exitVars, seqVars, cbVars, syncVars, userVars
<1> QED
  BY Zenon, <1>1
  DEF Gather, TypeOK, exitVars, seqVars, cbVars, syncVars, userVars

(* The steps of ovsrcu_postpone_thread().                                  *)
LEMMA LoopInv ==
  ASSUME TypeOK, Order, Loop
  PROVE  TypeOK' /\ Order'
<1>1. Urcu \in Thread
  BY Zenon DEF Thread
<1>2. PICK steps : Late(steps) /\ ~Sync(multithreaded, "loop") /\ Then(Urcu, steps)
  <2>1. ~Sync(multithreaded, "loop")
    BY DEF Sync, Waits, Quiescing
  <2>2. /\ Late(<<"arrive">>) /\ Late(<<"gone">>)
        /\ Late(<<"read_flushed", "pop_all", "loop">>)
    BY DEF Late, Steps, Paired, Plain, Has, Waits, Frees
  <2>3. Late((<<"arrive">> \o ovsrcu_unregister__) \o <<"gone">>)
    BY Zenon, <2>2, LateLists, LateConcat
  <2> QED
    BY <2>1, <2>2, <2>3 DEF Loop
<1>3. Order' /\ todo' \in [Thread -> Seq(Steps)]
  <2>1. At(Urcu, "loop") /\ "loop" \notin Special
    BY DEF Loop, Special
  <2> QED
    BY Zenon, <1>1, <2>1, <1>2, QuietThen
    DEF Loop, exitVars, seqVars, cbVars, syncVars, userVars
<1> QED
  BY Zenon, <1>3
  DEF Loop, TypeOK, exitVars, seqVars, cbVars, syncVars, userVars

(* The thread that calls callbacks reads the number of flushes.            *)
LEMMA ReadFlushedInv ==
  ASSUME TypeOK, Order, ReadFlushed
  PROVE  TypeOK' /\ Order'
<1>1. Urcu \in Thread
  BY Zenon DEF Thread
<1>2. cur' \in [Thread -> Nat]
  BY Zenon DEF ReadFlushed, TypeOK
<1>3. Order' /\ todo' \in [Thread -> Seq(Steps)]
  <2>1. At(Urcu, "read_flushed") /\ "read_flushed" \notin Special
    BY DEF ReadFlushed, Special
  <2>2. Early(multithreaded, <<>>) /\ Then(Urcu, <<>>)
    BY EarlyLists DEF ReadFlushed, TypeOK
  <2> QED
    BY Zenon, <1>1, <2>1, <2>2, QuietThen
    DEF ReadFlushed, exitVars, seqVars, cbVars, userVars
<1> QED
  BY Zenon, <1>2, <1>3
  DEF ReadFlushed, TypeOK, exitVars, seqVars, cbVars, userVars

(* It sees whether there was one since.                                    *)
LEMMA PollFlushedInv ==
  ASSUME TypeOK, Order, PollFlushed
  PROVE  TypeOK' /\ Order'
<1>1. Urcu \in Thread
  BY Zenon DEF Thread
<1>2. PICK steps : Late(steps) /\ ~Sync(multithreaded, "poll_flushed") /\ Then(Urcu, steps)
  <2>1. ~Sync(multithreaded, "poll_flushed")
    BY DEF Sync, Waits, Quiescing
  <2>2. Late(<<"wait_flushed">>)
    BY DEF Late, Steps, Paired, Plain, Has, Waits, Frees
  <2>3. PICK steps \in {<<>>, <<"wait_flushed">>} : Then(Urcu, Poll(Urcu, steps))
    BY Zenon DEF PollFlushed
  <2> QED
    BY Zenon, <1>1, <2>1, <2>2, <2>3, LateLists, LatePoll
<1>3. Order' /\ todo' \in [Thread -> Seq(Steps)]
  <2>1. At(Urcu, "poll_flushed") /\ "poll_flushed" \notin Special
    BY DEF PollFlushed, Special
  <2> QED
    BY Zenon, <1>1, <2>1, <1>2, QuietThen
    DEF PollFlushed, exitVars, seqVars, cbVars, syncVars, userVars
<1> QED
  BY Zenon, <1>3
  DEF PollFlushed, TypeOK, exitVars, seqVars, cbVars, syncVars, userVars

(* It sleeps until there is.                                               *)
LEMMA WaitFlushedInv ==
  ASSUME TypeOK, Order, WaitFlushed
  PROVE  TypeOK' /\ Order'
<1>1. Urcu \in Thread
  BY Zenon DEF Thread
<1>2. cur' \in [Thread -> Nat]
  BY Zenon DEF WaitFlushed, TypeOK
<1>3. Order' /\ todo' \in [Thread -> Seq(Steps)]
  <2>1. At(Urcu, "wait_flushed") /\ "wait_flushed" \notin Special
    BY DEF WaitFlushed, Special
  <2>2. Early(multithreaded, <<>>) /\ Then(Urcu, <<>>)
    BY EarlyLists DEF WaitFlushed, TypeOK
  <2> QED
    BY Zenon, <1>1, <2>1, <2>2, QuietThen
    DEF WaitFlushed, exitVars, seqVars, cbVars, userVars
<1> QED
  BY Zenon, <1>2, <1>3
  DEF WaitFlushed, TypeOK, exitVars, seqVars, cbVars, userVars

(* ovsrcu_synchronize() sets the number that the others have to pass.      *)
LEMMA ReadTargetInv ==
  ASSUME TypeOK, Order, NEW t \in Thread, ReadTarget(t)
  PROVE  TypeOK' /\ Order'
<1>1. target' \in [Thread -> Nat] /\ target'[t] = global_seqno
  BY DEF ReadTarget, TypeOK
<1>2. \A u \in Thread \ {t} : target'[u] = target[u]
  BY DEF ReadTarget, TypeOK
<1>3. At(t, "read_target") /\ Then(t, <<>>) /\ "read_target" \in Waits
  BY DEF ReadTarget, Waits
<1>4. Early(multithreaded, <<>>)
  BY EarlyLists DEF TypeOK
<1>5. ASSUME NEW u \in Thread, ref[u] \in Doomed(t)
      PROVE  /\ seqno[u] <= target'[t]
             /\ \E x \in {"scan", "wait_global"} : Has(Tail(todo[t]), x) \/ Has(<<>>, x)
  <2>1. \E x \in {"scan", "wait_global"} : x = "read_target" \/ Has(Tail(todo[t]), x)
    BY Zenon, <1>3, <1>5, Awaits
  <2>2. seqno[u] <= target'[t]
    BY Zenon, <1>1 DEF Order, Behind
  <2> QED
    BY <2>1, <2>2
<1>6. Order' /\ todo' \in [Thread -> Seq(Steps)]
  <2>1. UNCHANGED <<multithreaded, created, batch, mine, ref, seqno, global_seqno,
                    ovsrcu_threads>>
    BY Zenon DEF ReadTarget, exitVars, seqVars, cbVars, userVars
  <2> QED
    BY Zenon, <1>1, <1>2, <1>3, <1>4, <1>5, <2>1, Wait
<1> QED
  BY Zenon, <1>1, <1>6 DEF ReadTarget, TypeOK, exitVars, seqVars, cbVars, userVars

(* When the wait is over nobody uses what t frees.                         *)
LEMMA ScanInv ==
  ASSUME TypeOK, Order, NEW t \in Thread, Scan(t)
  PROVE  TypeOK' /\ Order'
<1>1. target' \in [Thread -> Nat] /\ cur' \in [Thread -> Nat]
  BY Zenon DEF Scan, TypeOK
<1>2. \A u \in Thread \ {t} : target'[u] = target[u]
  BY DEF Scan, TypeOK
<1>3. At(t, "scan") /\ "scan" \in Waits
  BY DEF Scan, Waits
<1>4. multithreaded
  BY Zenon, <1>3, Awaits
<1>5. CASE Quiescent(t)
  <2>1. Then(t, ovsrcu_perthread_get) /\ Early(multithreaded, ovsrcu_perthread_get)
    BY Zenon, <1>5, EarlyLists DEF Scan, ovsrcu_quiesce_end, TypeOK
  <2>2. ASSUME NEW u \in Thread PROVE ref[u] \notin Doomed(t)
    <3> SUFFICES ASSUME ref[u] \in Doomed(t) PROVE FALSE
      OBVIOUS
    <3>1. ref[u] # NONE
      BY Zenon DEF Doomed
    <3>2. u \in ovsrcu_threads
      BY Zenon, <3>1 DEF Order, Users
    <3>3. "scan" # "read_target"
      OBVIOUS
    <3>4. seqno[u] <= target[t]
      BY Zenon, <1>3, <3>3, Awaits
    <3>5. seqno[u] > target[t]
      BY Zenon, <1>5, <3>2 DEF Quiescent
    <3>6. seqno[u] \in Nat /\ target[t] \in Nat
      BY DEF TypeOK
    <3> QED
      BY <3>4, <3>5, <3>6
  <2> QED
    BY Zenon, <1>1, <1>2, <1>3, <2>1, <2>2, Wait
    DEF Scan, TypeOK, exitVars, seqVars, cbVars, userVars
<1>6. CASE ~Quiescent(t)
  <2>1. Then(t, <<"wait_global">>) /\ target' = target
    BY <1>6 DEF Scan
  <2>2. Early(multithreaded, <<"wait_global">>)
    BY <1>4 DEF Early, Steps, Paired, Alone, Sync, Waits
  <2>3. Has(<<"wait_global">>, "wait_global") /\ "scan" # "read_target"
    BY DEF Has
  <2> QED
    BY ZenonT(30), <1>1, <1>2, <1>3, <2>1, <2>2, <2>3, Wait, Awaits
    DEF Scan, TypeOK, exitVars, seqVars, cbVars, userVars
<1> QED
  BY <1>5, <1>6

(* ovsrcu_synchronize() sleeps until the global number changes.            *)
LEMMA WaitGlobalInv ==
  ASSUME TypeOK, Order, NEW t \in Thread, WaitGlobal(t) \/ Timer(t)
  PROVE  TypeOK' /\ Order'
<1>1. At(t, "wait_global") /\ "wait_global" \in Waits /\ Then(t, <<"read_cur", "scan">>)
  BY DEF WaitGlobal, Timer, Waits
<1>2. multithreaded
  BY Zenon, <1>1, Awaits
<1>3. Early(multithreaded, <<"read_cur", "scan">>)
  BY <1>2 DEF Early, Steps, Paired, Alone, Sync, Waits
<1>4. Has(<<"read_cur", "scan">>, "scan") /\ "wait_global" # "read_target"
  BY DEF Has
<1>5. target \in [Thread -> Nat]
  BY Zenon DEF TypeOK
<1>6. UNCHANGED <<exitVars, seqVars, ovsrcu_threads, seqno, cbVars, syncVars, userVars>>
  BY Zenon DEF WaitGlobal, Timer
<1>7. Order' /\ todo' \in [Thread -> Seq(Steps)]
  BY Zenon, <1>1, <1>3, <1>4, <1>5, <1>6, Wait, Awaits
  DEF exitVars, seqVars, cbVars, syncVars, userVars
<1> QED
  BY Zenon, <1>6, <1>7 DEF TypeOK, exitVars, seqVars, cbVars, syncVars, userVars

(* The callback is called that comes first.                                *)
LEMMA CallInv ==
  ASSUME TypeOK, Order, NEW t \in Thread, Call(t)
  PROVE  TypeOK' /\ Order' /\ Doomed(t)' \subseteq Doomed(t)
<1> DEFINE cb == Head(batch[t])
<1>1. /\ batch \in [Thread -> Seq(Callback)] /\ batch[t] # <<>>
      /\ batch' = [batch EXCEPT ![t] = Tail(@)]
      /\ cb.kind = "again" => ovsrcu_postpone__(t, "free", cb.obj)
      /\ cb.kind # "again" => UNCHANGED <<cbset, posted>>
      /\ cb.kind = "barrier" => fired' = [fired EXCEPT ![cb.thread] = TRUE]
      /\ cb.kind # "barrier" => UNCHANGED fired
      /\ called' = [called EXCEPT ![cb.thread] = @ + 1]
  BY Zenon DEF Call, TypeOK
<1>2. /\ cb \in Callback /\ batch' \in [Thread -> Seq(Callback)]
      /\ batch'[t] = Tail(batch[t])
      /\ \A u \in Thread \ {t} : batch'[u] = batch[u]
  BY <1>1
<1>3. cb.obj \in Obj \cup {NONE} /\ cb.thread \in Thread
  BY <1>2 DEF Callback
<1> HIDE DEF cb
<1>4. cbset' \in [Thread -> Seq(Callback)] /\ posted' \in [Thread -> Nat]
  <2>1. CASE cb.kind = "again"
    <3>1. "free" \in {"free", "again", "barrier"}
      OBVIOUS
    <3> QED
      BY Zenon, <1>1, <1>3, <2>1, <3>1, PostponeType
  <2>2. CASE cb.kind # "again"
    BY Zenon, <1>1, <2>2 DEF TypeOK
  <2> QED
    BY <2>1, <2>2
<1>5. called' \in [Thread -> Nat] /\ fired' \in [Thread -> BOOLEAN]
  <2>1. called \in [Thread -> Nat] /\ fired \in [Thread -> BOOLEAN]
    BY Zenon DEF TypeOK
  <2>2. called' = [called EXCEPT ![cb.thread] = @ + 1]
    BY Zenon, <1>1
  <2>3. called' \in [Thread -> Nat]
    BY <1>3, <2>1, <2>2
  <2>4. fired' \in [Thread -> BOOLEAN]
    BY Zenon, <1>1, <2>1
  <2> QED
    BY <2>3, <2>4
<1>6. Doomed(t)' \subseteq Doomed(t)
  <2>1. Objs(Tail(batch[t])) \subseteq Objs(batch[t])
    BY <1>1, TailList DEF Objs
  <2>2. mine' = mine
    BY Zenon DEF Call, userVars
  <2> QED
    BY Zenon, <1>2, <2>1, <2>2 DEF Doomed, Objs
<1>7. At(t, "call") /\ "call" \in Frees
  BY DEF Call, Frees
<1>8. Order'
  <2>1. /\ todo' = [todo EXCEPT ![t] = todo[t]] /\ Good(multithreaded, t, todo[t])
        /\ mine' = mine
    BY DEF Call, TypeOK, userVars, Order, Lists
  <2>2. Has(todo[t], "call")
    BY Zenon, <1>1 DEF Order, Holders
  <2>3. mine[t] # NONE => Has(todo[t], "delete")
    BY Zenon DEF Order, Holders
  <2>4. UNCHANGED <<multithreaded, created, ref, seqno, global_seqno, target,
                    ovsrcu_threads>>
    BY Zenon DEF Call, exitVars, seqVars, syncVars, userVars
  <2> QED
    BY ZenonT(30), <1>2, <1>6, <1>7, <2>1, <2>2, <2>3, <2>4, Freed
<1> QED
  BY Zenon, <1>2, <1>4, <1>5, <1>6, <1>8
  DEF Call, TypeOK, exitVars, seqVars, syncVars, userVars

(* A callback that runs a program of its own.                              *)
LEMMA CallEnterInv ==
  ASSUME TypeOK, Order, NEW t \in Thread, CallEnter(t)
  PROVE  TypeOK' /\ Order'
<1>1. At(t, "call") /\ "call" \in Frees
  BY DEF CallEnter, Frees
<1>2. /\ multithreaded \in BOOLEAN /\ Good(multithreaded, t, todo[t])
      /\ Early(multithreaded, ovsrcu_perthread_get)
  BY EarlyLists DEF TypeOK, Order, Lists
<1> DEFINE new == ovsrcu_perthread_get \o todo[t]
<1>3. Good(multithreaded, t, new) /\ \A x : Has(todo[t], x) => Has(new, x)
  BY <1>2, GoodConcat
<1>4. todo' = [todo EXCEPT ![t] = new]
  BY Zenon DEF CallEnter
<1> HIDE DEF new
<1>5. UNCHANGED <<exitVars, seqVars, ovsrcu_threads, seqno, cbVars, syncVars, userVars>>
  BY Zenon DEF CallEnter
<1>6. Doomed(t)' \subseteq Doomed(t)
  BY Zenon, <1>5 DEF Doomed, cbVars, userVars
<1>7. Order' /\ todo' \in [Thread -> Seq(Steps)]
  BY Zenon, <1>1, <1>3, <1>4, <1>5, <1>6, Freed
  DEF Order, Holders, exitVars, seqVars, cbVars, syncVars, userVars
<1> QED
  BY Zenon, <1>5, <1>7 DEF TypeOK, exitVars, seqVars, cbVars, syncVars, userVars

(* It returns.                                                             *)
LEMMA CallDoneInv ==
  ASSUME TypeOK, Order, NEW t \in Thread, CallDone(t)
  PROVE  TypeOK' /\ Order'
<1>1. At(t, "call") /\ "call" \in Frees /\ "call" # "delete" /\ batch[t] = <<>>
  BY DEF CallDone, Frees
<1>2. /\ multithreaded \in BOOLEAN /\ Early(multithreaded, <<>>) /\ todo[t] # <<>>
      /\ Head(todo[t]) = "call" /\ Good(multithreaded, t, todo[t])
  BY Zenon, <1>1, EarlyLists DEF At, TypeOK, Order, Lists
<1> DEFINE new == <<>> \o Tail(todo[t])
<1>3. Good(multithreaded, t, new) /\ \A x : Has(Tail(todo[t]), x) => Has(new, x)
  BY Zenon, <1>2, StepList
<1>4. todo' = [todo EXCEPT ![t] = new]
  BY Zenon DEF CallDone, Then
<1>5. \A x : Has(todo[t], x) /\ x # Head(todo[t]) => Has(Tail(todo[t]), x)
  BY Zenon, <1>2, GoodTail
<1> HIDE DEF new
<1>6. UNCHANGED <<exitVars, seqVars, ovsrcu_threads, seqno, cbVars, syncVars, userVars>>
  BY Zenon DEF CallDone
<1>7. Doomed(t)' \subseteq Doomed(t)
  BY Zenon, <1>6 DEF Doomed, cbVars, userVars
<1>8. batch'[t] = <<>> /\ (mine'[t] # NONE => Has(new, "delete"))
  BY Zenon, <1>1, <1>2, <1>3, <1>5, <1>6 DEF Order, Holders, cbVars, userVars
<1>9. Order' /\ todo' \in [Thread -> Seq(Steps)]
  BY Zenon, <1>1, <1>3, <1>4, <1>6, <1>7, <1>8, Freed
  DEF exitVars, seqVars, cbVars, syncVars, userVars
<1> QED
  BY Zenon, <1>6, <1>9 DEF TypeOK, exitVars, seqVars, cbVars, syncVars, userVars

(* free() after ovsrcu_synchronize().                                      *)
LEMMA DeletedInv ==
  ASSUME TypeOK, Order, NEW t \in Thread, Deleted(t)
  PROVE  TypeOK' /\ Order' /\ Doomed(t)' \subseteq Doomed(t)
<1>1. At(t, "delete") /\ "delete" \in Frees /\ "call" # "delete"
  BY DEF Deleted, Frees
<1>2. /\ multithreaded \in BOOLEAN /\ Early(multithreaded, <<>>) /\ todo[t] # <<>>
      /\ Head(todo[t]) = "delete" /\ Good(multithreaded, t, todo[t])
  BY Zenon, <1>1, EarlyLists DEF At, TypeOK, Order, Lists
<1> DEFINE new == <<>> \o Tail(todo[t])
<1>3. Good(multithreaded, t, new) /\ \A x : Has(Tail(todo[t]), x) => Has(new, x)
  BY Zenon, <1>2, StepList
<1>4. todo' = [todo EXCEPT ![t] = new]
  BY Zenon DEF Deleted, Then
<1>5. \A x : Has(todo[t], x) /\ x # Head(todo[t]) => Has(Tail(todo[t]), x)
  BY <1>2, GoodTail
<1> HIDE DEF new
<1>6. /\ mine' \in [Thread -> Obj \cup {NONE}] /\ mine'[t] = NONE
      /\ \A u \in Thread \ {t} : mine'[u] = mine[u]
  BY DEF Deleted, TypeOK
<1>7. UNCHANGED <<exitVars, seqVars, ovsrcu_threads, seqno, cbVars, syncVars, ptr, ref,
                  calls>>
  BY ZenonT(30) DEF Deleted
<1>8. Doomed(t)' \subseteq Doomed(t)
  BY <1>6, <1>7 DEF Doomed, cbVars
<1>9. batch'[t] # <<>> => Has(new, "call")
  BY Zenon, <1>1, <1>2, <1>3, <1>5, <1>7 DEF Order, Holders, cbVars
<1>10. Order' /\ todo' \in [Thread -> Seq(Steps)]
  BY Zenon, <1>1, <1>3, <1>4, <1>6, <1>7, <1>8, <1>9, Freed
  DEF exitVars, seqVars, cbVars, syncVars
<1> QED
  BY Zenon, <1>6, <1>7, <1>8, <1>10 DEF TypeOK, exitVars, seqVars, cbVars, syncVars

(* The callbacks are popped: t waits before it calls them.                 *)
LEMMA PopAllInv ==
  ASSUME TypeOK, Order, NEW t \in Thread, PopAll(t)
  PROVE  TypeOK' /\ Order' /\ batch[t] = <<>>
<1>1. /\ batch' \in [Thread -> Seq(Callback)] /\ flushed_cbsets' \in Seq(Callback)
      /\ batch'[t] = flushed_cbsets /\ \A u \in Thread \ {t} : batch'[u] = batch[u]
  <2>1. /\ batch \in [Thread -> Seq(Callback)] /\ flushed_cbsets \in Seq(Callback)
        /\ batch' = [batch EXCEPT ![t] = flushed_cbsets] /\ flushed_cbsets' = <<>>
    BY ZenonT(30) DEF PopAll, TypeOK
  <2> QED
    BY <2>1
<1>2. /\ Good(multithreaded, t, Tail(todo[t])) /\ Plain(Tail(todo[t]))
      /\ batch[t] = <<>> /\ mine[t] = NONE /\ ref[t] = NONE
      /\ todo[t] # <<"unborn">> /\ todo[t] # <<>>
  <2>1. /\ "pop_all" \notin Frees /\ "pop_all" # "unborn" /\ "pop_all" # "create"
        /\ ~Sync(multithreaded, "pop_all")
    BY DEF Frees, Sync, Waits, Quiescing
  <2>2. At(t, "pop_all")
    BY Zenon DEF PopAll
  <2> QED
    BY Zenon, <2>1, <2>2, NothingToFree
<1>3. /\ multithreaded \in BOOLEAN /\ todo \in [Thread -> Seq(Steps)]
      /\ flushed_cbsets \in Seq(Callback)
  BY Zenon DEF TypeOK
<1>4. /\ UNCHANGED <<exitVars, seqVars, ovsrcu_threads, seqno, cbset, posted, called,
                     fired, owed, syncVars, userVars>>
      /\ Behind'
  BY Zenon DEF PopAll, Order, Behind, seqVars
<1>5. KeepsRef(t)
  BY Zenon, <1>2, <1>4 DEF KeepsRef, userVars
<1>6. mine'[t] = NONE
  BY Zenon, <1>2, <1>4 DEF userVars
<1>7. CASE flushed_cbsets # <<>>
  <2> DEFINE q == <<"call">> \o Tail(todo[t])
             new == ovsrcu_synchronize(t) \o q
  <2>1. Good(multithreaded, t, q) /\ Has(q, "call")
    <3>1. "call" \in Frees
      BY DEF Frees
    <3> QED
      BY <1>2, <1>3, <3>1, GoodFree
  <2>2. /\ ovsrcu_synchronize(t) \in Seq(Steps) /\ Good(multithreaded, t, new)
        /\ Has(new, "call")
        /\ multithreaded => Has(new, "scan") /\ new # <<>> /\ Head(new) = "read_target"
    BY Zenon, <1>3, <2>1, SynchronizesFirst
  <2>3. todo' = [todo EXCEPT ![t] = new]
    <3>1. <<"call">> \in Seq(Steps)
      BY DEF Steps
    <3>2. Tail(todo[t]) \in Seq(Steps)
      BY Zenon, <1>2 DEF Good
    <3>3. (ovsrcu_synchronize(t) \o <<"call">>) \o Tail(todo[t]) = new
      BY Zenon, <2>2, <3>1, <3>2, ConcatAssociates
    <3>4. todo' = [todo EXCEPT ![t] =
                     (ovsrcu_synchronize(t) \o <<"call">>) \o Tail(todo[t])]
      BY Zenon, <1>7 DEF PopAll
    <3> QED
      BY Zenon, <3>3, <3>4
  <2> HIDE DEF new, q
  <2>4. todo'[t] = new
    BY <1>3, <2>3
  <2>5. ASSUME NEW u \in Thread, ref'[u] \in Doomed(t)' PROVE WaitsFor(t, u)'
    <3>1. ref[u] # NONE
      BY Zenon, <1>4, <2>5 DEF Doomed, userVars
    <3>2. multithreaded
      BY Zenon, <1>2, <3>1, OtherUser
    <3> QED
      BY Zenon, <2>2, <2>4, <3>2 DEF WaitsFor, Has
  <2>6. KeepsOrder(t)
    BY Zenon, <1>6, <2>2, <2>4, <2>5 DEF KeepsOrder
  <2>7. Order' /\ todo' \in [Thread -> Seq(Steps)]
    BY Zenon, <1>1, <1>2, <1>4, <1>5, <2>2, <2>3, <2>6, Move
    DEF exitVars, syncVars, userVars
  <2> QED
    BY ZenonT(30), <1>1, <1>2, <1>4, <2>7 DEF TypeOK, exitVars, seqVars, syncVars, userVars
<1>8. CASE flushed_cbsets = <<>>
  <2> DEFINE rest == Tail(todo[t])
             over == IF rest # <<>> /\ Head(rest) = "exit_round" THEN Tail(rest) ELSE rest
  <2>1. PICK new \in {<<"poll_flushed">> \o rest, over} : todo' = [todo EXCEPT ![t] = new]
    BY Zenon, <1>8 DEF PopAll
  <2>2. Good(multithreaded, t, new)
    <3>1. Good(multithreaded, t, over)
      BY Zenon, <1>2, <1>3, GoodTail
    <3>2. Late(<<"poll_flushed">>)
      BY DEF Late, Steps, Paired, Plain, Has, Waits, Frees
    <3>3. Good(multithreaded, t, <<"poll_flushed">> \o rest)
      BY <1>2, <1>3, <3>2, GoodConcat
    <3> QED
      BY Zenon, <2>1, <3>1, <3>3
  <2> HIDE DEF over
  <2>3. Doomed(t)' = {}
    BY <1>1, <1>6, <1>8 DEF Doomed, Objs
  <2>4. KeepsOrder(t)
    BY Zenon, <1>1, <1>6, <1>8, <2>3 DEF KeepsOrder
  <2>5. Order' /\ todo' \in [Thread -> Seq(Steps)]
    BY Zenon, <1>1, <1>2, <1>4, <1>5, <2>1, <2>2, <2>4, Move
    DEF exitVars, syncVars, userVars
  <2> QED
    BY Zenon, <1>1, <1>2, <1>4, <2>5 DEF TypeOK, exitVars, seqVars, syncVars, userVars
<1> QED
  BY <1>7, <1>8

(* The rounds of ovsrcu_exit().                                            *)
LEMMA ExitRoundInv ==
  ASSUME TypeOK, Order, NEW t \in Thread, ExitRound(t)
  PROVE  TypeOK' /\ Order'
<1>1. rounds' \in Nat
  BY DEF ExitRound, TypeOK
<1>2. At(t, "exit_round") /\ "exit_round" \notin Special
  BY DEF ExitRound, Special
<1>3. multithreaded \in BOOLEAN /\ todo \in [Thread -> Seq(Steps)]
  BY Zenon DEF TypeOK
<1>4. /\ Good(multithreaded, t, Tail(todo[t])) /\ Plain(Tail(todo[t]))
      /\ todo[t] # <<>>
  <2>1. /\ "exit_round" \notin Frees /\ "exit_round" # "unborn" /\ "exit_round" # "create"
        /\ ~Sync(multithreaded, "exit_round")
    BY DEF Frees, Sync, Waits, Quiescing
  <2> QED
    BY <1>2, <2>1, NothingToFree
<1>5. PICK new : /\ todo' = [todo EXCEPT ![t] = new] /\ Good(multithreaded, t, new)
                 /\ \A x : Has(Tail(todo[t]), x) => Has(new, x)
  <2>1. CASE rounds < 8
    <3> DEFINE p == <<"pop_all", "exit_round">>
               q == p \o Tail(todo[t])
    <3>1. Late(p)
      BY DEF Late, Steps, Paired, Plain, Has, Waits, Frees
    <3>2. p \in Seq(Steps) /\ Tail(todo[t]) \in Seq(Steps)
      BY Zenon, <1>4, <3>1 DEF Late, Good
    <3>3. todo' = [todo EXCEPT ![t] = (ovsrcu_synchronize(t) \o p) \o Tail(todo[t])]
      BY Zenon, <2>1 DEF ExitRound, Then
    <3> HIDE DEF p
    <3>4. Good(multithreaded, t, q) /\ \A x : Has(Tail(todo[t]), x) => Has(q, x)
      BY <1>3, <1>4, <3>1, GoodConcat
    <3>5. /\ ovsrcu_synchronize(t) \in Seq(Steps)
          /\ Good(multithreaded, t, ovsrcu_synchronize(t) \o q)
          /\ \A x : Has(q, x) => Has(ovsrcu_synchronize(t) \o q, x)
      BY <1>3, <3>4, SynchronizesFirst
    <3>6. (ovsrcu_synchronize(t) \o p) \o Tail(todo[t]) = ovsrcu_synchronize(t) \o q
      BY Zenon, <3>2, <3>5, ConcatAssociates
    <3> QED
      BY Zenon, <3>3, <3>4, <3>5, <3>6
  <2>2. CASE ~(rounds < 8)
    <3>1. todo' = [todo EXCEPT ![t] = <<>> \o Tail(todo[t])]
      BY Zenon, <2>2 DEF ExitRound, Then
    <3>2. Early(multithreaded, <<>>)
      BY <1>3, EarlyLists
    <3> QED
      BY Zenon, <1>4, <3>1, <3>2, StepList
  <2> QED
    BY <2>1, <2>2
<1>6. /\ Behind'
      /\ UNCHANGED <<multithreaded, created, batch, mine, ref, target, seqno,
                     ovsrcu_threads>>
  BY Zenon DEF ExitRound, Order, Behind, seqVars, cbVars, syncVars, userVars
<1>7. Order' /\ todo' \in [Thread -> Seq(Steps)]
  BY Zenon, <1>2, <1>4, <1>5, <1>6, Ordinary DEF At, Special
<1> QED
  BY Zenon, <1>1, <1>7
  DEF ExitRound, TypeOK, seqVars, cbVars, syncVars, userVars

(* The thread that calls the callbacks is created.                         *)
LEMMA QuiescedInv ==
  ASSUME TypeOK, Order, NEW t \in Thread, Quiesced(t)
  PROVE  TypeOK' /\ Order'
<1> DEFINE rest == IF multithreaded THEN Tail(todo[t]) ELSE <<"pop_all">> \o Tail(todo[t])
           born == created' /\ ~created
<1>1. /\ multithreaded \in BOOLEAN /\ created \in BOOLEAN /\ Urcu \in Thread
      /\ todo \in [Thread -> Seq(Steps)] /\ Good(multithreaded, t, todo[t])
      /\ created' = multithreaded /\ multithreaded' = multithreaded
      /\ At(t, "quiesced") /\ todo[t] # <<>> /\ Head(todo[t]) = "quiesced"
      /\ (created => multithreaded) /\ (~created => todo[Urcu] = <<"unborn">>)
  BY Zenon DEF Quiesced, At, TypeOK, Order, Lists, Unborn, Thread
<1>2. "quiesced" \notin Special /\ "quiesced" # "unborn" /\ todo[t] # <<"unborn">>
  BY <1>1 DEF Special
<1>3. /\ Good(multithreaded, t, rest)
      /\ \A x : Has(Tail(todo[t]), x) => Has(rest, x)
  <2>1. Good(multithreaded, t, Tail(todo[t]))
    BY <1>1, GoodTail
  <2>2. CASE multithreaded
    BY Zenon, <2>1, <2>2
  <2>3. CASE ~multithreaded
    <3>1. ~Sync(multithreaded, "quiesced")
      BY <2>3 DEF Sync, Waits, Quiescing
    <3>2. Late(<<"pop_all">>)
      BY DEF Late, Steps, Paired, Plain, Has, Waits, Frees
    <3>3. rest = <<"pop_all">> \o Tail(todo[t])
      BY <2>3
    <3> HIDE DEF rest
    <3> QED
      BY <1>1, <3>1, <3>2, <3>3, StepList
  <2> QED
    BY <2>2, <2>3
<1>4. /\ UNCHANGED <<multithreaded, postpone_exit, arrived, rounds, seqVars,
                     ovsrcu_threads, seqno, cbVars, syncVars, userVars>>
      /\ Behind'
  BY Zenon DEF Quiesced, Order, Behind, seqVars
<1>5. todo' = [todo EXCEPT
                 ![t] = rest,
                 ![Urcu] = IF born THEN ovsrcu_quiesce_end \o <<"loop">> ELSE @]
  BY Zenon DEF Quiesced
<1> HIDE DEF rest
<1>6. CASE ~born
  <2>1. created' = created
    BY <1>1, <1>6
  <2>2. todo' = [todo EXCEPT ![t] = rest]
    <3>1. todo' = [todo EXCEPT ![t] = rest, ![Urcu] = @]
      BY Zenon, <1>5, <1>6
    <3>2. \A u \in Thread : todo'[u] = [todo EXCEPT ![t] = rest][u]
      BY <1>1, <3>1
    <3> QED
      BY Zenon, <1>1, <3>1, <3>2
  <2>3. Order' /\ todo' \in [Thread -> Seq(Steps)]
    BY Zenon, <1>1, <1>2, <1>3, <1>4, <2>1, <2>2, Ordinary
    DEF Special, cbVars, syncVars, userVars
  <2> QED
    BY Zenon, <1>4, <2>1, <2>3 DEF TypeOK, seqVars, cbVars, syncVars, userVars
<1>7. CASE born
  <2> DEFINE start == ovsrcu_quiesce_end \o <<"loop">>
  <2>1. created' /\ ~created /\ multithreaded /\ Urcu # t
    BY Zenon, <1>1, <1>2, <1>7
  <2>2. Late(start)
    <3>1. Late(<<"loop">>)
      BY DEF Late, Steps, Paired, Plain, Has, Waits, Frees
    <3> QED
      BY <3>1, LateLists, LateConcat DEF ovsrcu_quiesce_end
  <2>3. Good(TRUE, Urcu, start)
    BY Zenon, <2>2 DEF Late, Good, Ordered, Plain, Alone, Creates, Has
  <2>4. todo' = [todo EXCEPT ![t] = rest, ![Urcu] = start]
    BY Zenon, <1>5, <1>7
  <2> HIDE DEF start
  <2>5. /\ todo'[t] = rest /\ todo'[Urcu] = start
        /\ \A u \in Thread \ {t, Urcu} : todo'[u] = todo[u]
    BY <1>1, <2>1, <2>4
  <2>6. todo' \in [Thread -> Seq(Steps)]
    <3>1. rest \in Seq(Steps) /\ start \in Seq(Steps)
      BY Zenon, <1>3, <2>3 DEF Good
    <3> QED
      BY Zenon, <1>1, <2>4, <3>1
  <2>7. Keeps(t)
    <3>1. \A u \in Thread \ {t} : todo'[u] = todo[u] \/ todo[u] = <<"unborn">>
      BY Zenon, <1>1, <2>1, <2>5
    <3> QED
      BY Zenon, <1>4, <3>1 DEF Keeps, cbVars, syncVars, userVars
  <2>8. ref[t] = NONE
    <3>1. todo[t] \notin {<<>>, <<"create">>}
      BY <1>1
    <3> QED
      BY Zenon, <3>1 DEF Order, Users
  <2>9. KeepsRef(t)
    BY Zenon, <1>4, <2>8 DEF KeepsRef, userVars
  <2>10. \A x : Has(todo[t], x) /\ x # "quiesced" => Has(rest, x)
    <3>1. \A x : Has(todo[t], x) /\ x # Head(todo[t]) => Has(Tail(todo[t]), x)
      BY Zenon, <1>1, GoodTail
    <3> QED
      BY Zenon, <1>1, <1>3, <3>1
  <2>11. ASSUME NEW u \in Thread, ref'[u] \in Doomed(t)' PROVE WaitsFor(t, u)'
    <3>1. ref[u] \in Doomed(t)
      BY Zenon, <1>4, <2>11 DEF Doomed, cbVars, userVars
    <3>2. WaitsFor(t, u)
      BY Zenon, <3>1 DEF Order, Grace
    <3>3. seqno[u] <= target[t]
      BY Zenon, <1>1, <3>2 DEF WaitsFor
    <3> QED
      BY Zenon, <1>4, <2>5, <2>10, <3>2, <3>3 DEF WaitsFor, Has, syncVars
  <2>12. KeepsOrder(t)
    BY Zenon, <1>4, <2>5, <2>10, <2>11 DEF KeepsOrder, Order, Holders, cbVars, userVars
  <2>13. Users' /\ Holders' /\ Grace'
    BY Zenon, <2>7, <2>9, <2>12, Moves
  <2>14. Unborn'
    BY Zenon, <1>4, <2>1 DEF Unborn
  <2>15. Lists'
    <3> SUFFICES ASSUME NEW u \in Thread PROVE Good(multithreaded', u, todo'[u])
      BY Zenon DEF Lists, Good, Ordered, Paired, Alone, Creates, Sync
    <3>1. multithreaded' = TRUE /\ multithreaded = TRUE
      BY <1>1, <2>1
    <3>2. Good(multithreaded, u, todo[u])
      BY Zenon DEF Order, Lists
    <3> QED
      BY Zenon, <1>3, <2>3, <2>5, <3>1, <3>2
  <2>16. Order'
    BY Zenon, <1>4, <2>13, <2>14, <2>15 DEF Order
  <2>17. created' \in BOOLEAN
    BY <1>1
  <2> QED
    BY Zenon, <1>4, <2>6, <2>16, <2>17 DEF TypeOK, seqVars, cbVars, syncVars, userVars
<1> QED
  BY <1>6, <1>7

(* The first thread creates the others.                                    *)
LEMMA CreateInv ==
  ASSUME TypeOK, Order, Create
  PROVE  TypeOK' /\ Order'
<1>1. /\ multithreaded \in BOOLEAN /\ Main \in Thread /\ Urcu \in Thread /\ Main # Urcu
      /\ todo \in [Thread -> Seq(Steps)] /\ Good(multithreaded, Main, todo[Main])
      /\ todo[Main] # <<>> /\ Head(todo[Main]) = "create"
      /\ (created => multithreaded) /\ (~created => todo[Urcu] = <<"unborn">>)
  BY Zenon, ThreadAssumption DEF Create, At, TypeOK, Order, Lists, Unborn, Thread
<1>2. ~multithreaded /\ todo[Main] = <<"create">>
  <2>1. todo[Main] \in Seq(Steps) /\ Creates(multithreaded, Main, todo[Main])
    BY Zenon, <1>1 DEF Good
  <2>2. /\ Len(todo[Main]) \in Nat /\ 1 \in DOMAIN todo[Main] /\ todo[Main][1] = "create"
        /\ DOMAIN todo[Main] = 1 .. Len(todo[Main])
    BY <1>1, <2>1, TailList
  <2>3. ~multithreaded /\ Len(todo[Main]) = 1
    BY Zenon, <2>1, <2>2 DEF Creates
  <2> QED
    BY <2>1, <2>2, <2>3
<1>3. \A u \in Thread \ {Main} : todo[u] = <<"unborn">>
  BY Zenon, <1>2 DEF Order, Unborn
<1>4. ~created /\ todo[Urcu] = <<"unborn">>
  BY Zenon, <1>1, <1>2
<1>5. /\ todo'[Main] = <<>> /\ todo'[Urcu] = <<"unborn">>
      /\ \A u \in Worker \ {Main} : todo'[u] = ovsrcu_perthread_get
  <2>1. Tail(<<"create">>) = <<>>
    OBVIOUS
  <2> QED
    BY <1>1, <1>2, <1>4, <2>1, ThreadAssumption DEF Create, ovsrcu_quiesce_end, Thread
<1>6. /\ Good(TRUE, Main, <<>>) /\ Good(TRUE, Urcu, <<"unborn">>)
      /\ \A u \in Worker : Good(TRUE, u, ovsrcu_perthread_get)
  <2>1. Good(TRUE, Main, <<>>)
    BY DEF Good, Ordered, Paired, Alone, Creates
  <2>2. Good(TRUE, Urcu, <<"unborn">>)
    <3>1. <<"unborn">> \in Seq(Steps) /\ Plain(<<"unborn">>)
      BY DEF Steps, Plain, Waits, Frees
    <3>2. Paired(<<"unborn">>) /\ Creates(TRUE, Urcu, <<"unborn">>)
      BY DEF Paired, Creates
    <3> QED
      BY Zenon, <3>1, <3>2 DEF Good, Plain, Ordered, Alone
  <2>3. \A u \in Worker : Good(TRUE, u, ovsrcu_perthread_get)
    BY Zenon, LateLists DEF Late, Good, Ordered, Plain, Alone, Creates, Has
  <2> QED
    BY Zenon, <2>1, <2>2, <2>3
<1>7. ASSUME NEW u \in Thread PROVE Good(TRUE, u, todo'[u])
  <2>1. CASE u = Main
    BY Zenon, <1>5, <1>6, <2>1
  <2>2. CASE u = Urcu
    BY Zenon, <1>5, <1>6, <2>2
  <2>3. CASE u \in Worker \ {Main}
    BY Zenon, <1>5, <1>6, <2>3
  <2> QED
    BY Zenon, <2>1, <2>2, <2>3 DEF Thread
<1>8. todo' \in [Thread -> Seq(Steps)]
  <2>1. \A u \in Thread : todo'[u] \in Seq(Steps)
    BY Zenon, <1>7 DEF Good
  <2>2. todo' = [u \in Thread |-> todo'[u]]
    BY DEF Create
  <2> QED
    BY <2>1, <2>2
<1>9. /\ UNCHANGED <<created, postpone_exit, arrived, rounds, seqVars,
                     ovsrcu_threads, seqno, cbVars, syncVars, userVars>>
      /\ Behind' /\ multithreaded' = TRUE
  BY Zenon DEF Create, Order, Behind, seqVars
<1>10. Keeps(Main)
  BY Zenon, <1>3, <1>9 DEF Keeps, cbVars, syncVars, userVars
<1>11. KeepsRef(Main)
  BY Zenon, <1>1, <1>5, <1>9 DEF KeepsRef, Order, Users, userVars
<1>12. ~Has(todo[Main], "call") /\ ~Has(todo[Main], "delete")
  BY <1>2 DEF Has
<1>13. batch'[Main] = <<>> /\ mine'[Main] = NONE
  BY Zenon, <1>1, <1>9, <1>12 DEF Order, Holders, cbVars, userVars
<1>14. Doomed(Main)' = {}
  BY <1>13 DEF Doomed, Objs
<1>15. KeepsOrder(Main)
  BY Zenon, <1>13, <1>14 DEF KeepsOrder
<1>16. Users' /\ Holders' /\ Grace'
  BY Zenon, <1>1, <1>10, <1>11, <1>15, Moves
<1>17. Unborn'
  BY Zenon, <1>5, <1>9 DEF Unborn
<1>18. Lists'
  <2> SUFFICES ASSUME NEW u \in Thread PROVE Good(multithreaded', u, todo'[u])
    BY Zenon DEF Lists, Good, Ordered, Paired, Alone, Creates, Sync
  <2> QED
    BY Zenon, <1>7, <1>9
<1>19. Order'
  BY Zenon, <1>9, <1>16, <1>17, <1>18 DEF Order
<1>20. multithreaded' \in BOOLEAN
  BY <1>9
<1> QED
  BY Zenon, <1>8, <1>9, <1>19, <1>20 DEF TypeOK, seqVars, cbVars, syncVars, userVars

-----------------------------------------------------------------------------
(* The calls of a program.                                                 *)

(* What is replaced and not freed.                                         *)
LEMMA InRetired ==
  ASSUME NEW o
  PROVE  o \in Retired <=>
           /\ o # NONE
           /\ \/ o \in Objs(flushed_cbsets)
              \/ \E t \in Thread : \/ o \in Objs(cbset[t])
                                   \/ o \in Objs(batch[t]) \/ o = mine[t]
BY DEF Retired

(* What a thread is going to free was replaced.                            *)
LEMMA DoomedIsRetired ==
  ASSUME NEW t \in Thread
  PROVE  Doomed(t) \subseteq Retired
BY InRetired DEF Doomed

(* What is done at the start of a call.                                    *)
LEMMA GoodAlone ==
  ASSUME NEW m \in BOOLEAN, NEW t, NEW s, Late(s)
  PROVE  Good(m, t, s)
BY DEF Late, Good, Ordered, Plain, Alone, Creates, Has

(* A call puts its steps in an empty list.                                 *)
LEMMA BeginInv ==
  ASSUME TypeOK, Order, NEW t \in Thread, NEW call, NEW steps,
         Begin(t, call, steps), Good(multithreaded, t, steps),
         UNCHANGED <<multithreaded, created, batch, mine, target, global_seqno, seqno,
                     ovsrcu_threads>>
  PROVE  /\ Order' /\ todo' \in [Thread -> Seq(Steps)]
         /\ ref' \in [Thread -> Obj \cup {NONE}] /\ calls' \in [Worker -> Seq(Calls)]
<1>1. /\ ref \in [Thread -> Obj \cup {NONE}] /\ calls \in [Worker -> Seq(Calls)]
      /\ t \in Worker /\ todo[t] = <<>> /\ calls[t] # <<>>
      /\ calls' = [calls EXCEPT ![t] = Tail(@)] /\ ref' = [ref EXCEPT ![t] = NONE]
      /\ todo' = [todo EXCEPT ![t] = steps]
  BY Zenon DEF TypeOK, Begin, Calling, Made
<1>2. ref'[t] = NONE /\ \A u \in Thread \ {t} : ref'[u] = ref[u]
  BY <1>1
<1>3. KeepsRef(t)
  BY Zenon, <1>2 DEF KeepsRef
<1>4. ref' \in [Thread -> Obj \cup {NONE}] /\ calls' \in [Worker -> Seq(Calls)]
  BY <1>1
<1> QED
  BY Zenon, <1>1, <1>2, <1>3, <1>4, Starts

(* The calls that change nothing else.                                     *)
LEMMA OnlyBegins ==
  ASSUME TypeOK, Order, NEW t \in Thread, NEW call, NEW steps, Begin(t, call, steps),
         Late(steps),
         UNCHANGED <<exitVars, seqVars, ovsrcu_threads, seqno, cbVars, syncVars, ptr, mine>>
  PROVE  TypeOK' /\ Order'
<1>1. Good(multithreaded, t, steps)
  BY GoodAlone DEF TypeOK
<1>2. /\ Order' /\ todo' \in [Thread -> Seq(Steps)]
      /\ ref' \in [Thread -> Obj \cup {NONE}] /\ calls' \in [Worker -> Seq(Calls)]
  BY Zenon, <1>1, BeginInv DEF exitVars, seqVars, cbVars, syncVars
<1> QED
  BY Zenon, <1>2 DEF TypeOK, exitVars, seqVars, cbVars, syncVars

(* ovsrcu_quiesce().                                                       *)
LEMMA QuiesceInv ==
  ASSUME TypeOK, Order, NEW t \in Thread,
         Quiesce(t) \/ QuiesceStart(t) \/ QuiesceEnd(t)
  PROVE  TypeOK' /\ Order'
<1>1. PICK steps \in {ovsrcu_quiesce, ovsrcu_quiesce_start(t), ovsrcu_perthread_get, <<>>} :
           \E call : Begin(t, call, steps)
  BY Zenon DEF Quiesce, QuiesceStart, QuiesceEnd, ovsrcu_quiesce_end
<1>2. Late(steps)
  BY Zenon, <1>1, LateLists
<1> QED
  BY Zenon, <1>1, <1>2, OnlyBegins DEF Quiesce, QuiesceStart, QuiesceEnd

(* ovsrcu_exit().                                                          *)
LEMMA ExitInv ==
  ASSUME TypeOK, Order, Exit
  PROVE  TypeOK' /\ Order'
<1>1. Late(<<"exit_round">>) /\ Late(<<"set_exit", "arrive">>)
  BY DEF Late, Steps, Paired, Plain, Has, Waits, Frees
<1>2. Late(ovsrcu_quiesced \o <<"set_exit", "arrive">>)
  BY <1>1, LateLists, LateConcat
<1>3. Late(ovsrcu_exit)
  BY <1>1, <1>2, LateLists, LateConcat DEF ovsrcu_exit
<1>4. Main \in Thread
  BY Zenon, ThreadAssumption DEF Thread
<1>5. Good(multithreaded, Main, ovsrcu_exit)
  BY <1>3, GoodAlone DEF TypeOK
<1>6. Begin(Main, "exit", ovsrcu_exit)
  BY Zenon DEF Exit
<1>7. /\ Order' /\ todo' \in [Thread -> Seq(Steps)]
      /\ ref' \in [Thread -> Obj \cup {NONE}] /\ calls' \in [Worker -> Seq(Calls)]
  BY Zenon, <1>4, <1>5, <1>6, BeginInv DEF Exit, seqVars, cbVars, syncVars
<1>8. rounds' \in Nat
  BY DEF Exit
<1> QED
  BY Zenon, <1>7, <1>8 DEF Exit, TypeOK, seqVars, cbVars, syncVars

(* ovsrcu_try_quiesce() with seq_mutex free.                               *)
LEMMA TryQuiesceInv ==
  ASSUME TypeOK, Order, NEW t \in Thread, TryQuiesce(t)
  PROVE  TypeOK' /\ Order'
<1>1. Begin(t, "try_quiesce", ovsrcu_quiesce) /\ multithreaded \in BOOLEAN
  BY Zenon DEF TryQuiesce, TypeOK
<1>2. Good(multithreaded, t, ovsrcu_quiesce)
  BY <1>1, LateLists, GoodAlone
<1>3. /\ Order' /\ todo' \in [Thread -> Seq(Steps)]
      /\ ref' \in [Thread -> Obj \cup {NONE}] /\ calls' \in [Worker -> Seq(Calls)]
  BY Zenon, <1>1, <1>2, BeginInv DEF TryQuiesce, exitVars, cbVars, syncVars
<1>4. seq_mutex' \in Thread \cup {NONE}
  BY Zenon DEF TryQuiesce
<1> QED
  BY Zenon, <1>3, <1>4 DEF TryQuiesce, TypeOK, exitVars, cbVars, syncVars

(* ovsrcu_barrier().                                                       *)
LEMMA BarrierInv ==
  ASSUME TypeOK, Order, NEW t \in Thread, Barrier(t)
  PROVE  TypeOK' /\ Order'
<1> DEFINE q == <<"barrier_post", "barrier_poll", "barrier_check">>
<1>1. /\ Begin(t, "barrier", ovsrcu_synchronize(t) \o q) /\ multithreaded \in BOOLEAN
      /\ fired \in [Thread -> BOOLEAN] /\ owed \in [Thread -> [Thread -> Nat]]
      /\ posted \in [Thread -> Nat]
      /\ fired' = [fired EXCEPT ![t] = FALSE] /\ owed' = [owed EXCEPT ![t] = posted]
  BY Zenon DEF Barrier, ovsrcu_barrier, TypeOK
<1>2. Late(q)
  BY DEF Late, Steps, Paired, Plain, Has, Waits, Frees
<1> HIDE DEF q
<1>3. Good(multithreaded, t, ovsrcu_synchronize(t) \o q)
  <2>1. Good(multithreaded, t, q)
    BY <1>1, <1>2, GoodAlone
  <2> QED
    BY <1>1, <2>1, SynchronizesFirst
<1>4. UNCHANGED <<exitVars, seqVars, ovsrcu_threads, seqno, cbset, flushed_cbsets, batch,
                  posted, called, syncVars, ptr, mine>>
  BY Zenon DEF Barrier
<1>5. /\ Order' /\ todo' \in [Thread -> Seq(Steps)]
      /\ ref' \in [Thread -> Obj \cup {NONE}] /\ calls' \in [Worker -> Seq(Calls)]
  BY Zenon, <1>1, <1>3, <1>4, BeginInv DEF exitVars, seqVars, syncVars
<1>6. fired' \in [Thread -> BOOLEAN] /\ owed' \in [Thread -> [Thread -> Nat]]
  BY <1>1
<1> QED
  BY Zenon, <1>4, <1>5, <1>6 DEF TypeOK, exitVars, seqVars, syncVars

(* A thread ends.                                                          *)
LEMMA FinishInv ==
  ASSUME TypeOK, Order, NEW t \in Thread, Finish(t)
  PROVE  TypeOK' /\ Order'
<1>1. PICK p \in {ovsrcu_quiesce_start(t), ovsrcu_unregister__, <<>>} :
           todo' = [todo EXCEPT ![t] = p \o <<"gone">>]
  BY Zenon DEF Finish
<1>2. Late(p)
  BY Zenon, <1>1, LateLists
<1>3. Late(<<"gone">>)
  BY DEF Late, Steps, Paired, Plain, Has, Waits, Frees
<1>4. Good(multithreaded, t, p \o <<"gone">>)
  BY Zenon, <1>2, <1>3, LateConcat, GoodAlone DEF TypeOK
<1>5. ref \in [Thread -> Obj \cup {NONE}] /\ ref' = [ref EXCEPT ![t] = NONE] /\ todo[t] = <<>>
  BY Zenon DEF Finish, TypeOK
<1>6. /\ ref'[t] = NONE /\ \A u \in Thread \ {t} : ref'[u] = ref[u]
      /\ ref' \in [Thread -> Obj \cup {NONE}]
  BY <1>5
<1>7. KeepsRef(t)
  BY Zenon, <1>6 DEF KeepsRef
<1>8. Order' /\ todo' \in [Thread -> Seq(Steps)]
  BY Zenon, <1>1, <1>4, <1>5, <1>6, <1>7, Starts
  DEF Finish, exitVars, seqVars, cbVars, syncVars
<1> QED
  BY Zenon, <1>6, <1>8 DEF Finish, TypeOK, exitVars, seqVars, cbVars, syncVars

(* The calls in which a thread does not quiesce.                           *)
LEMMA CallsType ==
  ASSUME TypeOK, NEW t, NEW call, Calling(t, call), Made(t)
  PROVE  calls' \in [Worker -> Seq(Calls)]
<1>1. calls \in [Worker -> Seq(Calls)] /\ t \in Worker /\ calls[t] # <<>>
  BY Zenon DEF TypeOK, Calling
<1>2. calls' = [calls EXCEPT ![t] = Tail(@)]
  BY Zenon DEF Made
<1> QED
  BY <1>1, <1>2

(* ovs_thread_create().                                                    *)
LEMMA ThreadCreateInv ==
  ASSUME TypeOK, Order, ThreadCreate
  PROVE  TypeOK' /\ Order'
<1>1. calls' \in [Worker -> Seq(Calls)]
  BY Zenon, CallsType DEF ThreadCreate
<1>2. /\ Main \in Thread /\ todo[Main] = <<>> /\ ~multithreaded /\ Main \in Worker
      /\ todo \in [Thread -> Seq(Steps)] /\ multithreaded \in BOOLEAN
  BY Zenon, ThreadAssumption DEF ThreadCreate, Calling, Thread, TypeOK
<1> DEFINE p == IF Main \in ovsrcu_threads THEN <<>> ELSE ovsrcu_quiesce_end
           new == p \o <<"create">>
<1>3. Early(multithreaded, p)
  BY <1>2, EarlyLists DEF ovsrcu_quiesce_end
<1>4. Good(multithreaded, Main, <<"create">>)
  <2>1. <<"create">> \in Seq(Steps) /\ Plain(<<"create">>)
    BY DEF Steps, Plain, Waits, Frees
  <2>2. Paired(<<"create">>) /\ Creates(multithreaded, Main, <<"create">>)
    BY <1>2 DEF Paired, Creates
  <2> QED
    BY <2>1, <2>2 DEF Good, Plain, Ordered, Alone
<1>5. todo' = [todo EXCEPT ![Main] = new]
  BY Zenon DEF ThreadCreate
<1>6. Main \in ovsrcu_threads => new = <<"create">>
  OBVIOUS
<1> HIDE DEF p
<1>7. Good(multithreaded, Main, new)
  BY <1>2, <1>3, <1>4, GoodConcat
<1> HIDE DEF new
<1>8. UNCHANGED <<exitVars, seqVars, ovsrcu_threads, seqno, cbVars, syncVars, ptr, ref, mine>>
  BY Zenon DEF ThreadCreate
<1>9. todo'[Main] = new
  BY <1>2, <1>5
<1>10. KeepsRef(Main)
  BY Zenon, <1>2, <1>6, <1>8, <1>9 DEF KeepsRef, Order, Users
<1>11. Order' /\ todo' \in [Thread -> Seq(Steps)]
  BY Zenon, <1>2, <1>5, <1>7, <1>8, <1>10, Starts DEF exitVars, seqVars, cbVars, syncVars
<1> QED
  BY Zenon, <1>1, <1>8, <1>11 DEF TypeOK, exitVars, seqVars, cbVars, syncVars

(* No step of another function: the list stays empty.                      *)
LEMMA Stays ==
  ASSUME TypeOK, Order, NEW t \in Thread, todo[t] = <<>>,
         UNCHANGED <<multithreaded, created, batch, mine, target, global_seqno, seqno,
                     ovsrcu_threads, todo>>,
         \A u \in Thread \ {t} : ref'[u] = ref[u], KeepsRef(t)
  PROVE  Order'
<1>1. todo \in [Thread -> Seq(Steps)]
  BY Zenon DEF TypeOK
<1>2. todo' = [todo EXCEPT ![t] = <<>>]
  BY <1>1
<1>3. Good(multithreaded, t, <<>>)
  BY DEF Good, Ordered, Paired, Alone, Creates
<1> QED
  BY Zenon, <1>2, <1>3, Starts

(* ovsrcu_try_quiesce() while another thread has seq_mutex.                *)
LEMMA TryQuiesceBusyInv ==
  ASSUME TypeOK, Order, NEW t \in Thread, TryQuiesceBusy(t)
  PROVE  TypeOK' /\ Order'
<1>1. calls' \in [Worker -> Seq(Calls)] /\ todo[t] = <<>>
  BY Zenon, CallsType DEF TryQuiesceBusy, Calling
<1>2. UNCHANGED <<exitVars, seqVars, ovsrcu_threads, seqno, cbVars, syncVars, todo, ptr,
                  ref, mine>>
  BY Zenon DEF TryQuiesceBusy
<1>3. KeepsRef(t)
  BY Zenon, <1>1, <1>2 DEF KeepsRef, Order, Users
<1>4. Order'
  BY Zenon, <1>1, <1>2, <1>3, Stays DEF exitVars, seqVars, cbVars, syncVars
<1> QED
  BY Zenon, <1>1, <1>2, <1>4 DEF TypeOK, exitVars, seqVars, cbVars, syncVars

(* What is in the pointer is not freed, so that a thread may use it.       *)
LEMMA GetInv ==
  ASSUME TypeOK, Order, ptr \notin Retired, NEW t \in Thread, Get(t)
  PROVE  TypeOK' /\ Order'
<1>1. calls' \in [Worker -> Seq(Calls)] /\ todo[t] = <<>> /\ t \in Worker
  BY Zenon, CallsType DEF Get, Calling
<1>2. UNCHANGED <<exitVars, seqVars, ovsrcu_threads, seqno, cbVars, syncVars, todo, ptr,
                  mine>>
  BY Zenon DEF Get
<1>3. /\ ref' \in [Thread -> Obj \cup {NONE}] /\ ref'[t] = ptr
      /\ \A u \in Thread \ {t} : ref'[u] = ref[u]
  BY DEF Get, TypeOK
<1>4. \A u \in Thread : ref'[t] \notin Doomed(u)'
  BY Zenon, <1>2, <1>3, DoomedIsRetired DEF Doomed, cbVars
<1>5. KeepsRef(t)
  BY Zenon, <1>1, <1>2, <1>4 DEF KeepsRef, Get
<1>6. Order'
  BY Zenon, <1>1, <1>2, <1>3, <1>5, Stays DEF exitVars, seqVars, cbVars, syncVars
<1> QED
  BY Zenon, <1>1, <1>2, <1>3, <1>6 DEF TypeOK, exitVars, seqVars, cbVars, syncVars

(* An object is replaced.                                                  *)
LEMMA Allocates ==
  ASSUME R!Free # {}, ptr' = xmalloc
  PROVE  ptr' \in R!Free /\ ptr' \in Obj
<1>1. xmalloc \in R!Free
  BY Zenon DEF xmalloc
<1> QED
  BY <1>1 DEF R!Free

(* ovsrcu_set() and ovsrcu_postpone() of what was replaced.                *)
LEMMA ChangeInv ==
  ASSUME TypeOK, Order, NEW t \in Thread, NEW call, NEW kind \in {"free", "again"},
         Change(t, call, kind)
  PROVE  TypeOK' /\ Order'
<1>1. calls' \in [Worker -> Seq(Calls)] /\ todo[t] = <<>>
  BY Zenon, CallsType DEF Change, Calling
<1>2. UNCHANGED <<exitVars, seqVars, ovsrcu_threads, seqno, flushed_cbsets, batch,
                  called, fired, owed, syncVars, todo, ref, mine>>
  BY Zenon DEF Change
<1>3. ptr' \in Obj
  BY Zenon, Allocates DEF Change
<1>4. cbset' \in [Thread -> Seq(Callback)] /\ posted' \in [Thread -> Nat]
  <2>1. ovsrcu_postpone__(t, kind, ptr) /\ ptr \in Obj
    BY Zenon DEF Change, TypeOK
  <2>2. kind \in {"free", "again", "barrier"}
    BY Zenon
  <2> QED
    BY <2>1, <2>2, PostponeType
<1>5. KeepsRef(t)
  BY Zenon, <1>1, <1>2 DEF KeepsRef, Order, Users
<1>6. Order'
  BY Zenon, <1>1, <1>2, <1>5, Stays DEF exitVars, seqVars, syncVars
<1> QED
  BY Zenon, <1>1, <1>2, <1>3, <1>4, <1>6 DEF TypeOK, exitVars, seqVars, syncVars

(* ovsrcu_set() and ovsrcu_synchronize() before the object is freed.       *)
LEMMA DeleteInv ==
  ASSUME TypeOK, Order, NEW t \in Thread, Delete(t)
  PROVE  TypeOK' /\ Order' /\ mine[t] = NONE
<1> DEFINE new == ovsrcu_synchronize(t) \o <<"delete">>
<1>1. /\ Begin(t, "delete", new) /\ multithreaded \in BOOLEAN /\ ptr \in Obj
      /\ mine \in [Thread -> Obj \cup {NONE}] /\ mine' = [mine EXCEPT ![t] = ptr]
      /\ ref \in [Thread -> Obj \cup {NONE}] /\ todo \in [Thread -> Seq(Steps)]
  BY Zenon DEF Delete, TypeOK
<1>2. /\ todo[t] = <<>> /\ ref' = [ref EXCEPT ![t] = NONE]
      /\ todo' = [todo EXCEPT ![t] = new] /\ calls' \in [Worker -> Seq(Calls)]
  BY Zenon, <1>1, CallsType DEF Begin, Calling
<1>3. Good(multithreaded, t, <<"delete">>) /\ Has(<<"delete">>, "delete")
  <2>1. <<"delete">> \in Seq(Steps) /\ Paired(<<"delete">>) /\ Has(<<"delete">>, "delete")
    BY DEF Steps, Paired, Has
  <2>2. /\ Ordered(multithreaded, <<"delete">>) /\ Alone(multithreaded, <<"delete">>)
        /\ Creates(multithreaded, t, <<"delete">>)
    BY DEF Ordered, Alone, Creates, Waits
  <2> QED
    BY <2>1, <2>2 DEF Good
<1>4. /\ Good(multithreaded, t, new) /\ Has(new, "delete")
      /\ multithreaded => Has(new, "scan") /\ new # <<>> /\ Head(new) = "read_target"
  BY <1>1, <1>3, SynchronizesFirst
<1> HIDE DEF new
<1>5. UNCHANGED <<exitVars, seqVars, ovsrcu_threads, seqno, cbVars, syncVars>>
  BY Zenon DEF Delete
<1>6. /\ mine' \in [Thread -> Obj \cup {NONE}] /\ ref' \in [Thread -> Obj \cup {NONE}]
      /\ ref'[t] = NONE /\ todo'[t] = new /\ todo[t] # <<"unborn">>
      /\ \A u \in Thread \ {t} : mine'[u] = mine[u] /\ ref'[u] = ref[u]
  BY <1>1, <1>2
<1>7. ~Has(todo[t], "call") /\ ~Has(todo[t], "delete")
  BY <1>2 DEF Has
<1>8. batch[t] = <<>> /\ mine[t] = NONE
  BY Zenon, <1>7 DEF Order, Holders
<1>9. KeepsRef(t)
  BY Zenon, <1>6 DEF KeepsRef
<1>10. ASSUME NEW u \in Thread, ref'[u] \in Doomed(t)' PROVE WaitsFor(t, u)'
  <2>1. ref'[u] # NONE
    BY Zenon, <1>10 DEF Doomed
  <2>2. u \in Thread \ {t} /\ ref[u] # NONE
    BY Zenon, <1>6, <2>1
  <2>3. multithreaded
    BY Zenon, <1>6, <2>2, OtherUser
  <2> QED
    BY Zenon, <1>4, <1>6, <2>3 DEF WaitsFor, Has
<1>11. KeepsOrder(t)
  BY Zenon, <1>4, <1>5, <1>6, <1>8, <1>10 DEF KeepsOrder, cbVars
<1>12. Behind'
  BY Zenon, <1>5 DEF Order, Behind, seqVars
<1>13. Order' /\ todo' \in [Thread -> Seq(Steps)]
  BY Zenon, <1>2, <1>4, <1>5, <1>6, <1>9, <1>11, <1>12, Move
  DEF exitVars, cbVars, syncVars
<1>14. ptr' \in Obj
  BY Zenon, Allocates DEF Delete
<1> QED
  BY Zenon, <1>2, <1>5, <1>6, <1>8, <1>13, <1>14 DEF TypeOK, exitVars, seqVars, cbVars, syncVars

(* Every step keeps the invariant.                                         *)
LEMMA StepInv ==
  ASSUME TypeOK, Order, NEW t \in Thread, Step(t)
  PROVE  TypeOK' /\ Order'
BY Zenon, ReadSeqnoInv, InsertInv, PushCbsetInv, ChangeFlushedInv, RemoveInv,
   ChangeGlobalInv, QuiescedInv, ReadTargetInv, ReadCurInv, ScanInv, WaitGlobalInv,
   PopAllInv, CallInv, CallEnterInv, CallDoneInv, BarrierPostInv, BarrierPollInv,
   BarrierWaitInv, BarrierCheckInv, SetExitInv, ArriveInv, BlockInv, GatherInv,
   ExitRoundInv, DeletedInv, LoopInv, ReadFlushedInv, PollFlushedInv, WaitFlushedInv, CreateInv
DEF Step

(* The next call of a program.                                             *)
LEMMA ProgramInv ==
  ASSUME TypeOK, Order, ptr \notin Retired, NEW t \in Thread, Program(t)
  PROVE  TypeOK' /\ Order'
<1>1. "free" \in {"free", "again"} /\ "again" \in {"free", "again"}
  OBVIOUS
<1> QED
  BY Zenon, <1>1, GetInv, DeleteInv, QuiesceInv, TryQuiesceInv, TryQuiesceBusyInv,
     BarrierInv, FinishInv, ChangeInv, ThreadCreateInv, ExitInv
  DEF Program

-----------------------------------------------------------------------------
(* The lists of steps again: what a thread has ahead.                      *)

(* The steps of ovsrcu_call_postponed().                                   *)
Takes == {"pop_all", "call"}

(* Those that lead to it, and those of the two barriers.                   *)
Leads == Takes \cup {"loop", "exit_round", "arrive"}
Marks == Leads \cup {"gather", "barrier_post", "barrier_check"}

(* Of all these only those in A, and none.                                 *)
Only(A, s) == s \in Seq(Steps) /\ \A i \in DOMAIN s : s[i] \in Marks => s[i] \in A
Dull(s) == s \in Seq(Steps) /\ \A i \in DOMAIN s : s[i] \notin Marks

(* The loop of ovsrcu_postpone_thread() is the last function of its        *)
(* thread.                                                                 *)
LoopLast(s) == \A i \in DOMAIN s : s[i] = "loop" => i = Len(s)

(* Before the main thread comes to the loop of ovsrcu_exit(), it is going  *)
(* to meet the thread that calls callbacks.                                *)
Meets(s) ==
  \A i \in DOMAIN s : s[i] = "exit_round" =>
    \E j \in DOMAIN s : j < i /\ s[j] \in {"arrive", "gather"}

(* It does so once.                                                        *)
MeetsOnce(s) == \A i, j \in DOMAIN s : s[i] = "arrive" /\ s[j] = "arrive" => i = j

(* ovsrcu_barrier() postpones one callback, and then waits for it.         *)
Posts(s) ==
  \A i \in DOMAIN s : s[i] = "barrier_post" =>
    /\ \A j \in DOMAIN s : s[j] = "barrier_post" => j = i
    /\ \E j \in DOMAIN s : j > i /\ s[j] = "barrier_check"

(* Of the marks, r has those of s but for some in A that came and some in  *)
(* X that went.                                                            *)
Same(A, X, s, r) ==
  /\ \A step \in Marks \ A : Has(r, step) => Has(s, step)
  /\ \A step \in Marks \ X : Has(s, step) => Has(r, step)
  /\ "loop" \notin A /\ LoopLast(s) => LoopLast(r)
  /\ "exit_round" \notin A /\ "arrive" \notin X /\ "gather" \notin X /\ Meets(s) => Meets(r)
  /\ "arrive" \notin A /\ MeetsOnce(s) => MeetsOnce(r)
  /\ "barrier_post" \notin A /\ Posts(s) => Posts(r)

(* A list is the same as itself, ...                                       *)
LEMMA SameAsItself ==
  ASSUME NEW s
  PROVE  Same({}, {}, s, s)
BY Zenon DEF Same

(* ... as what has the same marks as one that has the same, ...            *)
LEMMA SameTwice ==
  ASSUME NEW X, NEW Y, NEW s, NEW r, NEW q, Same({}, X, s, r), Same({}, Y, r, q)
  PROVE  Same({}, X \cup Y, s, q)
BY Zenon DEF Same

(* ... and as itself after dull steps.                                     *)
LEMMA SameAfter ==
  ASSUME NEW A, NEW p, Only(A, p), NEW s \in Seq(Steps)
  PROVE  Same(A, {}, s, p \o s)
<1> DEFINE r == p \o s
<1>1. /\ Len(p) \in Nat /\ Len(s) \in Nat
      /\ DOMAIN p = 1 .. Len(p) /\ DOMAIN s = 1 .. Len(s)
      /\ Len(r) = Len(p) + Len(s) /\ DOMAIN r = 1 .. Len(p) + Len(s)
      /\ \A i \in 1 .. Len(p) : r[i] = p[i]
      /\ \A i \in Len(p) + 1 .. Len(p) + Len(s) : r[i] = s[i - Len(p)]
  BY ConcatList DEF Only
<1> HIDE DEF r
<1>2. ASSUME NEW i \in DOMAIN s
      PROVE  Len(p) + i \in DOMAIN r /\ r[Len(p) + i] = s[i]
  BY <1>1
<1>3. ASSUME NEW i \in DOMAIN r, r[i] \in Marks \ A
      PROVE  i - Len(p) \in DOMAIN s /\ i = Len(p) + (i - Len(p)) /\ r[i] = s[i - Len(p)]
  <2>1. i \in 1 .. Len(p) + Len(s)
    BY <1>1
  <2>2. i \notin 1 .. Len(p)
    BY Zenon, <1>1, <1>3 DEF Only
  <2>3. i \in Len(p) + 1 .. Len(p) + Len(s)
    BY <1>1, <2>1, <2>2
  <2> QED
    BY <1>1, <2>3
<1>4. \A step \in Marks \ A : Has(r, step) => Has(s, step)
  BY Zenon, <1>3 DEF Has
<1>5. \A step : Has(s, step) => Has(r, step)
  BY Zenon, <1>2 DEF Has
<1>6. "loop" \notin A /\ LoopLast(s) => LoopLast(r)
  <2>1. "loop" \in Marks
    BY DEF Marks, Leads
  <2> QED
    BY <1>1, <1>3, <2>1 DEF LoopLast
<1>7. "exit_round" \notin A /\ Meets(s) => Meets(r)
  <2> SUFFICES ASSUME "exit_round" \notin A, Meets(s), NEW i \in DOMAIN r,
                      r[i] = "exit_round"
               PROVE  \E j \in DOMAIN r : j < i /\ r[j] \in {"arrive", "gather"}
    BY Zenon DEF Meets
  <2>1. "exit_round" \in Marks
    BY DEF Marks, Leads
  <2>2. i - Len(p) \in DOMAIN s /\ s[i - Len(p)] = "exit_round"
    BY Zenon, <1>3, <2>1
  <2>3. PICK j \in DOMAIN s : j < i - Len(p) /\ s[j] \in {"arrive", "gather"}
    BY Zenon, <2>2 DEF Meets
  <2>4. Len(p) + j \in DOMAIN r /\ r[Len(p) + j] \in {"arrive", "gather"}
    BY Zenon, <1>2, <2>3
  <2>5. Len(p) + j < i
    BY <1>1, <2>3
  <2> QED
    BY Zenon, <2>4, <2>5
<1>8. "barrier_post" \notin A /\ Posts(s) => Posts(r)
  <2> SUFFICES ASSUME "barrier_post" \notin A, Posts(s), NEW i \in DOMAIN r,
                      r[i] = "barrier_post"
               PROVE  /\ \A j \in DOMAIN r : r[j] = "barrier_post" => j = i
                      /\ \E j \in DOMAIN r : j > i /\ r[j] = "barrier_check"
    BY Zenon DEF Posts
  <2>1. "barrier_post" \in Marks
    BY DEF Marks
  <2>2. i - Len(p) \in DOMAIN s /\ i = Len(p) + (i - Len(p)) /\ s[i - Len(p)] = "barrier_post"
    BY Zenon, <1>3, <2>1
  <2>3. ASSUME NEW j \in DOMAIN r, r[j] = "barrier_post" PROVE j = i
    <3>1. j - Len(p) \in DOMAIN s /\ j = Len(p) + (j - Len(p)) /\ s[j - Len(p)] = "barrier_post"
      BY Zenon, <1>3, <2>1, <2>3
    <3>2. j - Len(p) = i - Len(p)
      BY Zenon, <2>2, <3>1 DEF Posts
    <3> QED
      BY Zenon, <2>2, <3>1, <3>2
  <2>4. PICK j \in DOMAIN s : j > i - Len(p) /\ s[j] = "barrier_check"
    BY Zenon, <2>2 DEF Posts
  <2>5. Len(p) + j \in DOMAIN r /\ r[Len(p) + j] = "barrier_check"
    BY Zenon, <1>2, <2>4
  <2>6. Len(p) + j > i
    BY <1>1, <2>4
  <2> QED
    BY Zenon, <2>3, <2>5, <2>6
<1>9. "arrive" \notin A /\ MeetsOnce(s) => MeetsOnce(r)
  <2> SUFFICES ASSUME "arrive" \notin A, MeetsOnce(s), NEW i \in DOMAIN r, NEW j \in DOMAIN r,
                      r[i] = "arrive", r[j] = "arrive"
               PROVE  i = j
    BY Zenon DEF MeetsOnce
  <2>1. "arrive" \in Marks
    BY DEF Marks, Leads
  <2>2. i - Len(p) \in DOMAIN s /\ i = Len(p) + (i - Len(p)) /\ s[i - Len(p)] = "arrive"
    BY Zenon, <1>3, <2>1
  <2>3. j - Len(p) \in DOMAIN s /\ j = Len(p) + (j - Len(p)) /\ s[j - Len(p)] = "arrive"
    BY Zenon, <1>3, <2>1
  <2>4. i - Len(p) = j - Len(p)
    BY Zenon, <2>2, <2>3 DEF MeetsOnce
  <2> QED
    BY Zenon, <2>2, <2>3, <2>4
<1> QED
  BY Zenon, <1>4, <1>5, <1>6, <1>7, <1>8, <1>9 DEF Same, r

(* Doing a step.                                                           *)
LEMMA SameTail ==
  ASSUME NEW s \in Seq(Steps), s # <<>>
  PROVE  Same({}, {Head(s)}, s, Tail(s))
<1> DEFINE r == Tail(s)
<1>1. /\ Len(s) \in Nat /\ Len(s) >= 1 /\ DOMAIN s = 1 .. Len(s) /\ Head(s) = s[1]
      /\ Len(r) = Len(s) - 1 /\ DOMAIN r = 1 .. Len(s) - 1
      /\ \A i \in 1 .. Len(s) - 1 : r[i] = s[i + 1]
  BY TailList
<1> HIDE DEF r
<1>2. ASSUME NEW i \in DOMAIN r
      PROVE  i + 1 \in DOMAIN s /\ r[i] = s[i + 1]
  BY <1>1
<1>3. ASSUME NEW i \in DOMAIN s, s[i] # Head(s)
      PROVE  i - 1 \in DOMAIN r /\ i = (i - 1) + 1 /\ r[i - 1] = s[i]
  <2>1. i \in 2 .. Len(s)
    BY <1>1, <1>3
  <2> QED
    BY <1>1, <2>1
<1>4. \A step : Has(r, step) => Has(s, step)
  BY Zenon, <1>2 DEF Has
<1>5. \A step \in Marks \ {Head(s)} : Has(s, step) => Has(r, step)
  BY Zenon, <1>3 DEF Has
<1>6. LoopLast(s) => LoopLast(r)
  BY <1>1, <1>2 DEF LoopLast
<1>7. ASSUME Head(s) \notin {"arrive", "gather"}, Meets(s) PROVE Meets(r)
  <2> SUFFICES ASSUME NEW i \in DOMAIN r, r[i] = "exit_round"
               PROVE  \E j \in DOMAIN r : j < i /\ r[j] \in {"arrive", "gather"}
    BY Zenon DEF Meets
  <2>1. PICK j \in DOMAIN s : j < i + 1 /\ s[j] \in {"arrive", "gather"}
    BY Zenon, <1>2, <1>7 DEF Meets
  <2>2. j - 1 \in DOMAIN r /\ r[j - 1] = s[j]
    BY Zenon, <1>3, <1>7, <2>1
  <2>3. j - 1 < i
    BY <1>1, <2>1
  <2> QED
    BY Zenon, <2>1, <2>2, <2>3
<1>8. ASSUME Posts(s) PROVE Posts(r)
  <2> SUFFICES ASSUME NEW i \in DOMAIN r, r[i] = "barrier_post"
               PROVE  /\ \A j \in DOMAIN r : r[j] = "barrier_post" => j = i
                      /\ \E j \in DOMAIN r : j > i /\ r[j] = "barrier_check"
    BY Zenon DEF Posts
  <2>1. i + 1 \in DOMAIN s /\ s[i + 1] = "barrier_post"
    BY Zenon, <1>2
  <2>2. ASSUME NEW j \in DOMAIN r, r[j] = "barrier_post" PROVE j = i
    <3>1. j + 1 = i + 1
      BY Zenon, <1>2, <1>8, <2>1, <2>2 DEF Posts
    <3> QED
      BY <1>1, <3>1
  <2>3. PICK j \in DOMAIN s : j > i + 1 /\ s[j] = "barrier_check"
    BY Zenon, <1>8, <2>1 DEF Posts
  <2>4. /\ j - 1 \in DOMAIN r /\ j - 1 > i /\ r[j - 1] = s[j]
    BY <1>1, <2>3
  <2> QED
    BY Zenon, <2>2, <2>3, <2>4
<1>9. ASSUME MeetsOnce(s) PROVE MeetsOnce(r)
  <2> SUFFICES ASSUME NEW i \in DOMAIN r, NEW j \in DOMAIN r, r[i] = "arrive", r[j] = "arrive"
               PROVE  i = j
    BY Zenon DEF MeetsOnce
  <2>1. i + 1 = j + 1
    BY Zenon, <1>2, <1>9 DEF MeetsOnce
  <2> QED
    BY <1>1, <2>1
<1> QED
  BY Zenon, <1>4, <1>5, <1>6, <1>7, <1>8, <1>9 DEF Same, r

(* Steps of another function come before what is left.                     *)
LEMMA SameThen ==
  ASSUME NEW A, NEW p, Only(A, p), NEW s \in Seq(Steps), s # <<>>
  PROVE  Same(A, {Head(s)}, s, p \o Tail(s))
<1>1. Tail(s) \in Seq(Steps)
  BY TailList
<1>2. Same(A, {}, Tail(s), p \o Tail(s))
  BY Zenon, <1>1, SameAfter
<1>3. Same({}, {Head(s)}, s, Tail(s))
  BY Zenon, SameTail
<1> QED
  BY Zenon, <1>2, <1>3 DEF Same

(* Lists without marks.                                                    *)
LEMMA DullConcat ==
  ASSUME NEW p, NEW q, Dull(p), Dull(q)
  PROVE  Dull(p \o q)
<1>1. p \in Seq(Steps) /\ q \in Seq(Steps)
  BY DEF Dull
<1> QED
  BY <1>1, ConcatList DEF Dull

(* Dull steps before others.                                               *)
LEMMA OnlyAfter ==
  ASSUME NEW A, NEW p, NEW q, Dull(p), Only(A, q)
  PROVE  Only(A, p \o q)
<1>1. p \in Seq(Steps) /\ q \in Seq(Steps)
  BY DEF Dull, Only
<1> QED
  BY <1>1, ConcatList DEF Dull, Only

(* Those that quiesce, synchronize and poll.                               *)
LEMMA DullLists ==
  /\ Dull(<<>>) /\ Dull(ovsrcu_perthread_get) /\ Dull(ovsrcu_unregister__)
  /\ Dull(ovsrcu_quiesced) /\ Dull(ovsrcu_quiesce)
  /\ \A t \in Thread : Dull(ovsrcu_quiesce_start(t)) /\ Dull(ovsrcu_synchronize(t))
<1>1. Dull(<<>>) /\ Dull(<<"quiesced">>)
  BY DEF Dull, Marks, Leads, Takes, Steps
<1>2. Dull(ovsrcu_perthread_get)
  BY DEF Dull, Marks, Leads, Takes, Steps, ovsrcu_perthread_get
<1>3. Dull(ovsrcu_unregister__)
  BY DEF Dull, Marks, Leads, Takes, Steps, ovsrcu_unregister__
<1>4. Dull(ovsrcu_quiesced)
  BY Zenon, <1>1 DEF ovsrcu_quiesced
<1>5. Dull(<<"read_seqno", "push", "flushed", "global">>)
  BY DEF Dull, Marks, Leads, Takes, Steps
<1>6. Dull(ovsrcu_quiesce)
  BY Zenon, <1>4, <1>5, DullConcat DEF ovsrcu_quiesce
<1>7. ASSUME NEW t \in Thread
      PROVE  Dull(ovsrcu_quiesce_start(t)) /\ Dull(ovsrcu_synchronize(t))
  <2>1. Dull(ovsrcu_quiesce_start(t))
    BY Zenon, <1>1, <1>3, <1>4, DullConcat DEF ovsrcu_quiesce_start
  <2>2. Dull(<<"read_target">>) /\ Dull(<<"read_cur", "scan">>)
    BY DEF Dull, Marks, Leads, Takes, Steps
  <2> QED
    BY Zenon, <1>1, <2>1, <2>2, DullConcat DEF ovsrcu_synchronize
<1> QED
  BY Zenon, <1>1, <1>2, <1>3, <1>4, <1>6, <1>7

(* poll_block() with one dull step in it.                                  *)
LEMMA DullPoll ==
  ASSUME NEW t \in Thread, NEW steps, Dull(steps)
  PROVE  Dull(Poll(t, steps))
<1>1. Dull((ovsrcu_quiesce_start(t) \o steps) \o ovsrcu_quiesce_end)
  BY Zenon, DullLists, DullConcat DEF ovsrcu_quiesce_end
<1> QED
  BY Zenon, <1>1, DullLists DEF Poll

(* Lists with some marks, one after the other.                             *)
LEMMA OnlyConcat ==
  ASSUME NEW A, NEW p, NEW q, Only(A, p), Only(A, q)
  PROVE  Only(A, p \o q)
<1>1. p \in Seq(Steps) /\ q \in Seq(Steps)
  BY DEF Only
<1> QED
  BY <1>1, ConcatList DEF Only

-----------------------------------------------------------------------------
(* Queues of callbacks.                                                    *)

(* q has the callbacks of t from number lo + 1 to number hi, in order.     *)
Complete(q, t, lo, hi) == lo <= hi /\ Numbers(q, t) = lo + 1 .. hi /\ InOrder(q, t)

(* The numbers of the callbacks of ovsrcu_barrier().                       *)
Bars(q, t) ==
  {q[i].n : i \in {j \in DOMAIN q : q[j].thread = t /\ q[j].kind = "barrier"}}

(* One queue after the other.                                              *)
LEMMA QueueConcat ==
  ASSUME NEW p \in Seq(Callback), NEW q \in Seq(Callback), NEW t
  PROVE  /\ Numbers(p \o q, t) = Numbers(p, t) \cup Numbers(q, t)
         /\ Bars(p \o q, t) = Bars(p, t) \cup Bars(q, t)
         /\ InOrder(p \o q, t) <=>
              /\ InOrder(p, t) /\ InOrder(q, t)
              /\ \A a \in Numbers(p, t), b \in Numbers(q, t) : a < b
<1> DEFINE r == p \o q
<1>1. /\ Len(p) \in Nat /\ Len(q) \in Nat
      /\ DOMAIN p = 1 .. Len(p) /\ DOMAIN q = 1 .. Len(q)
      /\ DOMAIN r = 1 .. Len(p) + Len(q)
      /\ \A i \in 1 .. Len(p) : r[i] = p[i]
      /\ \A i \in Len(p) + 1 .. Len(p) + Len(q) : r[i] = q[i - Len(p)]
  BY ConcatList
<1> HIDE DEF r
<1>2. ASSUME NEW i \in DOMAIN p PROVE i \in DOMAIN r /\ r[i] = p[i]
  BY <1>1
<1>3. ASSUME NEW i \in DOMAIN q PROVE Len(p) + i \in DOMAIN r /\ r[Len(p) + i] = q[i]
  BY <1>1
<1>4. ASSUME NEW i \in DOMAIN r
      PROVE  \/ i \in DOMAIN p /\ r[i] = p[i]
             \/ i - Len(p) \in DOMAIN q /\ r[i] = q[i - Len(p)] /\ i > Len(p)
  <2>1. i \in 1 .. Len(p) \/ i \in Len(p) + 1 .. Len(p) + Len(q)
    BY <1>1
  <2> QED
    BY <1>1, <2>1
<1>5. Numbers(r, t) = Numbers(p, t) \cup Numbers(q, t)
  <2>1. Numbers(r, t) \subseteq Numbers(p, t) \cup Numbers(q, t)
    BY Zenon, <1>4 DEF Numbers
  <2>2. Numbers(p, t) \subseteq Numbers(r, t) /\ Numbers(q, t) \subseteq Numbers(r, t)
    BY ZenonT(30), <1>2, <1>3 DEF Numbers
  <2> QED
    BY Zenon, <2>1, <2>2
<1>6. Bars(r, t) = Bars(p, t) \cup Bars(q, t)
  <2>1. Bars(r, t) \subseteq Bars(p, t) \cup Bars(q, t)
    BY Zenon, <1>4 DEF Bars
  <2>2. Bars(p, t) \subseteq Bars(r, t) /\ Bars(q, t) \subseteq Bars(r, t)
    BY ZenonT(30), <1>2, <1>3 DEF Bars
  <2> QED
    BY Zenon, <2>1, <2>2
<1>7. ASSUME InOrder(r, t)
      PROVE  /\ InOrder(p, t) /\ InOrder(q, t)
             /\ \A a \in Numbers(p, t), b \in Numbers(q, t) : a < b
  <2>1. InOrder(p, t)
    BY Zenon, <1>2, <1>7 DEF InOrder
  <2>2. InOrder(q, t)
    <3>1. \A i, j \in DOMAIN q : i < j => Len(p) + i < Len(p) + j
      BY <1>1
    <3> QED
      BY Zenon, <1>3, <1>7, <3>1 DEF InOrder
  <2>3. ASSUME NEW a \in Numbers(p, t), NEW b \in Numbers(q, t) PROVE a < b
    <3>1. PICK i \in DOMAIN p : p[i].thread = t /\ p[i].n = a
      BY Zenon DEF Numbers
    <3>2. PICK j \in DOMAIN q : q[j].thread = t /\ q[j].n = b
      BY Zenon DEF Numbers
    <3>3. i < Len(p) + j
      BY <1>1
    <3> QED
      BY Zenon, <1>2, <1>3, <1>7, <3>1, <3>2, <3>3 DEF InOrder
  <2> QED
    BY Zenon, <2>1, <2>2, <2>3
<1>8. ASSUME InOrder(p, t), InOrder(q, t),
             \A a \in Numbers(p, t), b \in Numbers(q, t) : a < b
      PROVE  InOrder(r, t)
  <2> SUFFICES ASSUME NEW i \in DOMAIN r, NEW j \in DOMAIN r, i < j,
                      r[i].thread = t, r[j].thread = t
               PROVE  r[i].n < r[j].n
    BY Zenon DEF InOrder
  <2>1. CASE i \in DOMAIN p /\ r[i] = p[i] /\ j \in DOMAIN p /\ r[j] = p[j]
    BY Zenon, <1>8, <2>1 DEF InOrder
  <2>2. CASE /\ i \in DOMAIN p /\ r[i] = p[i]
             /\ j - Len(p) \in DOMAIN q /\ r[j] = q[j - Len(p)]
    BY Zenon, <1>8, <2>2 DEF Numbers
  <2>3. CASE /\ i - Len(p) \in DOMAIN q /\ r[i] = q[i - Len(p)]
             /\ j - Len(p) \in DOMAIN q /\ r[j] = q[j - Len(p)]
    <3>1. i - Len(p) < j - Len(p)
      BY <1>1
    <3> QED
      BY Zenon, <1>8, <2>3, <3>1 DEF InOrder
  <2>4. CASE i > Len(p) /\ j \in DOMAIN p
    BY <1>1, <2>4
  <2> QED
    BY Zenon, <1>4, <2>1, <2>2, <2>3, <2>4
<1> QED
  BY Zenon, <1>5, <1>6, <1>7, <1>8 DEF r

(* The queues with no callback and with one.                               *)
LEMMA QueueOne ==
  ASSUME NEW t, NEW cb
  PROVE  /\ Numbers(<<>>, t) = {} /\ Bars(<<>>, t) = {} /\ InOrder(<<>>, t)
         /\ Numbers(<<cb>>, t) = IF cb.thread = t THEN {cb.n} ELSE {}
         /\ Bars(<<cb>>, t) = IF cb.thread = t /\ cb.kind = "barrier" THEN {cb.n} ELSE {}
         /\ InOrder(<<cb>>, t)
BY DEF Numbers, Bars, InOrder

(* A queue without callbacks of t.                                         *)
LEMMA QueueForeign ==
  ASSUME NEW t, NEW q, \A i \in DOMAIN q : q[i].thread # t
  PROVE  Numbers(q, t) = {} /\ Bars(q, t) = {} /\ InOrder(q, t)
BY Zenon DEF Numbers, Bars, InOrder

(* Concatenation, again.                                                   *)
LEMMA QueueAssociates ==
  ASSUME NEW p \in Seq(Callback), NEW q \in Seq(Callback), NEW s \in Seq(Callback)
  PROVE  (p \o q) \o s = p \o (q \o s)
OBVIOUS

(* The empty queue in it.                                                  *)
LEMMA QueueEmpty ==
  ASSUME NEW p \in Seq(Callback)
  PROVE  <<>> \o p = p /\ p \o <<>> = p
OBVIOUS

(* The first callback and the others, and one more callback.               *)
LEMMA QueueEnds ==
  ASSUME NEW p \in Seq(Callback)
  PROVE  /\ \A cb \in Callback : Append(p, cb) = p \o <<cb>> /\ <<cb>> \in Seq(Callback)
         /\ p # <<>> => /\ p = <<Head(p)>> \o Tail(p) /\ Head(p) \in Callback
                        /\ Tail(p) \in Seq(Callback)
OBVIOUS

(* Callbacks of other threads in the middle of a queue.                    *)
LEMMA QueueMiddle ==
  ASSUME NEW p \in Seq(Callback), NEW s \in Seq(Callback), NEW r \in Seq(Callback),
         NEW t, \A i \in DOMAIN s : s[i].thread # t
  PROVE  /\ Numbers((p \o s) \o r, t) = Numbers(p \o r, t)
         /\ Bars((p \o s) \o r, t) = Bars(p \o r, t)
         /\ InOrder(p \o r, t) => InOrder((p \o s) \o r, t)
<1>1. Numbers(s, t) = {} /\ Bars(s, t) = {} /\ InOrder(s, t)
  BY Zenon, QueueForeign
<1>2. p \o s \in Seq(Callback)
  BY ConcatList
<1>3. Numbers(p \o s, t) = Numbers(p, t) /\ Bars(p \o s, t) = Bars(p, t)
  <2>1. /\ Numbers(p \o s, t) = Numbers(p, t) \cup Numbers(s, t)
        /\ Bars(p \o s, t) = Bars(p, t) \cup Bars(s, t)
    BY QueueConcat
  <2> QED
    BY <1>1, <2>1
<1>4. InOrder(p, t) => InOrder(p \o s, t)
  <2>1. \A a \in Numbers(p, t), b \in Numbers(s, t) : a < b
    BY <1>1
  <2> QED
    BY Zenon, <1>1, <2>1, QueueConcat
<1>5. /\ Numbers((p \o s) \o r, t) = Numbers(p \o s, t) \cup Numbers(r, t)
      /\ Bars((p \o s) \o r, t) = Bars(p \o s, t) \cup Bars(r, t)
      /\ InOrder((p \o s) \o r, t) <=>
           /\ InOrder(p \o s, t) /\ InOrder(r, t)
           /\ \A a \in Numbers(p \o s, t), b \in Numbers(r, t) : a < b
  BY Zenon, <1>2, QueueConcat
<1>6. /\ Numbers(p \o r, t) = Numbers(p, t) \cup Numbers(r, t)
      /\ Bars(p \o r, t) = Bars(p, t) \cup Bars(r, t)
      /\ InOrder(p \o r, t) <=>
           /\ InOrder(p, t) /\ InOrder(r, t)
           /\ \A a \in Numbers(p, t), b \in Numbers(r, t) : a < b
  BY Zenon, QueueConcat
<1> QED
  BY Zenon, <1>3, <1>4, <1>5, <1>6

(* The first callback of a complete queue.                                 *)
LEMMA QueueHead ==
  ASSUME NEW cb \in Callback, NEW r \in Seq(Callback), NEW t, NEW lo \in Nat, NEW hi \in Nat,
         Complete(<<cb>> \o r, t, lo, hi)
  PROVE  /\ cb.thread = t => cb.n = lo + 1 /\ Complete(r, t, lo + 1, hi)
         /\ cb.thread # t => Complete(r, t, lo, hi)
         /\ Bars(<<cb>> \o r, t) = Bars(<<cb>>, t) \cup Bars(r, t)
<1>1. <<cb>> \in Seq(Callback)
  OBVIOUS
<1>2. /\ Numbers(<<cb>>, t) = IF cb.thread = t THEN {cb.n} ELSE {}
      /\ InOrder(<<cb>>, t)
  BY Zenon, QueueOne
<1>3. /\ Numbers(<<cb>> \o r, t) = Numbers(<<cb>>, t) \cup Numbers(r, t)
      /\ Bars(<<cb>> \o r, t) = Bars(<<cb>>, t) \cup Bars(r, t)
      /\ InOrder(<<cb>> \o r, t) => InOrder(r, t)
      /\ InOrder(<<cb>> \o r, t) =>
           \A a \in Numbers(<<cb>>, t), b \in Numbers(r, t) : a < b
  BY Zenon, <1>1, QueueConcat
<1>4. lo <= hi /\ Numbers(<<cb>> \o r, t) = lo + 1 .. hi /\ InOrder(<<cb>> \o r, t)
  BY Zenon DEF Complete
<1>5. CASE cb.thread = t
  <2> DEFINE N == Numbers(r, t)
  <2>1. {cb.n} \cup N = lo + 1 .. hi /\ InOrder(r, t) /\ \A b \in N : cb.n < b
    BY Zenon, <1>2, <1>3, <1>4, <1>5
  <2>2. cb.n \in lo + 1 .. hi /\ N \subseteq lo + 1 .. hi
    BY Zenon, <2>1
  <2> HIDE DEF N
  <2>3. lo + 1 \in {cb.n} \cup N
    BY <2>1, <2>2
  <2>4. cb.n = lo + 1
    BY <2>1, <2>2, <2>3
  <2>5. \A x : x \in N => x \in lo + 1 + 1 .. hi
    BY <2>1, <2>2, <2>4
  <2>6. ASSUME NEW x \in lo + 1 + 1 .. hi PROVE x \in N
    <3>1. x \in lo + 1 .. hi /\ x # cb.n
      BY <2>4
    <3> QED
      BY Zenon, <2>1, <3>1
  <2>7. N = lo + 1 + 1 .. hi
    BY Zenon, <2>5, <2>6
  <2>8. lo + 1 <= hi
    BY <2>2
  <2> QED
    BY Zenon, <1>3, <1>5, <2>1, <2>4, <2>7, <2>8 DEF Complete, N
<1>6. CASE cb.thread # t
  <2>1. Numbers(<<cb>>, t) = {}
    BY Zenon, <1>2, <1>6
  <2>2. Numbers(r, t) = lo + 1 .. hi
    BY Zenon, <1>3, <1>4, <2>1
  <2> QED
    BY Zenon, <1>3, <1>4, <1>6, <2>2 DEF Complete
<1> QED
  BY Zenon, <1>3, <1>5, <1>6

(* One more callback after the last of a complete queue.                   *)
LEMMA QueueAppend ==
  ASSUME NEW cb \in Callback, NEW q \in Seq(Callback), NEW t, NEW lo \in Nat, NEW hi \in Nat,
         Complete(q, t, lo, hi), cb.thread = t => cb.n = hi + 1
  PROVE  /\ Complete(q \o <<cb>>, t, lo, IF cb.thread = t THEN hi + 1 ELSE hi)
         /\ Bars(q \o <<cb>>, t) = Bars(q, t) \cup Bars(<<cb>>, t)
<1>1. <<cb>> \in Seq(Callback)
  OBVIOUS
<1>2. /\ Numbers(<<cb>>, t) = IF cb.thread = t THEN {cb.n} ELSE {}
      /\ InOrder(<<cb>>, t)
  BY Zenon, QueueOne
<1>3. /\ Numbers(q \o <<cb>>, t) = Numbers(q, t) \cup Numbers(<<cb>>, t)
      /\ Bars(q \o <<cb>>, t) = Bars(q, t) \cup Bars(<<cb>>, t)
      /\ InOrder(q \o <<cb>>, t) <=>
           /\ InOrder(q, t) /\ InOrder(<<cb>>, t)
           /\ \A a \in Numbers(q, t), b \in Numbers(<<cb>>, t) : a < b
  BY Zenon, <1>1, QueueConcat
<1>4. lo <= hi /\ Numbers(q, t) = lo + 1 .. hi /\ InOrder(q, t)
  BY Zenon DEF Complete
<1>5. CASE cb.thread = t
  <2>1. \A a \in lo + 1 .. hi, b \in {hi + 1} : a < b
    OBVIOUS
  <2>2. (lo + 1 .. hi) \cup {hi + 1} = lo + 1 .. hi + 1 /\ lo <= hi + 1
    BY <1>4
  <2>3. Numbers(<<cb>>, t) = {hi + 1}
    BY Zenon, <1>2, <1>5
  <2>4. InOrder(q \o <<cb>>, t)
    BY Zenon, <1>2, <1>3, <1>4, <2>1, <2>3
  <2>5. Numbers(q \o <<cb>>, t) = lo + 1 .. hi + 1
    BY Zenon, <1>3, <1>4, <2>2, <2>3
  <2> QED
    BY Zenon, <1>3, <1>5, <2>2, <2>4, <2>5 DEF Complete
<1>6. CASE cb.thread # t
  BY Zenon, <1>2, <1>3, <1>4, <1>6 DEF Complete
<1> QED
  BY Zenon, <1>3, <1>5, <1>6
=============================================================================
