------------------------------- MODULE OvsRcu -------------------------------
(* lib/ovs-rcu.c.                                                          *)
(*                                                                         *)
(* Each thread has a list of the steps that are left of the functions it   *)
(* is in the middle of: a step is one access to what threads share.  What  *)
(* a mutex protects is one step.  Memory is sequentially consistent.       *)
(* seq_wait() and poll_block() are modelled by what lib/seq.h promises:    *)
(* the thread sleeps while the seq has the value it was given.             *)
EXTENDS Integers, Sequences, FiniteSets

CONSTANTS
  Worker,    \* the threads of the program,
  Main,      \* one of which starts the others
  Urcu,      \* the thread that calls the callbacks
  Obj,       \* the objects that may be in RCU-protected memory
  NONE,
  Programs   \* bound: the calls that each thread makes, in each program considered

Thread == Worker \cup {Urcu}

ASSUME ThreadAssumption == Main \in Worker /\ Urcu \notin Worker
ASSUME ObjAssumption == Obj # {} /\ NONE \notin Obj /\ NONE \notin Thread

(* The calls of ovs-rcu.h, and ovs_thread_create().                        *)
Calls == {"get", "change", "change_again", "delete", "quiesce", "try_quiesce",
          "quiesce_start", "quiesce_end", "barrier", "thread_create", "exit"}

ASSUME ProgramsAssumption == Programs \subseteq [Worker -> Seq(Calls)]

VARIABLES
  multithreaded,      \* ovs-thread.c: a second thread was created
  created,            \* the "once" in ovsrcu_quiesced()
  postpone_exit,      \* latch
  arrived,            \* threads that reached postpone_barrier
  rounds,             \* "i" in ovsrcu_exit()
  (* seq.c *)
  global_seqno,       \* seq->value.  One counter for each seq stands for
  flushed_cbsets_seq, \* the shared seq_next: only values of one seq are compared
  seq_mutex,          \* who holds it between two steps
  (* ovs-rcu.c *)
  ovsrcu_threads,
  seqno,              \* perthread->seqno
  cbset,              \* perthread->cbset, <<>> for NULL
  flushed_cbsets,     \* the callbacks in the list of sets, in order
  batch,              \* "cbsets" in ovsrcu_call_postponed()
  target,             \* "target_seqno" in ovsrcu_synchronize()
  cur,                \* the value that a thread read and is going to wait on
  fired,              \* whether the seq of a thread's ovsrcu_barrier() changed
  (* the program *)
  todo,               \* steps left, by thread
  calls,              \* the calls that are left to make, by thread
  ptr, ref,           \* as in module Rcu
  mine,               \* what a thread frees after ovsrcu_synchronize(), or NONE
  (* history *)
  posted, called,     \* how many callbacks of each thread
  owed                \* what was posted when a thread called ovsrcu_barrier()

exitVars == <<multithreaded, created, postpone_exit, arrived, rounds>>
seqVars  == <<global_seqno, flushed_cbsets_seq, seq_mutex>>
cbVars   == <<cbset, flushed_cbsets, batch, posted, called, fired, owed>>
syncVars == <<target, cur>>
userVars == <<ptr, ref, mine, calls>>
vars == <<exitVars, seqVars, ovsrcu_threads, seqno, cbVars, syncVars, todo,
          userVars>>

-----------------------------------------------------------------------------
(* The steps of each function.  A thread that was not created is "unborn", *)
(* and one that ended is "gone".                                           *)

Steps == {"read_seqno", "insert", "push", "flushed", "remove", "global", "quiesced",
          "read_target", "read_cur", "scan", "wait_global", "pop_all", "call", "loop",
          "read_flushed", "poll_flushed", "wait_flushed", "barrier_post",
          "barrier_poll", "barrier_wait", "barrier_check", "set_exit", "arrive",
          "gather", "exit_round", "delete", "create", "unborn", "gone"}

ovsrcu_perthread_get == <<"read_seqno", "insert">>
ovsrcu_quiesce_end   == ovsrcu_perthread_get
UnregisterWithoutFlush == <<"remove", "global">>
ovsrcu_unregister__  == <<"push", "flushed", "remove", "global">>

(* Nothing is left to do once the thread that calls callbacks was created. *)
ovsrcu_quiesced == IF created THEN <<>> ELSE <<"quiesced">>

ovsrcu_quiesce == <<"read_seqno", "push", "flushed", "global">> \o ovsrcu_quiesced

ovsrcu_quiesce_start(t) ==
  (IF t \in ovsrcu_threads THEN ovsrcu_unregister__ ELSE <<>>) \o ovsrcu_quiesced

SynchronizeWithoutQuiescing(t) ==
  IF ~multithreaded THEN <<>> ELSE <<"read_target", "read_cur", "scan">>

ovsrcu_synchronize(t) ==
  IF ~multithreaded THEN <<>>
  ELSE <<"read_target">> \o ovsrcu_quiesce_start(t) \o <<"read_cur", "scan">>

At(t, step) == todo[t] # <<>> /\ Head(todo[t]) = step

(* t goes on with steps, and then with what came after the current step.   *)
Then(t, steps) == todo' = [todo EXCEPT ![t] = steps \o Tail(@)]

-----------------------------------------------------------------------------
(* Quiescing.                                                              *)

(* "perthread->seqno = seq_read(global_seqno)"                             *)
ReadSeqno(t) ==
  /\ At(t, "read_seqno")
  /\ seqno' = [seqno EXCEPT ![t] = global_seqno]
  /\ Then(t, <<>>)
  /\ UNCHANGED <<exitVars, seqVars, ovsrcu_threads, cbVars, syncVars, userVars>>

Insert(t) ==
  /\ At(t, "insert")
  /\ ovsrcu_threads' = ovsrcu_threads \cup {t}
  /\ Then(t, <<>>)
  /\ UNCHANGED <<exitVars, seqVars, seqno, cbVars, syncVars, userVars>>

PushCbsetAgain(t) ==
  /\ At(t, "push")
  /\ flushed_cbsets' = flushed_cbsets \o cbset[t]
  /\ todo' = [todo EXCEPT ![t] = IF cbset[t] = <<>> THEN Tail(Tail(@)) ELSE Tail(@)]
  /\ UNCHANGED <<exitVars, seqVars, ovsrcu_threads, seqno, cbset, batch, posted, called,
                 fired, owed, syncVars, userVars>>

PushCbsetFront(t) ==
  /\ At(t, "push")
  /\ flushed_cbsets' = cbset[t] \o flushed_cbsets
  /\ cbset' = [cbset EXCEPT ![t] = <<>>]
  /\ todo' = [todo EXCEPT ![t] = IF cbset[t] = <<>> THEN Tail(Tail(@)) ELSE Tail(@)]
  /\ UNCHANGED <<exitVars, seqVars, ovsrcu_threads, seqno, batch, posted, called,
                 fired, owed, syncVars, userVars>>

(* ovsrcu_flush_cbset__(): its first half.  Nothing to flush, no second    *)
(* half.                                                                   *)
PushCbset(t) ==
  /\ At(t, "push")
  /\ flushed_cbsets' = flushed_cbsets \o cbset[t]
  /\ cbset' = [cbset EXCEPT ![t] = <<>>]
  /\ todo' = [todo EXCEPT ![t] = IF cbset[t] = <<>> THEN Tail(Tail(@)) ELSE Tail(@)]
  /\ UNCHANGED <<exitVars, seqVars, ovsrcu_threads, seqno, batch, posted, called,
                 fired, owed, syncVars, userVars>>

ChangeFlushed(t) ==
  /\ At(t, "flushed")
  /\ seq_mutex \in {NONE, t}
  /\ flushed_cbsets_seq' = flushed_cbsets_seq + 1
  /\ Then(t, <<>>)
  /\ UNCHANGED <<exitVars, global_seqno, seq_mutex, ovsrcu_threads, seqno, cbVars,
                 syncVars, userVars>>

Remove(t) ==
  /\ At(t, "remove")
  /\ ovsrcu_threads' = ovsrcu_threads \ {t}
  /\ seqno' = [seqno EXCEPT ![t] = 0]
  /\ Then(t, <<>>)
  /\ UNCHANGED <<exitVars, seqVars, cbVars, syncVars, userVars>>

(* "seq_change(global_seqno)", and seq_unlock() in ovsrcu_try_quiesce().   *)
ChangeGlobal(t) ==
  /\ At(t, "global")
  /\ seq_mutex \in {NONE, t}
  /\ global_seqno' = global_seqno + 1
  /\ seq_mutex' = NONE
  /\ Then(t, <<>>)
  /\ UNCHANGED <<exitVars, flushed_cbsets_seq, ovsrcu_threads, seqno, cbVars,
                 syncVars, userVars>>

(* ovsrcu_quiesced(), in which the first thread creates the one that calls *)
(* callbacks.  It starts in ovsthread_wrapper().                           *)
Quiesced(t) ==
  /\ At(t, "quiesced")
  /\ created' = multithreaded
  /\ todo' = [todo EXCEPT
       ![t] = IF multithreaded THEN Tail(@) ELSE <<"pop_all">> \o Tail(@),
       ![Urcu] = IF created' /\ ~created THEN ovsrcu_quiesce_end \o <<"loop">> ELSE @]
  /\ UNCHANGED <<multithreaded, postpone_exit, arrived, rounds, seqVars,
                 ovsrcu_threads, seqno, cbVars, syncVars, userVars>>

-----------------------------------------------------------------------------
(* ovsrcu_synchronize()                                                    *)

ReadTargetEarly(t) ==
  /\ At(t, "read_target")
  /\ target' = [target EXCEPT ![t] = global_seqno - 1]
  /\ Then(t, <<>>)
  /\ UNCHANGED <<exitVars, seqVars, ovsrcu_threads, seqno, cbVars, cur, userVars>>

ReadTarget(t) ==
  /\ At(t, "read_target")
  /\ target' = [target EXCEPT ![t] = global_seqno]
  /\ Then(t, <<>>)
  /\ UNCHANGED <<exitVars, seqVars, ovsrcu_threads, seqno, cbVars, cur, userVars>>

ReadCur(t) ==
  /\ At(t, "read_cur")
  /\ cur' = [cur EXCEPT ![t] = global_seqno]
  /\ Then(t, <<>>)
  /\ UNCHANGED <<exitVars, seqVars, ovsrcu_threads, seqno, cbVars, target, userVars>>

QuiescentSoon(t) == \A u \in ovsrcu_threads : seqno[u] >= target[t]

(* The loop over ovsrcu_threads.                                           *)
Quiescent(t) == \A u \in ovsrcu_threads : seqno[u] > target[t]

Scan(t) ==
  /\ At(t, "scan")
  /\ Then(t, IF Quiescent(t) THEN ovsrcu_quiesce_end
             ELSE <<"wait_global">>)
  /\ target' = IF Quiescent(t) THEN [target EXCEPT ![t] = 0] ELSE target
  /\ cur' = IF Quiescent(t) THEN [cur EXCEPT ![t] = 0] ELSE cur
  /\ UNCHANGED <<exitVars, seqVars, ovsrcu_threads, seqno, cbVars, userVars>>

WaitGlobal(t) ==
  /\ At(t, "wait_global")
  /\ cur[t] # global_seqno
  /\ Then(t, <<"read_cur", "scan">>)
  /\ UNCHANGED <<exitVars, seqVars, ovsrcu_threads, seqno, cbVars, syncVars, userVars>>

(* poll_timer_wait_until(start + warning_threshold)                        *)
Timer(t) ==
  /\ At(t, "wait_global")
  /\ Then(t, <<"read_cur", "scan">>)
  /\ UNCHANGED <<exitVars, seqVars, ovsrcu_threads, seqno, cbVars, syncVars, userVars>>

-----------------------------------------------------------------------------
(* Callbacks.                                                              *)

(* A callback frees obj, "again" only after another grace period, or it is *)
(* ovsrcu_barrier_func().                                                  *)
Callback == [thread : Thread, n : Nat, kind : {"free", "again", "barrier"},
             obj : Obj \cup {NONE}]

(* ovsrcu_postpone__(), for a thread that is in ovsrcu_threads.            *)
ovsrcu_postpone__(t, kind, obj) ==
  /\ cbset' = [cbset EXCEPT ![t] =
                 Append(@, [thread |-> t, n |-> posted[t] + 1, kind |-> kind,
                            obj |-> obj])]
  /\ posted' = [posted EXCEPT ![t] = @ + 1]

(* The first half of ovsrcu_call_postponed().  If there is nothing to call *)
(* the loop in ovsrcu_postpone_thread() goes to sleep, and the one in      *)
(* ovsrcu_exit() ends: its next iteration is dropped.                      *)
PopAll(t) ==
  /\ At(t, "pop_all")
  /\ batch' = [batch EXCEPT ![t] = flushed_cbsets]
  /\ flushed_cbsets' = <<>>
  /\ todo' = [todo EXCEPT ![t] =
       IF flushed_cbsets # <<>> THEN ovsrcu_synchronize(t) \o <<"call">> \o Tail(@)
       ELSE IF t = Urcu THEN <<"poll_flushed">> \o Tail(@)
       ELSE IF Tail(@) # <<>> /\ Head(Tail(@)) = "exit_round" THEN Tail(Tail(@))
       ELSE Tail(@)]
  /\ UNCHANGED <<exitVars, seqVars, ovsrcu_threads, seqno, cbset, posted, called,
                 fired, owed, syncVars, userVars>>

(* "cb->function(cb->aux)"                                                 *)
Call(t) ==
  LET cb == Head(batch[t])
  IN  /\ At(t, "call") /\ batch[t] # <<>>
      /\ cb.kind = "again" => t \in ovsrcu_threads
      /\ cb.kind = "barrier" => seq_mutex = NONE
      /\ batch' = [batch EXCEPT ![t] = Tail(@)]
      /\ called' = [called EXCEPT ![cb.thread] = @ + 1]
      /\ IF cb.kind = "again" THEN ovsrcu_postpone__(t, "free", cb.obj)
                              ELSE UNCHANGED <<cbset, posted>>
      /\ IF cb.kind = "barrier"
         THEN fired' = [fired EXCEPT ![cb.thread] = TRUE]
         ELSE UNCHANGED fired
      /\ UNCHANGED <<exitVars, seqVars, ovsrcu_threads, seqno, flushed_cbsets, owed,
                     syncVars, todo, userVars>>

(* A callback that postpones in a thread that is quiescent.                *)
CallEnter(t) ==
  /\ At(t, "call") /\ batch[t] # <<>>
  /\ Head(batch[t]).kind = "again" /\ t \notin ovsrcu_threads
  /\ todo' = [todo EXCEPT ![t] = ovsrcu_perthread_get \o @]
  /\ UNCHANGED <<exitVars, seqVars, ovsrcu_threads, seqno, cbVars, syncVars, userVars>>

CallDone(t) ==
  /\ At(t, "call") /\ batch[t] = <<>>
  /\ Then(t, <<>>)
  /\ UNCHANGED <<exitVars, seqVars, ovsrcu_threads, seqno, cbVars, syncVars, userVars>>

(* ovsrcu_postpone_thread()                                                *)
Loop ==
  /\ At(Urcu, "loop")
  /\ Then(Urcu, IF postpone_exit THEN <<"arrive">> \o ovsrcu_unregister__ \o <<"gone">>
                ELSE <<"read_flushed", "pop_all", "loop">>)
  /\ UNCHANGED <<exitVars, seqVars, ovsrcu_threads, seqno, cbVars, syncVars, userVars>>

ReadFlushed ==
  /\ At(Urcu, "read_flushed")
  /\ cur' = [cur EXCEPT ![Urcu] = flushed_cbsets_seq]
  /\ Then(Urcu, <<>>)
  /\ UNCHANGED <<exitVars, seqVars, ovsrcu_threads, seqno, cbVars, target, userVars>>

(* time_poll() quiesces, for as long as the thread sleeps if it does.      *)
Poll(t, steps) ==
  IF steps = <<>> THEN ovsrcu_quiesce
  ELSE ovsrcu_quiesce_start(t) \o steps \o ovsrcu_quiesce_end

PollFlushed ==
  /\ At(Urcu, "poll_flushed")
  /\ seq_mutex = NONE
  /\ Then(Urcu, Poll(Urcu, IF cur[Urcu] # flushed_cbsets_seq THEN <<>>
                           ELSE <<"wait_flushed">>))
  /\ UNCHANGED <<exitVars, seqVars, ovsrcu_threads, seqno, cbVars, syncVars, userVars>>

WaitFlushed ==
  /\ At(Urcu, "wait_flushed")
  /\ cur[Urcu] # flushed_cbsets_seq \/ postpone_exit
  /\ cur' = [cur EXCEPT ![Urcu] = 0]
  /\ Then(Urcu, <<>>)
  /\ UNCHANGED <<exitVars, seqVars, ovsrcu_threads, seqno, cbVars, target, userVars>>

-----------------------------------------------------------------------------
(* ovsrcu_barrier()                                                        *)

ovsrcu_barrier(t) ==
  ovsrcu_synchronize(t)
    \o <<"barrier_post", "barrier_poll", "barrier_check">>

BarrierPost(t) ==
  /\ At(t, "barrier_post")
  /\ ovsrcu_postpone__(t, "barrier", NONE)
  /\ Then(t, <<>>)
  /\ UNCHANGED <<exitVars, seqVars, ovsrcu_threads, seqno, flushed_cbsets, batch,
                 called, fired, owed, syncVars, userVars>>

BarrierPoll(t) ==
  /\ At(t, "barrier_poll")
  /\ seq_mutex = NONE
  /\ Then(t, Poll(t, IF fired[t] THEN <<>> ELSE <<"barrier_wait">>))
  /\ UNCHANGED <<exitVars, seqVars, ovsrcu_threads, seqno, cbVars, syncVars, userVars>>

BarrierWait(t) ==
  /\ At(t, "barrier_wait")
  /\ fired[t]
  /\ Then(t, <<>>)
  /\ UNCHANGED <<exitVars, seqVars, ovsrcu_threads, seqno, cbVars, syncVars, userVars>>

BarrierCheck(t) ==
  /\ At(t, "barrier_check")
  /\ fired[t]
  /\ Then(t, <<>>)
  /\ owed' = [owed EXCEPT ![t] = [u \in Thread |-> 0]]
  /\ fired' = [fired EXCEPT ![t] = FALSE]
  /\ UNCHANGED <<exitVars, seqVars, ovsrcu_threads, seqno, cbset, flushed_cbsets, batch,
                 posted, called, syncVars, userVars>>

-----------------------------------------------------------------------------
(* ovsrcu_exit()                                                           *)

ovsrcu_exit ==
  (IF multithreaded THEN ovsrcu_quiesced \o <<"set_exit", "arrive">> ELSE <<>>)
    \o <<"exit_round">>

SetExit(t) ==
  /\ At(t, "set_exit")
  /\ postpone_exit' = TRUE
  /\ Then(t, <<>>)
  /\ UNCHANGED <<multithreaded, created, arrived, rounds, seqVars, ovsrcu_threads,
                 seqno, cbVars, syncVars, userVars>>

(* ovs_barrier_block(&postpone_barrier): who comes first looks whether the *)
(* other has come, ...                                                     *)
Arrive(t) ==
  /\ At(t, "arrive")
  /\ arrived' = arrived \cup {t}
  /\ Then(t, IF arrived # {} THEN <<>> ELSE <<"gather">>)
  /\ UNCHANGED <<multithreaded, created, postpone_exit, rounds, seqVars,
                 ovsrcu_threads, seqno, cbVars, syncVars, userVars>>

(* ... and if not, waits in poll_block(), which returns at once if it has  *)
(* come since.                                                             *)
Block(t) ==
  /\ At(t, "gather")
  /\ t \in ovsrcu_threads
  /\ Then(t, Poll(t, IF arrived = {Main, Urcu} THEN <<>> ELSE <<"gather">>))
  /\ UNCHANGED <<exitVars, seqVars, ovsrcu_threads, seqno, cbVars, syncVars, userVars>>

Gather(t) ==
  /\ At(t, "gather")
  /\ arrived = {Main, Urcu}
  /\ Then(t, <<>>)
  /\ UNCHANGED <<exitVars, seqVars, ovsrcu_threads, seqno, cbVars, syncVars, userVars>>

(* One iteration of the loop, of which there are at most 8.                *)
ExitRound(t) ==
  /\ At(t, "exit_round")
  /\ rounds' = rounds + 1
  /\ Then(t, IF rounds < 8 THEN ovsrcu_synchronize(t) \o <<"pop_all", "exit_round">>
             ELSE <<>>)
  /\ UNCHANGED <<multithreaded, created, postpone_exit, arrived, seqVars,
                 ovsrcu_threads, seqno, cbVars, syncVars, userVars>>

-----------------------------------------------------------------------------
(* What is in RCU-protected memory and was replaced: each object that a    *)
(* callback is going to free, or a caller of ovsrcu_synchronize().         *)
Objs(cbs) == {cbs[i].obj : i \in DOMAIN cbs}
Retired ==
  (Objs(flushed_cbsets) \cup UNION {Objs(cbset[t]) \cup Objs(batch[t]) \cup {mine[t]} :
                                     t \in Thread}) \ {NONE}

R == INSTANCE Rcu WITH retired <- Retired

(* The allocator: it uses again what was freed, when it can.               *)
xmalloc == CHOOSE o \in R!Free : TRUE

-----------------------------------------------------------------------------
(* The calls of a thread that is not in the middle of one.                 *)

Calling(t, call) ==
  t \in Worker /\ todo[t] = <<>> /\ calls[t] # <<>> /\ Head(calls[t]) = call
Made(t) == calls' = [calls EXCEPT ![t] = Tail(@)]

(* A call in which t quiesces, so that it uses no object any more.         *)
Begin(t, call, steps) ==
  /\ Calling(t, call) /\ Made(t)
  /\ ref' = [ref EXCEPT ![t] = NONE]
  /\ todo' = [todo EXCEPT ![t] = steps]

(* ovsrcu_get()                                                            *)
Get(t) ==
  /\ Calling(t, "get") /\ Made(t)
  /\ t \in ovsrcu_threads
  /\ ref' = [ref EXCEPT ![t] = ptr]
  /\ UNCHANGED <<exitVars, seqVars, ovsrcu_threads, seqno, cbVars, syncVars, todo,
                 ptr, mine>>

(* change_flow() in ovs-rcu.h: the old object is freed by a callback.      *)
Change(t, call, kind) ==
  /\ Calling(t, call) /\ Made(t)
  /\ t \in ovsrcu_threads
  /\ R!Free # {} /\ ptr' = xmalloc
  /\ ovsrcu_postpone__(t, kind, ptr)
  /\ UNCHANGED <<exitVars, seqVars, ovsrcu_threads, seqno, flushed_cbsets, batch,
                 called, fired, owed, syncVars, todo, ref, mine>>

(* delete() in ovs-rcu.h: it is freed after ovsrcu_synchronize().          *)
Delete(t) ==
  /\ t \in ovsrcu_threads
  /\ Begin(t, "delete", ovsrcu_synchronize(t) \o <<"delete">>)
  /\ R!Free # {} /\ ptr' = xmalloc
  /\ mine' = [mine EXCEPT ![t] = ptr]
  /\ UNCHANGED <<exitVars, seqVars, ovsrcu_threads, seqno, cbVars, syncVars>>

Deleted(t) ==
  /\ At(t, "delete")
  /\ mine' = [mine EXCEPT ![t] = NONE]
  /\ Then(t, <<>>)
  /\ UNCHANGED <<exitVars, seqVars, ovsrcu_threads, seqno, cbVars, syncVars, ptr,
                 ref, calls>>

Quiesce(t) ==
  /\ t \in ovsrcu_threads
  /\ Begin(t, "quiesce", ovsrcu_quiesce)
  /\ UNCHANGED <<exitVars, seqVars, ovsrcu_threads, seqno, cbVars, syncVars, ptr, mine>>

QuiesceStart(t) ==
  /\ t \in ovsrcu_threads
  /\ Begin(t, "quiesce_start", ovsrcu_quiesce_start(t))
  /\ UNCHANGED <<exitVars, seqVars, ovsrcu_threads, seqno, cbVars, syncVars, ptr, mine>>

(* Nothing happens if t is not in a quiescent state.                       *)
QuiesceEnd(t) ==
  /\ Begin(t, "quiesce_end", IF t \in ovsrcu_threads THEN <<>> ELSE ovsrcu_quiesce_end)
  /\ UNCHANGED <<exitVars, seqVars, ovsrcu_threads, seqno, cbVars, syncVars, ptr, mine>>

(* ovsrcu_try_quiesce(), when seq_try_lock() succeeds and when not.        *)
TryQuiesce(t) ==
  /\ t \in ovsrcu_threads /\ multithreaded
  /\ seq_mutex = NONE
  /\ Begin(t, "try_quiesce", ovsrcu_quiesce)
  /\ seq_mutex' = t
  /\ UNCHANGED <<exitVars, global_seqno, flushed_cbsets_seq, ovsrcu_threads,
                 seqno, cbVars, syncVars, ptr, mine>>

TryQuiesceBusy(t) ==
  /\ Calling(t, "try_quiesce") /\ Made(t)
  /\ UNCHANGED <<exitVars, seqVars, ovsrcu_threads, seqno, cbVars, syncVars, todo, ptr,
                 ref, mine>>

Barrier(t) ==
  /\ t \in ovsrcu_threads
  /\ Begin(t, "barrier", ovsrcu_barrier(t))
  /\ fired' = [fired EXCEPT ![t] = FALSE]
  /\ owed' = [owed EXCEPT ![t] = posted]
  /\ UNCHANGED <<exitVars, seqVars, ovsrcu_threads, seqno, cbset, flushed_cbsets, batch,
                 posted, called, syncVars, ptr, mine>>

(* The first call of ovs_thread_create() makes the main thread active.     *)
ThreadCreate ==
  /\ Calling(Main, "thread_create") /\ Made(Main)
  /\ ~multithreaded
  /\ todo' = [todo EXCEPT ![Main] =
                (IF Main \in ovsrcu_threads THEN <<>> ELSE ovsrcu_quiesce_end)
                  \o <<"create">>]
  /\ UNCHANGED <<exitVars, seqVars, ovsrcu_threads, seqno, cbVars, syncVars, ptr, ref,
                 mine>>

Create ==
  /\ At(Main, "create")
  /\ multithreaded' = TRUE
  /\ todo' = [t \in Thread |-> IF t = Main THEN Tail(todo[t])
                               ELSE IF t \in Worker THEN ovsrcu_quiesce_end
                               ELSE todo[t]]
  /\ UNCHANGED <<created, postpone_exit, arrived, rounds, seqVars, ovsrcu_threads,
                 seqno, cbVars, syncVars, userVars>>

Exit ==
  /\ Begin(Main, "exit", ovsrcu_exit)
  /\ rounds' = 0
  /\ UNCHANGED <<multithreaded, created, postpone_exit, arrived, seqVars,
                 ovsrcu_threads, seqno, cbVars, syncVars, ptr, mine>>

(* The main thread goes to sleep in poll_block().  Another one ends, in    *)
(* ovsrcu_thread_exit_cb() unless it is quiescent.                         *)
Finish(t) ==
  /\ t \in Worker /\ todo[t] = <<>> /\ calls[t] = <<>>
  /\ ref' = [ref EXCEPT ![t] = NONE]
  /\ todo' = [todo EXCEPT ![t] =
       (IF t = Main THEN ovsrcu_quiesce_start(t)
        ELSE IF t \in ovsrcu_threads THEN ovsrcu_unregister__
        ELSE <<>>) \o <<"gone">>]
  /\ UNCHANGED <<exitVars, seqVars, ovsrcu_threads, seqno, cbVars, syncVars, ptr,
                 mine, calls>>

-----------------------------------------------------------------------------
Init ==
  /\ multithreaded = FALSE /\ created = FALSE
  /\ postpone_exit = FALSE /\ arrived = {} /\ rounds = 0
  /\ global_seqno = 0 /\ flushed_cbsets_seq = 0
  /\ seq_mutex = NONE
  /\ ovsrcu_threads = {}
  /\ seqno = [t \in Thread |-> 0]
  /\ cbset = [t \in Thread |-> <<>>]
  /\ flushed_cbsets = <<>>
  /\ batch = [t \in Thread |-> <<>>]
  /\ target = [t \in Thread |-> 0] /\ cur = [t \in Thread |-> 0]
  /\ fired = [t \in Thread |-> FALSE]
  /\ todo = [t \in Thread |-> IF t = Main THEN <<>> ELSE <<"unborn">>]
  /\ calls \in Programs
  /\ ptr = CHOOSE o \in Obj : TRUE
  /\ ref = [t \in Thread |-> NONE] /\ mine = [t \in Thread |-> NONE]
  /\ posted = [t \in Thread |-> 0] /\ called = [t \in Thread |-> 0]
  /\ owed = [t \in Thread |-> [u \in Thread |-> 0]]

(* What t does by itself.                                                  *)
Step(t) ==
  \/ ReadSeqno(t) \/ Insert(t) \/ PushCbset(t) \/ ChangeFlushed(t) \/ Remove(t)
  \/ ChangeGlobal(t) \/ Quiesced(t)
  \/ ReadTarget(t) \/ ReadCur(t) \/ Scan(t) \/ WaitGlobal(t)
  \/ PopAll(t) \/ Call(t) \/ CallEnter(t) \/ CallDone(t)
  \/ BarrierPost(t) \/ BarrierPoll(t) \/ BarrierWait(t) \/ BarrierCheck(t)
  \/ SetExit(t) \/ Arrive(t) \/ Block(t) \/ Gather(t) \/ ExitRound(t)
  \/ Deleted(t)
  \/ t = Urcu /\ (Loop \/ ReadFlushed \/ PollFlushed \/ WaitFlushed)
  \/ t = Main /\ Create

Program(t) ==
  \/ Get(t) \/ Delete(t) \/ Quiesce(t) \/ QuiesceStart(t) \/ QuiesceEnd(t)
  \/ TryQuiesce(t) \/ TryQuiesceBusy(t) \/ Barrier(t) \/ Finish(t)
  \/ Change(t, "change", "free") \/ Change(t, "change_again", "again")
  \/ t = Main /\ (ThreadCreate \/ Exit)

Next == \E t \in Thread : Step(t) \/ Program(t) \/ Timer(t)

Spec == Init /\ [][Next]_vars

(* Each thread goes on as long as it can.                                  *)
Fairness == \A t \in Thread : WF_vars(Step(t) \/ Program(t))

FairSpec == Spec /\ Fairness

-----------------------------------------------------------------------------
(* Properties.                                                             *)

(* The values of the variables; counters only grow from zero.              *)
TypeOK ==
  /\ multithreaded \in BOOLEAN /\ created \in BOOLEAN
  /\ postpone_exit \in BOOLEAN /\ arrived \subseteq Thread /\ rounds \in Nat
  /\ global_seqno \in Nat /\ flushed_cbsets_seq \in Nat
  /\ seq_mutex \in Thread \cup {NONE}
  /\ ovsrcu_threads \subseteq Thread
  /\ seqno \in [Thread -> Nat]
  /\ cbset \in [Thread -> Seq(Callback)]
  /\ flushed_cbsets \in Seq(Callback)
  /\ batch \in [Thread -> Seq(Callback)]
  /\ target \in [Thread -> Nat] /\ cur \in [Thread -> Nat]
  /\ fired \in [Thread -> BOOLEAN]
  /\ todo \in [Thread -> Seq(Steps)]
  /\ calls \in [Worker -> Seq(Calls)]
  /\ ptr \in Obj
  /\ ref \in [Thread -> Obj \cup {NONE}] /\ mine \in [Thread -> Obj \cup {NONE}]
  /\ posted \in [Thread -> Nat] /\ called \in [Thread -> Nat]
  /\ owed \in [Thread -> [Thread -> Nat]]

(* Callbacks and callers of ovsrcu_synchronize() free an object only when  *)
(* no thread uses it.                                                      *)
RcuSpec == R!Spec

(* The callbacks that are still to be called, those of t in the order in   *)
(* which they are going to be.  A callback has the number of its thread's  *)
(* calls of ovsrcu_postpone__().                                           *)
Queue(t) == batch[Main] \o batch[Urcu] \o flushed_cbsets \o cbset[t]
Numbers(q, t) == {q[i].n : i \in {j \in DOMAIN q : q[j].thread = t}}
InOrder(q, t) ==
  \A i, j \in DOMAIN q :
    i < j /\ q[i].thread = t /\ q[j].thread = t => q[i].n < q[j].n

(* "All functions registered by a single thread are guaranteed to execute  *)
(* in the registering order": none is lost, called twice or overtaken,     *)
(* whether a set is in the thread, flushed or popped, and whoever calls.   *)
CallbacksInOrder ==
  \A t \in Thread :
    /\ called[t] <= posted[t]
    /\ Numbers(Queue(t), t) = called[t] + 1 .. posted[t]
    /\ InOrder(Queue(t), t)

(* t is about to return from ovsrcu_barrier(), and every callback that u   *)
(* had postponed when t called it was called.                              *)
Waited(t, u) ==
  At(t, "barrier_check") /\ fired[t] => \A n \in Numbers(Queue(u), u) : n > owed[t][u]

(* destroy_A() in ovs-rcu.h: once ovsrcu_barrier() returns, the callbacks  *)
(* that the same thread had postponed were called.                         *)
BarrierWaitsForOwn == \A t \in Worker : Waited(t, t)

(* "ovsrcu_barrier waits for all outstanding RCU callbacks to complete."   *)
BarrierWaitsForAll == \A t \in Worker, u \in Thread : Waited(t, u)

(* Every callback is called, those that callbacks postpone included, unless *)
(* ovsrcu_exit() comes first: no wakeup of the thread that calls them is    *)
(* lost.                                                                    *)
CallbacksRun ==
  multithreaded ~> rounds > 0 \/ (/\ \A t \in Worker : calls[t] = <<>>
                                 /\ called = posted)

(* Every thread gets to its end: nobody waits for a grace period, a        *)
(* callback or another thread forever.                                     *)
ThreadsEnd == multithreaded ~> \A t \in Worker : todo[t] = <<"gone">>
=============================================================================
