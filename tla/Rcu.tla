--------------------------------- MODULE Rcu --------------------------------
(* What ovs-rcu.h promises to its users, apart from how it is done: "The   *)
(* function pointer passed in as its argument is called only after all     *)
(* threads are done with old versions of data structures."                 *)
(*                                                                         *)
(* There is one RCU-protected pointer.  A thread may get it and then use   *)
(* the object it points to until its next quiescent state.  A writer makes *)
(* it point to an object that is not in use and retires the old one, which *)
(* is reclaimed some time after its last user is done with it.             *)
CONSTANTS Thread, Obj, NONE

VARIABLES ptr,      \* OVSRCU_TYPE(struct object *)
          ref,      \* the object each thread is using, or NONE
          retired   \* replaced, but not freed

rcuVars == <<ptr, ref, retired>>

(* What malloc() may return.                                               *)
Free == Obj \ ({ptr} \cup retired)

Init ==
  /\ ptr \in Obj
  /\ ref = [t \in Thread |-> NONE]
  /\ retired = {}

Get(t) ==
  /\ ref' = [ref EXCEPT ![t] = ptr]
  /\ UNCHANGED <<ptr, retired>>

Quiesce(t) ==
  /\ ref' = [ref EXCEPT ![t] = NONE]
  /\ UNCHANGED <<ptr, retired>>

(* The thread that replaces the object may be at the end of its use of it. *)
Replace(t) ==
  /\ ptr' \in Free
  /\ retired' = retired \cup {ptr}
  /\ ref' \in {ref, [ref EXCEPT ![t] = NONE]}

Reclaim(o) ==
  /\ o \in retired
  /\ \A t \in Thread : ref[t] # o
  /\ retired' = retired \ {o}
  /\ UNCHANGED <<ptr, ref>>

Next ==
  \/ \E t \in Thread : Get(t) \/ Quiesce(t) \/ Replace(t)
  \/ \E o \in Obj : Reclaim(o)

Spec == Init /\ [][Next]_rcuVars

-----------------------------------------------------------------------------
(* No thread uses an object that was freed.                                *)
NoUseAfterFree == \A t \in Thread : ref[t] \notin Free
=============================================================================
