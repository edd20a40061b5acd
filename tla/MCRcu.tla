------------------------------- MODULE MCRcu --------------------------------
(* Instances of module OvsRcu: two threads beside the one that calls the   *)
(* callbacks, and what they call.                                          *)
EXTENDS OvsRcu

Program2(main, other) == [t \in Worker |-> IF t = Main THEN main ELSE other]
Create1 == <<"thread_create">>

(* A reader while an object is replaced, by means of a callback and of     *)
(* ovsrcu_synchronize(); two that wait for each other's grace period; the  *)
(* barrier; the end of the program while callbacks postpone, with threads  *)
(* and without, and a barrier after it; and what a program does before it  *)
(* has threads.                                                            *)
RcuPrograms ==
  {Program2(Create1 \o <<"change", "quiesce">>, <<"get", "quiesce", "get">>),
   Program2(Create1 \o <<"delete">>, <<"get", "try_quiesce", "get">>),
   Program2(Create1 \o <<"delete">>, <<"delete">>),
   Program2(Create1 \o <<"change", "barrier">>, <<>>),
   Program2(Create1 \o <<"exit">>, <<"change_again">>),
   Program2(<<"quiesce_end", "change_again", "exit", "barrier">>, <<>>),
   Program2(<<"quiesce_end", "change_again", "quiesce_start", "quiesce_end", "change">>
              \o Create1, <<>>)}

(* A barrier while another thread that has postponed a callback quiesces.  *)
BarrierPrograms == {Program2(Create1 \o <<"barrier">>, <<"change", "quiesce">>)}
=============================================================================
