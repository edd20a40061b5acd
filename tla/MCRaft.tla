------------------------------- MODULE MCRaft -------------------------------
(* Model-checking instances of module Raft.                                *)
EXTENDS Raft, TLC

(* The servers are interchangeable, and so are the commands.               *)
Symmetry == Permutations(Server) \cup Permutations(Cmd)

-----------------------------------------------------------------------------
(* A server that was started with img in its file, and has read it.        *)
Started(s, img) ==
  [read_db(raft_open(raft_alloc(s, img))) EXCEPT !.conns = Server \ {s}]

(* x when it has just won the election of the term in img, with votes from *)
(* all of conns, and has appended and sent its no-op entry.                *)
Winner(x, img, conns) ==
  raft_become_leader(
    [Started(x, img) EXCEPT
       !.role = "CANDIDATE",
       !.prevote_passed = TRUE,
       !.votes = [s \in Server |-> IF s \in conns THEN x ELSE ZERO],
       !.n_votes = Cardinality(conns),
       !.conns = conns \ {x},
       !.space = 99])

Settled(r) == [r EXCEPT !.out = [d \in Server |-> <<>>], !.space = 0,
                        !.conns = Server \ {r.sid}]

Nothing == [s \in Server |-> [d \in Server |-> <<>>]]

Unspent == [timeouts |-> 0, pings |-> 0, crashes |-> 0, disconnects |-> 0,
            snapshots |-> 0]

-----------------------------------------------------------------------------
(* A later initial state, for runs about what happens once there is a      *)
(* leader: x has just won the election of term 2, everyone's vote is on    *)
(* disk, and the no-op entry that x appended is on its way.                *)

Voted(img, term, x) == raft_apply_record(img, TermRecord(term, x))

ElectedInit ==
  /\ \E x \in Server :
       LET img == Voted(InitialImage(x), 2, x)
           w   == Winner(x, img, Server)
       IN  /\ server = [s \in Server |-> IF s = x THEN Settled(w)
                                                  ELSE Started(s, img)]
           /\ net = [Nothing EXCEPT ![x] = w.out]
           /\ leaders = {<<2, x>>}
           /\ granted = {<<s, 2, x>> : s \in Server}
  /\ spent = Unspent
  /\ committed = {}
  /\ issued = {}
  /\ outcome = [c \in Cmd |-> <<>>]

ElectedSpec == ElectedInit /\ [][Next]_vars

(* Nothing goes wrong and every thread keeps running.                      *)
ElectedFairSpec == ElectedSpec /\ Fairness

-----------------------------------------------------------------------------
(* A later initial state, for runs about conflicting entries.  x was       *)
(* leader in term 2 and y in term 3, but nobody got the no-op entries that *)
(* they appended.  x was leader again in term 4 and sent z, the third      *)
(* server, both entries of its log; z lost power when only the first one   *)
(* was on disk.  Now x is leader of term 5, with the vote of z, and has    *)
(* learnt how far the log of z goes, but the connection broke with the     *)
(* missing entries under way.  It was made again and x has sent a          *)
(* heartbeat, while y was being restarted.                                 *)

Noop(term) == [term |-> term, eid |-> ZERO, servers |-> {}]

WithNoop(img, term) ==
  raft_apply_record(img, EntryRecords(log_end(img), <<Noop(term)>>))

Inconsistent(r, end) ==
  [type |-> "append_reply", term |-> r.term, log_end |-> end,
   prev_log_index |-> log_end(r) - 2, n_entries |-> 1,
   result |-> "INCONSISTENCY"]

StaleInit ==
  /\ \E x \in Server : \E y \in Server \ {x} : \E z \in Server \ {x, y} :
       LET two == Voted(InitialImage(x), 2, x)
           mine == Voted(WithNoop(Voted(WithNoop(two, 2), 4, x), 4), 5, x)
           w   == Winner(x, mine, {x, z})
           n   == raft_handle_append_reply(w, z, Inconsistent(w, 3))
           h   == raft_send_heartbeats([Settled(n) EXCEPT !.conns = n.conns])
       IN  /\ server = [s \in Server |->
                  CASE s = x -> Settled(h)
                    [] s = y -> Started(s, Voted(WithNoop(Voted(two, 3, y), 3), 5, ZERO))
                    [] s = z -> Started(s, Voted(WithNoop(two, 2), 5, x))]
           /\ net = [Nothing EXCEPT ![x] = h.out]
           /\ leaders = {<<2, x>>, <<3, y>>, <<4, x>>, <<5, x>>}
           /\ granted = {<<s, 2, x>> : s \in Server}
                          \cup {<<s, 3, y>> : s \in {y, z}}
                          \cup {<<s, t, x>> : s \in {x, z}, t \in {4, 5}}
  /\ spent = Unspent
  /\ committed = {}
  /\ issued = {}
  /\ outcome = [c \in Cmd |-> <<>>]

StaleSpec == StaleInit /\ [][Next]_vars

-----------------------------------------------------------------------------
(* A later initial state, for runs about snapshots.  While z was down, x   *)
(* was leader in term 2 and committed a no-op and command c with y, which  *)
(* has not learnt yet that c is committed.  Then everyone was restarted,   *)
(* and x has compacted its log.                                            *)

Committed(x, c, index) ==
  raft_apply_record(
    raft_apply_record(Voted(InitialImage(x), 2, x),
                      EntryRecords(2, <<Noop(2), [Noop(2) EXCEPT !.eid = c]>>)),
    CommitRecord(index))

Compacted(r) ==
  LET q == ovsdb_snapshot(r)
  IN  [raft_store_snapshot([q EXCEPT !.space = 99],
                           CHOOSE clone \in q.snapping : TRUE)
         EXCEPT !.space = 0]

LaggingInit ==
  /\ \E x \in Server : \E y \in Server \ {x} : \E c \in Cmd :
       /\ server = [s \in Server |->
                      IF s = x THEN Compacted(Started(s, Committed(x, c, 3)))
                      ELSE IF s = y THEN Started(s, Committed(x, c, 2))
                      ELSE Started(s, InitialImage(x))]
       /\ leaders = {<<2, x>>}
       /\ granted = {<<s, 2, x>> : s \in {x, y}}
       /\ committed = {<<2, i, raft_get_entry(server[y], i)>> : i \in 2 .. 3}
       /\ issued = {<<c, ZERO>>}
  /\ net = Nothing
  /\ spent = Unspent
  /\ outcome = [c \in Cmd |-> <<>>]

LaggingSpec == LaggingInit /\ [][Next]_vars
=============================================================================
