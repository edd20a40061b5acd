----------------------------- MODULE RaftServer -----------------------------
(***************************************************************************)
(* One server of an OVSDB cluster (ovsdb/raft.c).  A value r of RaftState  *)
(* is a "struct raft"; each function of raft.c that changes one is an      *)
(* operator of the same name that returns the changed structure, so that a *)
(* handler, with everything it calls, is one expression.                   *)
(*                                                                         *)
(* Four members have no direct counterpart in "struct raft".  "disk" is    *)
(* the file behind raft->log: disk[1] is what is known to be on stable     *)
(* storage and disk[k + 1] what the file would hold after its k-th write   *)
(* that is not yet synced, each as the state that raft_read_log() would    *)
(* rebuild from it.  "out" collects the RPCs that a handler sends, in      *)
(* order, and "results" the outcomes it reports to clients of this server; *)
(* both are empty between steps.  "overrun" says that a handler has read   *)
(* outside an array, which the process may not survive.                    *)
(*                                                                         *)
(* Time is abstracted.  "fresh" says that less than election_timer has     *)
(* passed since election_base.  The commands hmap keeps no-op entries too; *)
(* they complete nothing and are left out.  "space" counts the writes that *)
(* succeed before the file system reports an error.                        *)
(***************************************************************************)
EXTENDS RaftRpc

Role == {"FOLLOWER", "CANDIDATE", "LEADER"}

Flag == BOOLEAN

(* A set of servers; an array with a member for every server.              *)
Servers == SUBSET Server
Indexes == [Server -> Nat]
Votes   == [Server -> Sid]

(* log_start is past the snapshot, which is never empty.                   *)
Start == Nat \ {0, 1}
Log   == Seq(Entry)

(* What raft_read_header() and raft_read_log() rebuild from the file; "ok" *)
(* is FALSE once raft_apply_record() has returned an error.                *)
Image == [term : Nat, vote : Sid, log_start : Start, snap : Snapshot,
          log : Log, commit_index : Nat, ok : Flag]
Disk  == Seq(Image) \ {<<>>}

(* RPCs by destination, in the order they are sent.                        *)
Rpcs == [Server -> Seq(Rpc)]

(* struct raft_waiter.  commit_ticket is relative: the number of writes    *)
(* not yet synced that the waiter waits for.                               *)
Waiter ==
  [type : {"W_ENTRY"}, commit_ticket : Nat, index : Nat]
    \cup [type : {"W_TERM"}, commit_ticket : Nat, term : Nat, vote : Sid]
    \cup [type : {"W_RPC"}, commit_ticket : {0}, rpcs : Rpcs]
Waiters == Seq(Waiter)

(* struct raft_command: index is 0 if relayed to the leader, sid is the    *)
(* follower that relayed it to us, if any, and client says whether a       *)
(* client of this server still holds a reference.                          *)
Command  == [eid : Cmd, index : Nat, sid : Sid, client : Flag]
Commands == SUBSET Command

(* What the client of each command is told, in order.                      *)
Result  == [status : CmdStatus, index : Nat]
Results == [Cmd -> Seq(Result)]

(* The database and the index up to which it was read.                     *)
Clones == SUBSET [index : Nat, db : Db]

(* struct raft, with what ovsdb-server keeps about the database in db,     *)
(* prereq and snapping, the clone that is being turned into a snapshot.    *)
(* "fresh" replaces election_base; n_votes, votes, next_index, match_index *)
(* and the sets replied and installing are the members of struct           *)
(* raft_server; "running" is set within raft_waiters_run().                *)
RaftState ==
  [sid : Server, servers : Servers,
   term : Nat, vote : Sid, synced_term : Nat, synced_vote : Sid,
   log : Log, log_start : Start, log_synced : Nat, snap : Snapshot,
   commit_index : Nat, last_applied : Nat,
   role : Role, leader_sid : Sid, fresh : Flag,
   n_votes : Nat, prevote_passed : Flag, votes : Votes,
   next_index : Indexes, match_index : Indexes,
   replied : Servers, installing : Servers,
   waiters : Waiters, commands : Commands, conns : Servers,
   db : Db, prereq : Eid, snapping : Clones,
   disk : Disk, space : Nat,
   up : Flag, failed : Flag, closing : Flag, aborted : Flag,
   overrun : Flag, running : Flag,
   out : Rpcs, results : Results]

(* The largest, or smallest, member of a finite set of numbers, or d if it *)
(* is empty.                                                               *)
Largest(S, d) ==
  IF \E x \in S : \A y \in S : y <= x
  THEN CHOOSE x \in S : \A y \in S : y <= x
  ELSE d

Smallest(S, d) ==
  IF \E x \in S : \A y \in S : x <= y
  THEN CHOOSE x \in S : \A y \in S : x <= y
  ELSE d

(* The members of a finite set in some order.                              *)
Listings(S) == {q \in [1 .. Cardinality(S) -> S] :
                  \A x \in S : \E i \in DOMAIN q : q[i] = x}
Listed(S) == IF Cardinality(S) \in Nat /\ Listings(S) # {}
             THEN CHOOSE q \in Listings(S) : TRUE ELSE <<>>

Smaller(a, b) == IF a < b THEN a ELSE b

Larger(a, b) == IF a < b THEN b ELSE a

-----------------------------------------------------------------------------
(* The log.  Where the code asserts something and it does not hold, the    *)
(* result has "aborted" set.                                               *)

(* raft->log_end, of a structure or of a disk image.                       *)
log_end(r) == r.log_start + Len(r.log)

raft_get_entry(r, index) == r.log[index - r.log_start + 1]

raft_get_term(r, index) ==
  IF index = r.log_start - 1 THEN r.snap.term ELSE raft_get_entry(r, index).term

(* The term of the last entry, which the code spells out where it needs it.*)
last_log_term(r) == raft_get_term(r, log_end(r) - 1)

(* Entry ID of the last data entry at or before index.                     *)
raft_get_eid(r, index) ==
  LET data == {i \in r.log_start .. index :
                 raft_entry_has_data(raft_get_entry(r, i))}
      last == Largest(data, 0)
  IN  IF last \in data THEN raft_get_entry(r, last).eid ELSE r.snap.eid

raft_current_eid(r) == raft_get_eid(r, log_end(r) - 1)

(* The configuration in force at index.                                    *)
raft_servers_for_index(r, index) ==
  LET conf == {i \in r.log_start .. index : raft_get_entry(r, i).servers # {}}
      last == Largest(conf, 0)
  IN  IF last \in conf THEN raft_get_entry(r, last).servers ELSE r.snap.servers

raft_get_servers_from_log(r) ==
  [r EXCEPT !.servers = raft_servers_for_index(r, log_end(r) - 1)]

(* raft_truncate(): memory only, the file is not touched and log_synced    *)
(* keeps its value.                                                        *)
raft_truncate(r, new_end) ==
  [r EXCEPT !.log = SubSeq(@, 1, new_end - r.log_start)]

-----------------------------------------------------------------------------
(* The file.                                                               *)

(* The records of consecutive entries es, the first one at index.           *)
EntryRecords(index, es) ==
  [type |-> "ENTRY", term |-> es[Len(es)].term, index |-> index, entries |-> es]

(* raft_write_state().                                                     *)
TermRecord(term, vote) ==
  IF vote = ZERO THEN [type |-> "TERM", term |-> term]
                 ELSE [type |-> "VOTE", term |-> term, sid |-> vote]

CommitRecord(index) == [type |-> "COMMIT_INDEX", term |-> 0, index |-> index]

(* raft_apply_record(): what reading one more record, or the records of    *)
(* consecutive entries, does to the state rebuilt so far.  Its first part  *)
(* deals with a new term, the others with one type of record each; the     *)
(* result of refused() stands for an error.  NOTE and LEADER records       *)
(* change nothing and are left out.                                        *)
refused(img) == [img EXCEPT !.ok = FALSE]

apply_term(img, rec) ==
  IF rec.term > img.term
  THEN [img EXCEPT !.term = rec.term, !.vote = ZERO]
  ELSE img

(* The terms of es never go down, and do not start below term.             *)
TermsGrow(term, es) ==
  /\ term <= es[1].term
  /\ \A i \in 2 .. Len(es) : es[i - 1].term <= es[i].term

(* An entry before log_start would fail the assertion in raft_truncate().  *)
apply_entries(img, index, es) ==
  LET kept == raft_truncate(img, index)
  IN  IF /\ index \in Larger(img.commit_index, img.log_start) .. log_end(img)
         /\ TermsGrow(last_log_term(kept), es)
      THEN [kept EXCEPT !.log = @ \o es]
      ELSE refused(img)

apply_vote(img, rec) ==
  IF rec.term < img.term \/ img.vote \notin {ZERO, rec.sid}
  THEN refused(img)
  ELSE [img EXCEPT !.vote = rec.sid]

apply_commit_index(img, index) ==
  IF index \in img.commit_index .. log_end(img) - 1
  THEN [img EXCEPT !.commit_index = index]
  ELSE refused(img)

raft_apply_record(img, rec) ==
  LET t == apply_term(img, rec)
  IN  IF ~img.ok THEN img
      ELSE CASE rec.type = "ENTRY" -> apply_entries(t, rec.index, rec.entries)
             [] rec.type = "TERM" -> t
             [] rec.type = "VOTE" -> apply_vote(t, rec)
             [] rec.type = "COMMIT_INDEX" -> apply_commit_index(t, rec.index)

(* What the file holds if everything written so far reaches it.            *)
written(r) == r.disk[Len(r.disk)]

(* ovsdb_log_write(): nothing is written once the file system is full.     *)
ovsdb_log_write(r, rec) ==
  IF r.space = 0
  THEN r
  ELSE [r EXCEPT !.disk = Append(@, raft_apply_record(written(r), rec)),
                 !.space = @ - 1]

(* ovsdb_log_commit_start(): a ticket for everything written so far.       *)
ovsdb_log_commit_start(r) == Len(r.disk) - 1

(* raft_handle_write_error() after a write by way of r to w.               *)
raft_handle_write_error(r, w) ==
  [w EXCEPT !.failed = @ \/ r.space = 0]

(* Several entries, written one after the other until a write fails; the   *)
(* entry whose write failed is in memory all the same.                     *)
raft_write_entries(r, es) ==
  LET n       == Smaller(r.space, Len(es))
      base    == written(r)
      images  == [j \in 1 .. n |->
                    raft_apply_record(base, EntryRecords(log_end(r),
                                                         SubSeq(es, 1, j)))]
  IN  [r EXCEPT !.log = @ \o SubSeq(es, 1, Smaller(n + 1, Len(es))),
                !.disk = @ \o images,
                !.space = @ - n]

(* ovsdb_log_replace_commit(): the new file is synced before it replaces   *)
(* the old one, and every ticket handed out for the old one is complete.   *)
ovsdb_log_replace_commit(r, img) ==
  [r EXCEPT !.disk = <<img>>,
            !.waiters = [i \in DOMAIN @ |-> [@[i] EXCEPT !.commit_ticket = 0]]]
-----------------------------------------------------------------------------
(* Sending.                                                                *)

(* Mutant: the term need not be on disk.                                   *)
raft_is_rpc_synced_any_term(r, rpc) ==
  /\ raft_rpc_get_min_sync_index(rpc) <= r.log_synced
  /\ raft_rpc_get_vote(rpc) \subseteq {r.synced_vote}

raft_is_rpc_synced(r, rpc) ==
  /\ raft_rpc_get_term(rpc) <= r.synced_term
  /\ raft_rpc_get_min_sync_index(rpc) <= r.log_synced
  /\ raft_rpc_get_vote(rpc) \subseteq {r.synced_vote}

(* raft_send_to_conn(): hand over to the connections that are up.          *)
raft_send_to_conn(r, rpcs) ==
  [r EXCEPT !.out = [d \in Server |-> IF d \in r.conns
                                      THEN @[d] \o rpcs[d]
                                      ELSE @[d]]]

(* The RPCs among rpcs to destinations in D.                               *)
only(rpcs, D) == [d \in Server |-> IF d \in D THEN rpcs[d] ELSE <<>>]

(* Mutant: an RPC that has to wait for the disk is forgotten.              *)
raft_send_or_forget(r, rpcs) ==
  LET late == {d \in r.conns \ {r.sid} :
                 \E i \in DOMAIN rpcs[d] : ~raft_is_rpc_synced(r, rpcs[d][i])}
  IN  raft_send_to_conn(r, only(rpcs, Server \ (late \cup {r.sid})))

(* raft_send(): an RPC whose term, vote or index is not on disk yet waits  *)
(* in a W_RPC waiter without a ticket of its own; one to a peer without a  *)
(* connection is dropped.  rpcs has at most one RPC for each destination.  *)
raft_send(r, rpcs) ==
  LET late == {d \in r.conns \ {r.sid} :
                 \E i \in DOMAIN rpcs[d] : ~raft_is_rpc_synced(r, rpcs[d][i])}
      sent == raft_send_to_conn(r, only(rpcs, Server \ (late \cup {r.sid})))
  IN  IF late = {}
      THEN sent
      ELSE [sent EXCEPT !.waiters =
              Append(@, [type |-> "W_RPC", commit_ticket |-> 0,
                         rpcs |-> only(rpcs, late)])]

(* One RPC to one peer.                                                    *)
To(d, rpc) == [x \in Server |-> IF x = d THEN <<rpc>> ELSE <<>>]

peers(r) == r.servers \ {r.sid}

(* The RPC that raft_send_append_request() builds for peer s, carrying n   *)
(* entries.  With next_index 0, "next_index - 1" wraps around and entries[] *)
(* is read out of bounds; no receiver looks at the term found there.       *)
prev_index(r, s) == uint64(r.next_index[s] - 1)

append_request(r, s, n) ==
  LET prev == prev_index(r, s)
      next == r.next_index[s] - r.log_start
  IN  [type |-> "append_request",
       term |-> r.term,
       prev_log_index |-> prev,
       prev_log_term |-> IF prev < r.log_start THEN r.snap.term
                         ELSE IF prev >= log_end(r) THEN 0
                         ELSE raft_get_entry(r, prev).term,
       leader_commit |-> r.commit_index,
       entries |-> SubSeq(r.log, next + 1, next + n)]

(* raft_send_append_request() to each peer s in DOMAIN n, with n[s]        *)
(* entries.  The function asserts that we are leader.                      *)
raft_send_append_request(r, n) ==
  LET stray == \E s \in DOMAIN n : prev_index(r, s) >= log_end(r)
      o     == [r EXCEPT !.overrun = @ \/ stray]
  IN  IF r.role # "LEADER"
      THEN [r EXCEPT !.aborted = TRUE]
      ELSE raft_send(o, [s \in Server |-> IF s \in DOMAIN n
                                          THEN <<append_request(r, s, n[s])>>
                                          ELSE <<>>])

(* raft_send_heartbeats(): the INCOMPLETE replies for commands that were   *)
(* relayed to us only postpone their timeouts and are left out.            *)
raft_send_heartbeats(r) == raft_send_append_request(r, [s \in peers(r) |-> 0])

-----------------------------------------------------------------------------
(* Commands.                                                               *)

(* The client of each command in done is told status.                      *)
tell(r, done, status) ==
  LET told(e)   == Listed({c \in done : c.eid = e /\ c.client})
      result(c) == [status |-> status,
                    index |-> IF status = "SUCCESS" THEN c.index ELSE 0]
  IN  [r EXCEPT !.results =
         [e \in Cmd |-> @[e] \o [i \in DOMAIN told(e) |-> result(told(e)[i])]]]

(* Mutant: the command stays in the hmap.                                  *)
raft_command_complete_keeping(r, done, status) == tell(r, done, status)

(* raft_command_complete() for the commands in done, whose final index is  *)
(* recorded in them.  Those relayed by a follower are answered, the others *)
(* are reported to the client that holds them.                             *)
raft_command_complete(r, done, status) ==
  LET reply(c) == [type |-> "execute_command_reply", result |-> c.eid,
                   status |-> status,
                   commit_index |-> IF status = "SUCCESS" THEN c.index ELSE 0]
      to(d)    == {reply(c) : c \in {x \in done : x.sid = d}}
  IN  [tell(r, done, status) EXCEPT
         !.commands = {c \in @ : \A x \in done : x.eid # c.eid},
         !.out = [d \in Server |-> IF d \in r.conns
                                   THEN @[d] \o Listed(to(d))
                                   ELSE @[d]]]

(* raft_update_commit_index(): completes the commands whose entries are    *)
(* now committed.  A command relayed to us is not answered if we have lost *)
(* leadership since.  A failure to write the record is ignored.  An index  *)
(* past the log fails the assertion in raft_get_entry().                   *)
raft_update_commit_index(r, new_commit_index) ==
  LET newly   == r.commit_index + 1 .. new_commit_index
      at(c)   == {i \in newly : raft_get_entry(r, i).eid = c.eid}
      done    == {[c EXCEPT !.index = Largest(at(c), 0),
                            !.sid = IF c.index # 0 /\ r.role # "LEADER"
                                    THEN ZERO ELSE @]
                    : c \in {x \in r.commands : at(x) # {}}}
      updated == [r EXCEPT !.commit_index = new_commit_index]
  IN  IF new_commit_index <= r.commit_index
      THEN r
      ELSE IF new_commit_index >= log_end(r)
      THEN [r EXCEPT !.aborted = TRUE]
      ELSE ovsdb_log_write(raft_command_complete(updated, done, "SUCCESS"),
                           CommitRecord(new_commit_index))

-----------------------------------------------------------------------------
(* Leadership.                                                             *)

(* Mutant: half of the servers will do.                                    *)
Half(S, r) == Cardinality(S) >= Cardinality(r.servers) \div 2

Majority(S, r) == Cardinality(S) > Cardinality(r.servers) \div 2

(* Mutant: the followers are not told at once.                             *)
raft_consider_updating_commit_index_silently(r) ==
  LET ready(i) == /\ raft_get_entry(r, i).term = r.term
                  /\ Majority({s \in r.servers : r.match_index[s] >= i}, r)
      range    == Larger(r.commit_index + 1, r.log_start) .. log_end(r) - 1
  IN  raft_update_commit_index(r, Largest({i \in range : ready(i)},
                                          r.commit_index))

(* Mutant: an entry of an earlier term is committed by counting.           *)
raft_consider_updating_commit_index_any_term(r) ==
  LET ready(i) == Majority({s \in r.servers : r.match_index[s] >= i}, r)
      range    == Larger(r.commit_index + 1, r.log_start) .. log_end(r) - 1
      new      == Largest({i \in range : ready(i)}, r.commit_index)
  IN  IF new <= r.commit_index
      THEN r
      ELSE raft_send_heartbeats(raft_update_commit_index(r, new))

(* raft_consider_updating_commit_index(): only an entry of the current     *)
(* term is committed by counting, earlier ones are committed with it.      *)
raft_consider_updating_commit_index(r) ==
  LET ready(i) == /\ raft_get_entry(r, i).term = r.term
                  /\ Majority({s \in r.servers : r.match_index[s] >= i}, r)
      range    == Larger(r.commit_index + 1, r.log_start) .. log_end(r) - 1
      new      == Largest({i \in range : ready(i)}, r.commit_index)
  IN  IF new <= r.commit_index
      THEN r
      ELSE raft_send_heartbeats(raft_update_commit_index(r, new))

raft_update_match_index(r, s, min_index) ==
  IF min_index > r.match_index[s]
  THEN raft_consider_updating_commit_index(
         [r EXCEPT !.match_index[s] = min_index])
  ELSE r

raft_update_our_match_index(r, min_index) ==
  IF r.sid \in r.servers
  THEN raft_update_match_index(r, r.sid, min_index)
  ELSE r

(* raft_command_initiate() for an entry with ID eid, on behalf of follower *)
(* sid or of a client of ours.                                             *)
raft_command_initiate(r, eid, servers, sid, client) ==
  LET index == log_end(r)
      entry == [term |-> r.term, eid |-> eid, servers |-> servers]
      w     == raft_handle_write_error(r, raft_write_entries(r, <<entry>>))
      cmd   == [eid |-> eid, index |-> index, sid |-> sid, client |-> client]
      cmds  == IF eid = ZERO THEN {} ELSE {cmd}
      i     == [w EXCEPT !.commands = @ \cup cmds,
                         !.waiters =
                           Append(@, [type |-> "W_ENTRY", index |-> index,
                                      commit_ticket |->
                                        ovsdb_log_commit_start(w)])]
      due   == {s \in peers(i) : i.next_index[s] = index}
      sent  == raft_send_append_request(i, [s \in due |-> 1])
  IN  IF w.failed
      THEN w
      ELSE [sent EXCEPT !.next_index =
              [s \in Server |-> IF s \in due THEN @[s] + 1 ELSE @[s]]]

raft_set_leader(r, sid) == [r EXCEPT !.leader_sid = sid]

(* raft_become_leader(): counts our whole log as matching at once, synced  *)
(* or not, and appends a no-op of the new term.  The LEADER record changes *)
(* nothing on replay and is left out.                                      *)
raft_become_leader(r) ==
  LET l == [raft_set_leader(r, r.sid) EXCEPT
              !.role = "LEADER",
              !.fresh = TRUE,
              !.next_index = [s \in Server |-> IF s \in r.servers
                                               THEN log_end(r) ELSE @[s]],
              !.match_index = [s \in Server |-> IF s \in r.servers
                                                THEN 0 ELSE @[s]],
              !.replied = @ \ r.servers,
              !.installing = @ \ r.servers]
      m == raft_update_our_match_index(l, log_end(l) - 1)
  IN  IF m.failed THEN m
      ELSE raft_command_initiate(m, ZERO, {}, ZERO, FALSE)

raft_become_follower(r) ==
  [r EXCEPT !.leader_sid = ZERO,
            !.role = "FOLLOWER",
            !.fresh = @ \/ r.role # "FOLLOWER"]

-----------------------------------------------------------------------------
(* Terms and votes.                                                        *)


(* Mutant: an error of the file system is not looked at.                   *)
raft_set_term_regardless(r, term, vote) ==
  LET w == ovsdb_log_write(r, TermRecord(term, vote))
  IN  [w EXCEPT !.term = term,
                !.vote = vote,
                !.waiters = Append(@, [type |-> "W_TERM",
                                       commit_ticket |-> ovsdb_log_commit_start(w),
                                       term |-> term, vote |-> vote])]

(* raft_set_term(): after a failed write, memory keeps the old values.     *)
raft_set_term(r, term, vote) ==
  LET w == raft_handle_write_error(r, ovsdb_log_write(r, TermRecord(term, vote)))
  IN  IF w.failed
      THEN w
      ELSE [w EXCEPT !.term = term,
                     !.vote = vote,
                     !.waiters = Append(@, [type |-> "W_TERM",
                                            commit_ticket |->
                                              ovsdb_log_commit_start(w),
                                            term |-> term, vote |-> vote])]

(* raft_accept_vote(): s told us its vote.                                 *)
raft_accept_vote(r, s, vote) ==
  [r EXCEPT !.votes[s] = vote,
            !.n_votes = IF r.votes[s] # vote /\ vote = r.sid
                        THEN @ + 1 ELSE @]

(* Mutant: a vote for anyone counts.                                       *)
vote_wins_any(r, s, vote) ==
  /\ r.votes[s] # vote
  /\ r.n_votes + 1 > Cardinality(r.servers) \div 2

(* The value raft_accept_vote() returns: this vote just made a majority.   *)
vote_wins(r, s, vote) ==
  /\ r.votes[s] # vote
  /\ vote = r.sid
  /\ r.n_votes + 1 > Cardinality(r.servers) \div 2

vote_request(r, is_prevote, leadership_transfer) ==
  [type |-> "vote_request",
   term |-> r.term,
   last_log_index |-> log_end(r) - 1,
   last_log_term |-> last_log_term(r),
   leadership_transfer |-> leadership_transfer,
   is_prevote |-> is_prevote]

raft_start_election(r, is_prevote, leadership_transfer) ==
  LET t == IF is_prevote THEN r ELSE raft_set_term(r, r.term + 1, r.sid)
      c == [t EXCEPT !.leader_sid = ZERO,
                     !.prevote_passed = ~is_prevote,
                     !.role = "CANDIDATE",
                     !.n_votes = 0,
                     !.fresh = TRUE,
                     !.votes = [s \in Server |-> IF s \in r.servers
                                                 THEN ZERO ELSE @[s]]]
      q == raft_send(c, [p \in Server |->
                           IF p \in peers(c)
                           THEN <<vote_request(c, is_prevote, leadership_transfer)>>
                           ELSE <<>>])
      v == raft_accept_vote(q, r.sid, r.sid)
  IN  IF r.sid \notin r.servers
      THEN r
      ELSE IF ~is_prevote /\ t.failed
      THEN t
      ELSE IF r.role = "LEADER"
      THEN [t EXCEPT !.aborted = TRUE]
      ELSE IF vote_wins(q, r.sid, r.sid)
      THEN raft_become_leader(v)
      ELSE v

(* raft_receive_term__(): the caller goes on only if the result's term is  *)
(* the RPC's term.                                                         *)
raft_receive_term__(r, term) ==
  LET t == raft_set_term(r, term, ZERO)
  IN  IF term <= r.term THEN r
      ELSE IF t.failed THEN t
      ELSE raft_become_follower(t)

-----------------------------------------------------------------------------
(* AppendEntries.                                                          *)

(* raft_send_append_reply() to the leader src that sent rq.                *)
raft_send_append_reply(r, src, rq, result) ==
  LET n == Len(rq.entries)
      c == IF result = "OK" /\ rq.leader_commit > r.commit_index
           THEN raft_update_commit_index(r, Smaller(rq.leader_commit,
                                              uint64(rq.prev_log_index + n)))
           ELSE r
  IN  raft_send(c, To(src, [type |-> "append_reply",
                            term |-> c.term,
                            log_end |-> log_end(c),
                            prev_log_index |-> rq.prev_log_index,
                            n_entries |-> n,
                            result |-> result]))

(* Mutant: the term of our entry is not compared.                          *)
match_index(r, prev_log_index, prev_log_term) ==
  prev_log_index \in r.log_start - 1 .. log_end(r) - 1

(* match_index_and_term() returns null.                                    *)
match_index_and_term(r, prev_log_index, prev_log_term) ==
  /\ prev_log_index \in r.log_start - 1 .. log_end(r) - 1
  /\ raft_get_term(r, prev_log_index) = prev_log_term

raft_handle_append_entries(r, src, rq, prev_log_index, prev_log_term, entries) ==
  LET index(i)  == prev_log_index + i
      new       == {i \in DOMAIN entries :
                      \/ index(i) >= log_end(r)
                      \/ raft_get_entry(r, index(i)).term # entries[i].term}
      first     == Smallest(new, 1)
      rest      == SubSeq(entries, first, Len(entries))
      kept      == IF index(first) < log_end(r)
                   THEN raft_truncate(r, index(first)) ELSE r
      w         == raft_write_entries(kept, rest)
      n_written == Smaller(r.space, Len(rest))
      changed   == \/ \E i \in index(first) .. log_end(r) - 1 :
                        raft_get_entry(r, i).servers # {}
                   \/ \E i \in 1 .. n_written : rest[i].servers # {}
      s         == IF changed THEN raft_get_servers_from_log(w) ELSE w
      waiting   == [s EXCEPT !.waiters =
                      Append(@, [type |-> "W_ENTRY",
                                 commit_ticket |-> ovsdb_log_commit_start(s),
                                 index |-> log_end(s) - 1])]
      result    == IF n_written < Len(rest) THEN "IO_ERROR" ELSE "OK"
  IN  IF ~match_index_and_term(r, prev_log_index, prev_log_term)
      THEN raft_send_append_reply(r, src, rq, "INCONSISTENCY")
      ELSE IF new = {}
      THEN raft_send_append_reply(r, src, rq, "OK")
      ELSE raft_send_append_reply(IF n_written > 0 THEN waiting ELSE s,
                                  src, rq, result)

(* raft_update_leader(), where it returns true: sid is our leader now.     *)
raft_update_leader(r, sid) ==
  [raft_set_leader(r, sid) EXCEPT !.role = "FOLLOWER"]

(* raft_handle_append_request(): with a prev_log_index that has wrapped    *)
(* around, rq->entries[ofs - 1] is past the entries of the request.  Either *)
(* the term found there does not match, or the function goes on to some    *)
(* four billion entries that are not there, which no process survives.     *)
raft_handle_append_request(r, src, rq) ==
  LET f     == [raft_update_leader(r, src) EXCEPT !.fresh = TRUE]
      n     == Len(rq.entries)
      first == uint64(rq.prev_log_index + 1)
      nth   == uint64(rq.prev_log_index + n)
      ofs   == r.log_start - first
      last_term == IF n > 0 THEN rq.entries[n].term ELSE rq.prev_log_term
  IN  IF r.role = "LEADER"
      THEN raft_send_append_reply(r, src, rq, "INCONSISTENCY")
      ELSE IF first >= r.log_start
      THEN raft_handle_append_entries(f, src, rq, rq.prev_log_index,
                                      rq.prev_log_term, rq.entries)
      ELSE IF nth < r.log_start - 1
      THEN raft_send_append_reply(f, src, rq, "OK")
      ELSE IF nth = r.log_start - 1
      THEN raft_send_append_reply(f, src, rq,
                                  IF r.snap.term = last_term
                                  THEN "OK" ELSE "INCONSISTENCY")
      ELSE IF ofs > n
      THEN raft_send_append_reply([f EXCEPT !.overrun = TRUE], src, rq,
                                  "INCONSISTENCY")
      ELSE raft_handle_append_entries(f, src, rq, r.log_start - 1,
                                      rq.entries[ofs].term,
                                      SubSeq(rq.entries, ofs + 1, n))

install_snapshot_request(r) ==
  [type |-> "install_snapshot_request", term |-> r.term,
   last_index |-> r.log_start - 1, last |-> r.snap]

(* raft_send_install_snapshot_request(): one at a time to each server.     *)
raft_send_install_snapshot_request(r, s) ==
  IF s \in r.installing
  THEN r
  ELSE [raft_send(r, To(s, install_snapshot_request(r))) EXCEPT
          !.installing = IF s \in r.conns THEN @ \cup {s} ELSE @]

raft_handle_append_reply(r, src, rpy) ==
  LET a    == [r EXCEPT !.replied = @ \cup {src}]
      min  == uint64(rpy.prev_log_index + rpy.n_entries + 1)
      ok   == raft_update_match_index(
                [a EXCEPT !.next_index[src] = Larger(@, min)], src,
                uint64(min - 1))
      back == [a EXCEPT !.next_index[src] =
                 IF @ > 0 THEN Smaller(@ - 1, rpy.log_end) ELSE 0]
      u    == IF rpy.result = "OK" THEN ok ELSE back
      next == u.next_index[src]
  IN  IF r.role # "LEADER" \/ src \notin peers(r)
      THEN r
      ELSE IF rpy.result = "IO_ERROR"
      THEN u
      ELSE IF next < u.log_start
      THEN raft_send_install_snapshot_request(u, src)
      ELSE IF next < log_end(u)
      THEN raft_send_append_request(u, [x \in {src} |-> log_end(u) - next])
      ELSE u

-----------------------------------------------------------------------------
(* RequestVote.                                                            *)

raft_should_suppress_disruptive_server(r, rpc) ==
  /\ rpc.type = "vote_request"
  /\ ~rpc.leadership_transfer
  /\ r.role = "LEADER" \/ (r.role = "FOLLOWER" /\ r.fresh)

(* Our log is more up-to-date than the peer's.                             *)
log_is_newer(r, rq) ==
  \/ last_log_term(r) > rq.last_log_term
  \/ /\ last_log_term(r) = rq.last_log_term
     /\ log_end(r) - 1 > rq.last_log_index

raft_send_vote_reply(r, dst, vote, is_prevote) ==
  raft_send(r, To(dst, [type |-> "vote_reply", term |-> r.term,
                        vote |-> vote, is_prevote |-> is_prevote]))

(* raft_handle_vote_request(): the term of rq is not looked at here.       *)
raft_handle_vote_request(r, src, rq) ==
  LET v     == raft_set_term(r, r.term, src)
      voted == [v EXCEPT !.fresh = TRUE]
      vote(x) == IF rq.is_prevote THEN src ELSE x.vote
      reply(x) == raft_send_vote_reply(x, src, vote(x), rq.is_prevote)
  IN  IF r.vote # ZERO THEN reply(r)
      ELSE IF log_is_newer(r, rq) THEN r
      ELSE IF rq.is_prevote THEN reply(r)
      ELSE IF v.failed THEN v
      ELSE reply(voted)

(* raft_handle_vote_reply(): is_prevote is not looked at.                  *)
raft_handle_vote_reply(r, src, rpy) ==
  LET a == raft_accept_vote(r, src, rpy.vote)
  IN  IF r.role # "CANDIDATE" \/ src \notin peers(r) THEN r
      ELSE IF ~vote_wins(r, src, rpy.vote) THEN a
      ELSE IF r.prevote_passed THEN raft_become_leader(a)
      ELSE raft_start_election(a, FALSE, FALSE)

-----------------------------------------------------------------------------
(* Snapshots.                                                              *)

(* Mutant: log_start is off by one.                                        *)
raft_read_header_off_by_one(snap_index, snap) ==
  [term |-> 0, vote |-> ZERO, log_start |-> snap_index, snap |-> snap,
   log |-> <<>>, commit_index |-> snap_index, ok |-> TRUE]

(* raft_read_header(): what the header record alone rebuilds.              *)
raft_read_header(snap_index, snap) ==
  [term |-> 0, vote |-> ZERO, log_start |-> snap_index + 1, snap |-> snap,
   log |-> <<>>, commit_index |-> snap_index, ok |-> TRUE]

(* Mutant: the commit index is not written.                                *)
raft_write_snapshot_without_commit(r, new_log_start, snap) ==
  LET header == raft_read_header(new_log_start - 1, snap)
      rest   == SubSeq(r.log, new_log_start - r.log_start + 1, Len(r.log))
  IN  raft_apply_record(IF rest = <<>> THEN header
                        ELSE raft_apply_record(header,
                                               EntryRecords(new_log_start, rest)),
                        TermRecord(r.term, r.vote))

(* raft_write_snapshot(): header, remaining entries, term and vote, and    *)
(* the commit index if it is past the header.                              *)
raft_write_snapshot(r, new_log_start, snap) ==
  LET header  == raft_read_header(new_log_start - 1, snap)
      rest    == SubSeq(r.log, new_log_start - r.log_start + 1, Len(r.log))
      entries == IF rest = <<>> THEN header
                 ELSE raft_apply_record(header,
                                        EntryRecords(new_log_start, rest))
      state   == raft_apply_record(entries, TermRecord(r.term, r.vote))
  IN  IF r.commit_index >= new_log_start
      THEN raft_apply_record(state, CommitRecord(r.commit_index))
      ELSE state

(* raft_save_snapshot() where it succeeds.                                 *)
raft_save_snapshot(r, new_start, snap) ==
  ovsdb_log_replace_commit(r, raft_write_snapshot(r, new_start, snap))

(* Mutant: last_applied is left alone.                                     *)
install_without_apply(r, rq) ==
  LET new_log_start == rq.last_index + 1
      f == [r EXCEPT !.fresh = TRUE]
  IN  IF new_log_start < log_end(r) \/ r.space = 0
      THEN f
      ELSE raft_get_servers_from_log(
             [raft_save_snapshot(f, new_log_start, rq.last) EXCEPT
                !.log = <<>>,
                !.log_start = new_log_start,
                !.log_synced = new_log_start - 1,
                !.commit_index = new_log_start - 1,
                !.snap = rq.last])

(* Mutant: a snapshot is installed even if our log goes further.           *)
install_always(r, rq) ==
  LET new_log_start == rq.last_index + 1
      f == [r EXCEPT !.fresh = TRUE]
  IN  raft_get_servers_from_log(
        [raft_save_snapshot(f, new_log_start, rq.last) EXCEPT
           !.log = <<>>,
           !.log_start = new_log_start,
           !.log_synced = new_log_start - 1,
           !.commit_index = new_log_start - 1,
           !.last_applied = IF @ < new_log_start - 1
                            THEN new_log_start - 2 ELSE @,
           !.snap = rq.last])

(* raft_handle_install_snapshot_request__(): a snapshot that ends within   *)
(* our log, or before it, is skipped without looking at the term of our    *)
(* entry.                                                                  *)
raft_handle_install_snapshot_request__(r, rq) ==
  LET new_log_start == rq.last_index + 1
      f == [r EXCEPT !.fresh = TRUE]
  IN  IF new_log_start < log_end(r) \/ r.space = 0
      THEN f
      ELSE raft_get_servers_from_log(
             [raft_save_snapshot(f, new_log_start, rq.last) EXCEPT
                !.log = <<>>,
                !.log_start = new_log_start,
                !.log_synced = new_log_start - 1,
                !.commit_index = new_log_start - 1,
                !.last_applied = IF @ < new_log_start - 1
                                 THEN new_log_start - 2 ELSE @,
                !.snap = rq.last])

(* raft_handle_install_snapshot_request(): a snapshot that was skipped is  *)
(* acknowledged too, one that could not be saved is not.                   *)
raft_handle_install_snapshot_request(r, src, rq) ==
  LET i == raft_handle_install_snapshot_request__(r, rq)
  IN  IF rq.last_index + 1 >= log_end(r) /\ r.space = 0
      THEN i
      ELSE raft_send(i, To(src, [type |-> "install_snapshot_reply",
                                 term |-> i.term,
                                 last_index |-> rq.last_index,
                                 last_term |-> rq.last.term]))

(* raft_handle_install_snapshot_reply(): our role is not looked at.        *)
raft_handle_install_snapshot_reply(r, src, rpy) ==
  LET a == [r EXCEPT !.installing = @ \ {src}]
      n == [a EXCEPT !.next_index[src] = a.log_start]
  IN  IF src \notin peers(r) THEN r
      ELSE IF rpy.last_index # r.log_start - 1 \/ rpy.last_term # r.snap.term
      THEN raft_send_install_snapshot_request(a, src)
      ELSE raft_send_append_request(n, [x \in {src} |-> Len(n.log)])

(* raft_may_snapshot().                                                    *)
raft_may_snapshot(r) ==
  /\ ~r.failed
  /\ r.role = "FOLLOWER" \/ Cardinality(r.servers) = 1
  /\ r.last_applied >= r.log_start

(* ovsdb_snapshot(), first call: clones the database for the compaction    *)
(* thread.                                                                 *)
ovsdb_snapshot(r) ==
  [r EXCEPT !.snapping = {[index |-> r.last_applied, db |-> r.db]}]

(* Mutant: the database as it is now is stored, not the clone.             *)
store_current(r, clone) ==
  LET a     == [r EXCEPT !.snapping = {}]
      start == clone.index + 1
      snap  == [term |-> raft_get_term(r, start - 1),
                eid |-> raft_get_eid(r, start - 1),
                servers |-> raft_servers_for_index(r, start - 1),
                db |-> r.db]
  IN  IF r.failed \/ start <= r.log_start \/ r.space = 0
      THEN a
      ELSE [raft_save_snapshot(a, start, snap) EXCEPT
              !.log_synced = log_end(r) - 1,
              !.snap = snap,
              !.log = SubSeq(@, start - r.log_start + 1, Len(@)),
              !.log_start = start]

(* raft_store_snapshot() with what the thread made of the clone; an index  *)
(* past the log fails the assertion in raft_get_entry().                   *)
raft_store_snapshot(r, clone) ==
  LET a     == [r EXCEPT !.snapping = {}]
      start == clone.index + 1
      snap  == [term |-> raft_get_term(r, start - 1),
                eid |-> raft_get_eid(r, start - 1),
                servers |-> raft_servers_for_index(r, start - 1),
                db |-> clone.db]
  IN  IF r.failed \/ start <= r.log_start \/ r.space = 0
      THEN a
      ELSE IF start > log_end(r)
      THEN [a EXCEPT !.aborted = TRUE]
      ELSE [raft_save_snapshot(a, start, snap) EXCEPT
              !.log_synced = log_end(r) - 1,
              !.snap = snap,
              !.log = SubSeq(@, start - r.log_start + 1, Len(@)),
              !.log_start = start]

-----------------------------------------------------------------------------
(* Transfer of leadership.                                                 *)

(* The peers that raft_transfer_leadership() may pick: connected ones with *)
(* the largest match_index, failing that ones that have all that is        *)
(* committed, failing that any.                                            *)
transfer_targets(r) ==
  LET threshold == Largest({r.match_index[s] : s \in peers(r)}, 0)
      above(t)  == {s \in peers(r) \cap r.conns : r.match_index[s] >= t}
  IN  IF above(threshold) # {} THEN above(threshold)
      ELSE IF threshold > r.commit_index /\ above(r.commit_index) # {}
      THEN above(r.commit_index)
      ELSE above(0)

(* raft_transfer_leadership() to s, or to nobody if there is no target; it *)
(* bypasses raft_send() and so never waits for the disk.                   *)
raft_transfer_leadership(r, s) ==
  IF s = ZERO THEN r
  ELSE raft_send_to_conn(r, To(s, [type |-> "become_leader", term |-> r.term]))

raft_handle_become_leader(r) ==
  IF r.role = "FOLLOWER" THEN raft_start_election(r, FALSE, TRUE) ELSE r

-----------------------------------------------------------------------------
(* Commands from clients and followers.                                    *)

(* Whether ovsdb-server may try a transaction based on prereq now.         *)
raft_precheck_prereq(r) ==
  /\ raft_current_eid(r) = r.prereq
  /\ r.role = "LEADER" \/ \A c \in r.commands : c.index # 0

(* raft_command_create_completed().                                        *)
completed(r, eid, status) ==
  [r EXCEPT !.results[eid] = Append(@, [status |-> status, index |-> 0])]

(* raft_command_execute() of the data eid on top of r.prereq.              *)
raft_command_execute(r, eid) ==
  LET rq == [type |-> "execute_command_request", prereq |-> r.prereq,
             result |-> eid]
      i  == raft_command_initiate(r, eid, {}, ZERO, TRUE)
  IN  IF r.failed THEN completed(r, eid, "SHUTDOWN")
      ELSE IF r.role # "LEADER"
      THEN IF r.role # "FOLLOWER" \/ r.leader_sid \notin r.conns
           THEN completed(r, eid, "NOT_LEADER")
           ELSE [raft_send(r, To(r.leader_sid, rq)) EXCEPT
                   !.commands = @ \cup {[eid |-> eid, index |-> 0,
                                         sid |-> ZERO, client |-> TRUE]}]
      ELSE IF r.prereq # raft_current_eid(r)
      THEN completed(r, eid, "BAD_PREREQ")
      ELSE IF i.failed THEN completed(i, eid, "IO_ERROR")
      ELSE i

(* Mutant: the leader does not check the prerequisite.                     *)
execute_without_prereq(r, src, rq) ==
  IF r.role = "LEADER"
  THEN raft_command_initiate(r, rq.result, {}, src, FALSE)
  ELSE raft_send(r, To(src, [type |-> "execute_command_reply",
                             result |-> rq.result, status |-> "NOT_LEADER",
                             commit_index |-> 0]))

(* Mutant: the leader checks the prerequisite after it has appended.       *)
execute_before_prereq(r, src, rq) ==
  LET i == raft_command_initiate(r, rq.result, {}, src, FALSE)
      reply(x, status) ==
        raft_send(x, To(src, [type |-> "execute_command_reply",
                              result |-> rq.result, status |-> status,
                              commit_index |-> 0]))
  IN  IF r.role # "LEADER" THEN reply(r, "NOT_LEADER")
      ELSE IF rq.prereq # raft_current_eid(i) THEN reply(i, "BAD_PREREQ")
      ELSE i

raft_handle_execute_command_request(r, src, rq) ==
  LET i == raft_command_initiate(r, rq.result, {}, src, FALSE)
      reply(x, status) ==
        raft_send(x, To(src, [type |-> "execute_command_reply",
                              result |-> rq.result, status |-> status,
                              commit_index |-> 0]))
  IN  IF r.role # "LEADER" THEN reply(r, "NOT_LEADER")
      ELSE IF rq.prereq # raft_current_eid(r) THEN reply(r, "BAD_PREREQ")
      ELSE IF i.failed THEN reply(i, "IO_ERROR")
      ELSE i

(* Mutant: any reply counts as success.                                    *)
execute_command_reply_succeeds(r, rpy) ==
  raft_command_complete(r, {[c EXCEPT !.index = rpy.commit_index]
                              : c \in {x \in r.commands : x.eid = rpy.result}},
                        "SUCCESS")

raft_handle_execute_command_reply(r, rpy) ==
  raft_command_complete(r, {[c EXCEPT !.index = rpy.commit_index]
                              : c \in {x \in r.commands : x.eid = rpy.result}},
                        rpy.status)

-----------------------------------------------------------------------------
(* Entry points.                                                           *)

(* raft_handle_rpc() for an RPC from src.  A vote request that ought to be *)
(* suppressed only skips the term check, it is handled all the same.       *)
raft_handle_rpc(r, src, rpc) ==
  LET term == raft_rpc_get_term(rpc)
      skip == term = 0 \/ raft_should_suppress_disruptive_server(r, rpc)
      t    == IF skip THEN r ELSE raft_receive_term__(r, term)
  IN  IF ~skip /\ t.term # term
      THEN IF rpc.type = "append_request"
           THEN raft_send_append_reply(t, src, rpc, "INCONSISTENCY")
           ELSE t
      ELSE CASE rpc.type = "append_request" ->
                  raft_handle_append_request(t, src, rpc)
             [] rpc.type = "append_reply" ->
                  raft_handle_append_reply(t, src, rpc)
             [] rpc.type = "vote_request" ->
                  raft_handle_vote_request(t, src, rpc)
             [] rpc.type = "vote_reply" ->
                  raft_handle_vote_reply(t, src, rpc)
             [] rpc.type = "install_snapshot_request" ->
                  raft_handle_install_snapshot_request(t, src, rpc)
             [] rpc.type = "install_snapshot_reply" ->
                  raft_handle_install_snapshot_reply(t, src, rpc)
             [] rpc.type = "become_leader" ->
                  raft_handle_become_leader(t)
             [] rpc.type = "execute_command_request" ->
                  raft_handle_execute_command_request(t, src, rpc)
             [] rpc.type = "execute_command_reply" ->
                  raft_handle_execute_command_reply(t, rpc)

(* raft_waiter_complete_rpc(): which of the deferred RPCs may go out now.  *)
(* One of an older term is dropped; so is one that is still not synced,    *)
(* with an "internal error" message.                                       *)
raft_waiter_complete_rpc(r, rpcs) ==
  LET ready(rpc) == /\ (raft_rpc_get_term(rpc) = 0 \/ raft_rpc_get_term(rpc) >= r.term)
                    /\ raft_is_rpc_synced(r, rpc)
  IN  raft_send_to_conn(r, only(rpcs, {d \in Server :
                                         \A i \in DOMAIN rpcs[d] : ready(rpcs[d][i])}))

raft_waiter_complete(r, w) ==
  CASE w.type = "W_ENTRY" ->
         [(IF r.role = "LEADER" THEN raft_update_our_match_index(r, w.index)
                                ELSE r) EXCEPT !.log_synced = w.index]
    [] w.type = "W_TERM" ->
         [r EXCEPT !.synced_term = w.term, !.synced_vote = w.vote]
    [] w.type = "W_RPC" ->
         raft_waiter_complete_rpc(r, w.rpcs)

(* The waiter that raft_waiters_run() looks at next is complete.           *)
waiter_ready(r) == r.waiters # <<>> /\ Head(r.waiters).commit_ticket = 0

(* One iteration of raft_waiters_run(); the run goes on as long as the     *)
(* next waiter is ready too.                                               *)
raft_waiters_run(r) ==
  LET n == raft_waiter_complete([r EXCEPT !.waiters = Tail(@)],
                                Head(r.waiters))
  IN  [n EXCEPT !.running = waiter_ready(n) /\ ~n.aborted]

(* The part of raft_run() for an election timeout.                         *)
election_timeout(r) ==
  IF r.role = "LEADER"
  THEN IF Cardinality(r.replied \cap r.servers)
            >= Cardinality(r.servers) \div 2
       THEN [r EXCEPT !.replied = @ \ r.servers, !.fresh = TRUE]
       ELSE raft_start_election(raft_become_follower(r), TRUE, FALSE)
  ELSE raft_start_election(r, Cardinality(r.servers) > 1, FALSE)

(* The part of raft_run() for a ping timeout, when the commands in expired *)
(* have waited for twice the election timer.                               *)
ping_timeout(r, expired) ==
  LET h    == IF r.role = "LEADER" THEN raft_send_heartbeats(r) ELSE r
      lost == {c \in expired : c.index # 0 /\ h.role # "LEADER"}
  IN  raft_command_complete(raft_command_complete(h, lost, "LOST_LEADERSHIP"),
                            expired \ lost, "TIMEOUT")

(* The assertions of raft_peek_next_entry().                               *)
index_invariant(r) ==
  /\ r.log_start <= r.last_applied + 2
  /\ r.last_applied <= r.commit_index
  /\ r.commit_index < log_end(r)

(* read_db() in ovsdb-server.c: raft_next_entry() until there is none.     *)
read_db(r) ==
  LET reset == r.log_start = r.last_applied + 2
      start == IF reset THEN r.log_start ELSE r.last_applied + 1
      data  == {i \in start .. r.commit_index :
                  raft_entry_has_data(raft_get_entry(r, i))}
  IN  IF ~index_invariant(r)
      THEN [r EXCEPT !.aborted = TRUE]
      ELSE [r EXCEPT
         !.db = (IF reset THEN r.snap.db ELSE @)
                  \cup {<<i, raft_get_entry(r, i).eid>> : i \in data},
         !.prereq = IF data # {} \/ reset
                    THEN raft_get_eid(r, r.commit_index) ELSE @,
         !.last_applied = r.commit_index]

(* raft_close__(): pending commands are given up, connections closed.      *)
raft_close__(r) ==
  [raft_command_complete(r, r.commands, "SHUTDOWN") EXCEPT !.conns = {}]

(* A server that is not running, with img in its file.  The other members  *)
(* have the values raft_open() will give them.                             *)
raft_alloc(sid, img) ==
  [sid |-> sid, servers |-> raft_servers_for_index(img, log_end(img) - 1),
   term |-> img.term, vote |-> img.vote,
   synced_term |-> img.term, synced_vote |-> img.vote,
   log |-> img.log, log_start |-> img.log_start,
   log_synced |-> log_end(img) - 1, snap |-> img.snap,
   commit_index |-> img.commit_index,
   last_applied |-> img.log_start - 2,
   role |-> "FOLLOWER", leader_sid |-> ZERO, fresh |-> TRUE,
   n_votes |-> 0, prevote_passed |-> FALSE,
   votes |-> [s \in Server |-> ZERO],
   next_index |-> [s \in Server |-> log_end(img)],
   match_index |-> [s \in Server |-> 0],
   replied |-> {}, installing |-> {},
   waiters |-> <<>>, commands |-> {}, conns |-> {},
   db |-> {}, prereq |-> ZERO, snapping |-> {},
   disk |-> <<img>>, space |-> 0,
   up |-> FALSE, failed |-> FALSE, closing |-> FALSE, aborted |-> FALSE,
   overrun |-> FALSE, running |-> FALSE,
   out |-> [s \in Server |-> <<>>], results |-> [c \in Cmd |-> <<>>]]

(* raft_open() where it succeeds.                                          *)
raft_open(r) ==
  LET o == [r EXCEPT !.up = TRUE]
  IN  IF r.servers = {r.sid}
      THEN [raft_start_election(o, FALSE, FALSE) EXCEPT !.fresh = TRUE]
      ELSE o

raft_open_succeeds(r) == written(r).ok /\ r.sid \in r.servers
=============================================================================
