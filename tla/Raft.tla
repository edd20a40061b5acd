-------------------------------- MODULE Raft --------------------------------
(***************************************************************************)
(* A cluster of OVSDB servers: the servers of module RaftServer, each with *)
(* its file, and the connections between them.                             *)
(*                                                                         *)
(* Each connection is reliable and ordered (JSON-RPC over TCP or SSL): the *)
(* RPCs from s to d form a queue net[s][d].  Breaking a connection loses   *)
(* what is queued on it in both directions.  A crash loses what was sent   *)
(* to the server that crashed; what it had sent may still arrive, however  *)
(* late.                                                                   *)
(*                                                                         *)
(* A step of a server is one iteration of one loop in raft_run(): one RPC  *)
(* received, one timer, one waiter; or one call into raft.c by the rest of *)
(* ovsdb-server.  The iterations of one raft_waiters_run() are not         *)
(* interleaved with other steps: they touch nothing that another server    *)
(* reads but the ends of queues.                                           *)
(*                                                                         *)
(* leaders, granted, committed, issued and outcome are history variables:  *)
(* the LEADER records written, the votes sent, the entries ever counted as *)
(* committed, the commands issued with what they were based on, and what   *)
(* clients were told.                                                      *)
(***************************************************************************)
EXTENDS RaftServer

CONSTANTS
  Space,           \* how many writes may succeed within a step
  PowerLoss,       \* whether a crash may lose writes that were not synced
  LatePrevotes,    \* whether a pre-vote request may reach a server whose
                   \* term has passed that of the request
  MaxTerm,         \* bound on terms
  MaxLog,          \* bound on log_end
  MaxChan,         \* bound on the RPCs queued from one server to another
  MaxTimeouts,     \* bound on election timeouts
  MaxPings,        \* bound on ping timeouts
  MaxCrashes,      \* bound on crashes and shutdowns
  MaxDisconnects,  \* bound on broken connections
  MaxSnapshots     \* bound on snapshots begun

ASSUME SpaceAssumption == Space \subseteq Nat
ASSUME FlagsAssumption == {PowerLoss, LatePrevotes} \subseteq BOOLEAN
ASSUME BoundsAssumption ==
  {MaxTerm, MaxLog, MaxChan, MaxTimeouts, MaxPings, MaxCrashes,
   MaxDisconnects, MaxSnapshots} \subseteq Nat

VARIABLES
  server,     \* the servers
  net,        \* RPCs in flight
  spent,      \* how much of each bound is used up
  leaders,    \* <<term, sid>> for every leader recorded
  granted,    \* <<sid, term, vote>> for every vote sent
  committed,  \* <<term, index, entry>> for every entry counted as committed
              \* by a server in that term
  issued,     \* <<command, prereq>> for every command a client issued
  outcome     \* the results that the client of each command was told

vars == <<server, net, spent, leaders, granted, committed, issued, outcome>>

-----------------------------------------------------------------------------
(* A freshly started cluster whose last leader was x and in which everyone *)
(* has compacted its log; index and terms count from there.                *)

InitialImage(x) ==
  raft_apply_record(
    raft_read_header(1, [term |-> 1, eid |-> ZERO, servers |-> Server,
                         db |-> {}]),
    TermRecord(1, x))

Init ==
  /\ \E x \in Server :
       server = [s \in Server |->
                   [read_db(raft_open(raft_alloc(s, InitialImage(x)))) EXCEPT
                      !.conns = Server \ {s}]]
  /\ net = [s \in Server |-> [d \in Server |-> <<>>]]
  /\ spent = [timeouts |-> 0, pings |-> 0, crashes |-> 0, disconnects |-> 0,
              snapshots |-> 0]
  /\ leaders = {}
  /\ granted = {}
  /\ committed = {}
  /\ issued = {}
  /\ outcome = [c \in Cmd |-> <<>>]

-----------------------------------------------------------------------------
(* Steps.                                                                  *)

(* No server is within raft_waiters_run().                                 *)
Idle == \A s \in Server : ~server[s].running

(* s can make calls into raft.c; it can be in raft_run(), which returns at *)
(* once if the server has failed before.                                   *)
Alive(s) == Idle /\ server[s].up /\ ~server[s].aborted

InRun(s) == Alive(s) /\ (~server[s].failed \/ server[s].closing)

(* s with room for k writes.                                               *)
With(s, k) == [server[s] EXCEPT !.space = k]

(* The votes that leave s: those it replies with, and that for itself when *)
(* it asks for others.                                                     *)
VotesSent(s, r) ==
  UNION {LET sent == {r.out[d][i] : i \in DOMAIN r.out[d]}
         IN  {<<s, m.term, m.vote>> :
                m \in {x \in sent : x.type = "vote_reply" /\ ~x.is_prevote}}
               \cup {<<s, m.term, s>> :
                m \in {x \in sent : x.type = "vote_request" /\ ~x.is_prevote}}
           : d \in Server}

NewlyCommitted(s, r) ==
  {<<r.term, i, raft_get_entry(r, i)>> :
     i \in Larger(server[s].commit_index + 1, r.log_start)
             .. Smaller(r.commit_index, log_end(r) - 1)}

(* s becomes r, its RPCs leave and its results are reported.  What is sent *)
(* to a server that is down, or has no connection to s, is lost, and so is *)
(* what a handler that fails an assertion has sent.                        *)
Become(s, r, queues) ==
  LET sent(d) == IF server[d].up /\ s \in server[d].conns /\ ~r.aborted
                 THEN r.out[d] ELSE <<>>
  IN
  /\ r.term <= MaxTerm
  /\ log_end(r) <= MaxLog
  /\ \A d \in Server : Len(queues[s][d] \o sent(d)) <= MaxChan
  /\ server' = [server EXCEPT ![s] =
                  [r EXCEPT !.out = [d \in Server |-> <<>>],
                            !.results = [c \in Cmd |-> <<>>],
                            !.space = 0]]
  /\ net' = [queues EXCEPT ![s] = [d \in Server |-> @[d] \o sent(d)]]
  /\ leaders' = IF r.leader_sid = ZERO THEN leaders
                ELSE leaders \cup {<<r.term, r.leader_sid>>}
  /\ granted' = granted \cup VotesSent(s, r)
  /\ committed' = committed \cup NewlyCommitted(s, r)
  /\ outcome' = [c \in Cmd |-> outcome[c] \o r.results[c]]

(* The same within raft_run(), which closes a failed server at its end.    *)
(* The process may die of reading outside an array, or go on.              *)
RunBecome(s, r, queues) ==
  \E dies \in {FALSE, r.overrun} :
    Become(s, [r EXCEPT !.closing = r.failed, !.overrun = FALSE,
                        !.aborted = @ \/ dies], queues)

Spend(what, max) ==
  /\ spent[what] < max
  /\ spent' = [spent EXCEPT ![what] = @ + 1]

(* m is a pre-vote request of a term that d has left behind.               *)
late_prevote(d, m) ==
  m.type = "vote_request" /\ m.is_prevote /\ server[d].term > m.term

(* d receives the next RPC from s.                                         *)
Deliver(s, d, k) ==
  /\ net[s][d] # <<>>
  /\ InRun(d)
  /\ LET m == Head(net[s][d])
     IN  /\ late_prevote(d, m) => LatePrevotes
         /\ RunBecome(d, raft_handle_rpc(With(d, k), s, m),
                      [net EXCEPT ![s][d] = Tail(@)])
  /\ UNCHANGED <<spent, issued>>

(* The network lets a pre-vote request come too late.                      *)
DropPrevote(s, d) ==
  /\ ~LatePrevotes
  /\ Idle
  /\ net[s][d] # <<>>
  /\ late_prevote(d, Head(net[s][d]))
  /\ net' = [net EXCEPT ![s][d] = Tail(@)]
  /\ UNCHANGED <<server, spent, leaders, granted, committed, issued, outcome>>

(* raft_waiters_run() at the start of raft_run(), one waiter at a time.    *)
WaitersRun(s, k) ==
  /\ server[s].running \/ InRun(s)
  /\ waiter_ready(server[s])
  /\ RunBecome(s, raft_waiters_run(With(s, k)), net)
  /\ UNCHANGED <<spent, issued>>

(* The thread in ovsdb/log.c completes an fsync() that was asked for when  *)
(* a waiter was created.  Only a loss of power can tell when that was from *)
(* when raft_waiters_run() learns of it, so without one the two are not    *)
(* interleaved with other steps.                                           *)
Fsync(s) ==
  /\ Alive(s)
  /\ \E n \in 1 .. Len(server[s].disk) - 1 :
       LET r == server[s]
           left(w) == IF w.commit_ticket <= n THEN 0 ELSE w.commit_ticket - n
       IN  /\ \E i \in DOMAIN r.waiters : r.waiters[i].commit_ticket = n
           /\ server' = [server EXCEPT ![s] =
                [r EXCEPT !.disk = SubSeq(@, n + 1, Len(@)),
                          !.running = ~PowerLoss /\ InRun(s),
                          !.waiters = [j \in DOMAIN @ |->
                             [@[j] EXCEPT !.commit_ticket = left(r.waiters[j])]]]]
  /\ UNCHANGED <<net, spent, leaders, granted, committed, issued, outcome>>

(* election_timer milliseconds have passed since election_base.  This makes *)
(* a difference only to a follower that is about to receive a vote request. *)
TimePasses(s) ==
  /\ Alive(s)
  /\ server[s].role = "FOLLOWER"
  /\ server[s].fresh
  /\ \E d \in Server : net[d][s] # <<>> /\ Head(net[d][s]).type = "vote_request"
  /\ server' = [server EXCEPT ![s].fresh = FALSE]
  /\ UNCHANGED <<net, spent, leaders, granted, committed, issued, outcome>>

(* The timers of raft_run().                                               *)
ElectionTimeout(s, k) ==
  /\ InRun(s)
  /\ Spend("timeouts", MaxTimeouts)
  /\ RunBecome(s, election_timeout(With(s, k)), net)
  /\ UNCHANGED issued

PingTimeout(s, k) ==
  /\ InRun(s)
  /\ Spend("pings", MaxPings)
  /\ \E expired \in SUBSET server[s].commands :
       RunBecome(s, ping_timeout(With(s, k), expired), net)
  /\ UNCHANGED issued

-----------------------------------------------------------------------------
(* Calls from ovsdb-server.                                                *)

(* A client's transaction is tried.                                        *)
Execute(s, c, k) ==
  /\ Alive(s)
  /\ \A i \in issued : i[1] # c
  /\ raft_precheck_prereq(server[s])
  /\ Become(s, raft_command_execute(With(s, k), c), net)
  /\ issued' = issued \cup {<<c, server[s].prereq>>}
  /\ UNCHANGED spent

(* New entries are read into the database.                                 *)
ReadDb(s) ==
  /\ Alive(s)
  /\ ~server[s].failed
  /\ \/ server[s].last_applied < server[s].commit_index
     \/ ~index_invariant(server[s])
  /\ Become(s, read_db(server[s]), net)
  /\ UNCHANGED <<spent, issued>>

SnapshotBegin(s) ==
  /\ Alive(s)
  /\ raft_may_snapshot(server[s])
  /\ server[s].snapping = {}
  /\ Spend("snapshots", MaxSnapshots)
  /\ Become(s, ovsdb_snapshot(server[s]), net)
  /\ UNCHANGED issued

SnapshotStore(s, k) ==
  /\ Alive(s)
  /\ \E clone \in server[s].snapping :
       Become(s, raft_store_snapshot(With(s, k), clone), net)
  /\ UNCHANGED <<spent, issued>>

(* raft_notify_snapshot_recommended() on a leader that has something to    *)
(* compact.                                                                *)
SnapshotRecommended(s) ==
  /\ Alive(s)
  /\ ~raft_may_snapshot(server[s])
  /\ server[s].role = "LEADER"
  /\ server[s].last_applied >= server[s].log_start
  /\ Spend("snapshots", MaxSnapshots)
  /\ LET r == server[s]
         targets == transfer_targets(r)
     IN  \E t \in IF targets = {} THEN {ZERO} ELSE targets :
           Become(s, raft_become_follower(raft_transfer_leadership(r, t)), net)
  /\ UNCHANGED issued

-----------------------------------------------------------------------------
(* Failures.                                                               *)

(* raft_close__() at the end of a raft_run() in which a write failed.      *)
FailClose(s) ==
  /\ InRun(s)
  /\ server[s].failed
  /\ Become(s, [raft_close__(server[s]) EXCEPT !.closing = FALSE], net)
  /\ UNCHANGED <<spent, issued>>

(* net without what was sent to s.                                         *)
NotTo(s) == [x \in Server |-> [net[x] EXCEPT ![s] = <<>>]]

(* The process dies, by itself or because of a failed assertion.  The file *)
(* keeps what was written, or, if the machine goes down, at least what was *)
(* synced.                                                                 *)
Crash(s) ==
  /\ Idle
  /\ server[s].up
  /\ Spend("crashes", MaxCrashes)
  /\ \E i \in IF PowerLoss THEN DOMAIN server[s].disk
                           ELSE {Len(server[s].disk)} :
       Become(s, raft_alloc(s, server[s].disk[i]), NotTo(s))
  /\ UNCHANGED issued

(* raft_close(): an orderly exit.                                          *)
Shutdown(s) ==
  /\ Alive(s)
  /\ Spend("crashes", MaxCrashes)
  /\ LET targets == IF server[s].role = "LEADER"
                    THEN transfer_targets(server[s]) ELSE {}
     IN  \E t \in IF targets = {} THEN {ZERO} ELSE targets :
           LET r == raft_close__(raft_transfer_leadership(server[s], t))
           IN  Become(s, [raft_alloc(s, written(r)) EXCEPT
                            !.out = r.out, !.results = r.results], NotTo(s))
  /\ UNCHANGED issued

(* ovsdb-server starts: raft_open(), then read_db().                       *)
Restart(s, k) ==
  /\ Idle
  /\ ~server[s].up
  /\ raft_open_succeeds(server[s])
  /\ Become(s, read_db(raft_open(With(s, k))), net)
  /\ UNCHANGED <<spent, issued>>

(* One end of a connection that was broken or made.                        *)
Unlink(r, d) == [r EXCEPT !.conns = @ \ {d}, !.installing = @ \ {d}]
Link(r, d)   == [r EXCEPT !.conns = @ \cup {d}, !.installing = @ \ {d}]

Disconnect(s, d) ==
  /\ Idle
  /\ s # d
  /\ d \in server[s].conns
  /\ Spend("disconnects", MaxDisconnects)
  /\ server' = [server EXCEPT ![s] = Unlink(@, d), ![d] = Unlink(@, s)]
  /\ net' = [net EXCEPT ![s][d] = <<>>, ![d][s] = <<>>]
  /\ UNCHANGED <<leaders, granted, committed, issued, outcome>>

Connect(s, d) ==
  /\ s # d
  /\ InRun(s) /\ InRun(d)
  /\ d \notin server[s].conns \/ s \notin server[d].conns
  /\ server' = [server EXCEPT ![s] = Link(@, d), ![d] = Link(@, s)]
  /\ UNCHANGED <<net, spent, leaders, granted, committed, issued, outcome>>

-----------------------------------------------------------------------------
Next ==
  \E s \in Server :
    \/ \E k \in Space :
         \/ \E d \in Server : Deliver(d, s, k)
         \/ WaitersRun(s, k)
         \/ ElectionTimeout(s, k)
         \/ PingTimeout(s, k)
         \/ \E c \in Cmd : Execute(s, c, k)
         \/ SnapshotStore(s, k)
         \/ Restart(s, k)
    \/ Fsync(s)
    \/ TimePasses(s)
    \/ ReadDb(s)
    \/ SnapshotBegin(s)
    \/ SnapshotRecommended(s)
    \/ FailClose(s)
    \/ Crash(s)
    \/ Shutdown(s)
    \/ \E d \in Server :
         \/ DropPrevote(d, s)
         \/ Disconnect(s, d)
         \/ Connect(s, d)

Spec == Init /\ [][Next]_vars

(* The main loop of ovsdb-server polls every connection, the fsync thread  *)
(* and the log, and none of them stops it from looking at the others.      *)
(* This is weak fairness of each action, with the condition under which it *)
(* is enabled, the bounds aside, written out.                              *)
Fairness ==
  \A s \in Server :
    /\ \/ []<>~(waiter_ready(server[s]) /\ (server[s].running \/ InRun(s)))
       \/ []<><<\E k \in Space : WaitersRun(s, k)>>_vars
    /\ \/ []<>~(Alive(s) /\ \E i \in DOMAIN server[s].waiters :
                              server[s].waiters[i].commit_ticket > 0)
       \/ []<><<Fsync(s)>>_vars
    /\ \/ []<>~(Alive(s) /\ server[s].last_applied < server[s].commit_index)
       \/ []<><<ReadDb(s)>>_vars
    /\ \A d \in Server : \/ []<>~(InRun(s) /\ net[d][s] # <<>>)
                         \/ []<><<\E k \in Space : Deliver(d, s, k)>>_vars

-----------------------------------------------------------------------------
(* Properties.                                                             *)

(* Every member of every struct raft, every image of every file and every  *)
(* RPC in flight has its type.  In particular log_start stays past the     *)
(* snapshot, so that "log_start - 2" does not wrap around as               *)
(* "next_index - 1" does.                                                  *)
TypeOK ==
  /\ server \in [Server -> RaftState]
  /\ net \in [Server -> [Server -> Seq(Rpc)]]
  /\ spent \in [{"timeouts", "pings", "crashes", "disconnects", "snapshots"}
                 -> Nat]
  /\ leaders \subseteq Nat \X Server
  /\ granted \subseteq Server \X Nat \X Sid
  /\ committed \subseteq Nat \X Nat \X Entry
  /\ issued \subseteq Cmd \X Eid
  /\ outcome \in Results

(* Election safety, as "ovsdb-tool check-cluster" checks it on the LEADER  *)
(* records: at most one server is leader in a term.                        *)
ElectionSafety ==
  \A l, m \in leaders : l[1] = m[1] => l[2] = m[2]

(* The elections of raft.c implement those of module RaftVoting: a vote    *)
(* goes to one candidate in a term, and whoever becomes leader has been    *)
(* sent the votes of a majority.  Answers to pre-vote requests, and those  *)
(* of another term, never make up for votes.                               *)
V == INSTANCE RaftVoting WITH Term <- 0 .. MaxTerm
VotingSpec == V!Spec

(* A server sends at most one vote in a term, whatever it does in between: *)
(* crash, restart from its file, fail to write it.                         *)
OneVotePerTerm ==
  \A g, h \in granted : g[1] = h[1] /\ g[2] = h[2] => g[3] = h[3]

(* "Must be updated on stable storage before responding to RPCs": whatever *)
(* a crash leaves of the file, a vote that was sent is in it, or a later   *)
(* term is.                                                                *)
VotesAreDurable ==
  \A g \in granted :
    \A i \in DOMAIN server[g[1]].disk :
      LET f == server[g[1]].disk[i]
      IN  f.ok => f.term > g[2] \/ (f.term = g[2] /\ f.vote = g[3])

(* "Must be updated on stable storage before responding to RPCs", of the   *)
(* log: the entries that a server has acknowledged to the leader of its    *)
(* term are at least in its file, and the file can be read.                *)
AcknowledgedIsWritten ==
  \A s, d \in Server : \A i \in DOMAIN net[s][d] :
    LET m == net[s][d][i]
        f == written(server[s])
    IN  /\ m.type = "append_reply"
        /\ m.result = "OK"
        /\ m.term = server[s].term
        => f.ok /\ m.prev_log_index + m.n_entries < log_end(f)

(* Log matching, as check-cluster checks it: if two logs have an entry     *)
(* with the same index and term, the entries are the same and so are all   *)
(* those before them.                                                      *)
LogMatching ==
  \A s, d \in Server :
    LET a == server[s]
        b == server[d]
        first == Larger(a.log_start, b.log_start)
        last  == Smaller(log_end(a), log_end(b)) - 1
    IN  \A i \in first .. last :
          raft_get_entry(a, i).term = raft_get_entry(b, i).term
            => \A j \in first .. i : raft_get_entry(a, j) = raft_get_entry(b, j)

(* State machine safety: no two servers, at whatever time, count different *)
(* entries as committed at one index.                                      *)
StateMachineSafety ==
  \A c, d \in committed : c[2] = d[2] => c[3] = d[3]

(* Leader completeness, as check-cluster checks it: a leader has every     *)
(* entry that was committed in an earlier term.                            *)
LeaderCompleteness ==
  \A s \in Server : server[s].role = "LEADER" =>
    \A c \in committed : c[1] < server[s].term /\ c[2] >= server[s].log_start =>
      c[2] < log_end(server[s]) /\ raft_get_entry(server[s], c[2]) = c[3]

(* The data that was committed up to index.                                *)
CommittedData(index) ==
  {<<c[2], c[3].eid>> : c \in {x \in committed : x[2] <= index
                                                 /\ raft_entry_has_data(x[3])}}

(* What read_db() made of the log and of snapshots is the committed data   *)
(* up to last_applied, and so is every snapshot, whoever wrote it and      *)
(* however old the clone was from which it was made.                       *)
DbIsCommitted ==
  \A s \in Server :
    LET r == server[s]
    IN  /\ r.up /\ r.last_applied >= r.log_start - 1
             => r.db = CommittedData(r.last_applied)
        /\ r.snap.db = CommittedData(r.log_start - 1)

(* The transaction before index i.                                         *)
DataBefore(db, i) ==
  LET before == {x \in db : x[1] < i}
  IN  IF before = {} THEN ZERO
      ELSE (CHOOSE x \in before : \A y \in before : y[1] <= x[1])[2]

(* Each transaction takes effect on exactly the database it was computed   *)
(* from: the one before it is its prerequisite.                            *)
PrereqHolds ==
  \A s \in Server : \A x \in server[s].db :
    <<x[2], DataBefore(server[s].db, x[1])>> \in issued

(* The client of command c was told status.                                *)
Told(c, status) == \E i \in DOMAIN outcome[c] : outcome[c][i].status = status

(* A client is told SUCCESS only of a transaction that is committed, at    *)
(* the index it is told.                                                   *)
SuccessIsCommitted ==
  \A c \in Cmd : \A i \in DOMAIN outcome[c] :
    outcome[c][i].status = "SUCCESS" =>
      \E e \in committed : e[2] = outcome[c][i].index /\ e[3].eid = c

(* A transaction that was refused, because no leader was known or the      *)
(* database had changed, is never committed.  raft.h promises this of no   *)
(* other failure.                                                          *)
RefusedIsNotCommitted ==
  \A c \in Cmd : Told(c, "NOT_LEADER") \/ Told(c, "BAD_PREREQ") =>
    \A e \in committed : e[3].eid # c

(* A client is told the outcome of its transaction once: not by the reply  *)
(* of the leader and again when the entry arrives, nor by either after a   *)
(* timeout.                                                                *)
OneOutcome == \A c \in Cmd : Len(outcome[c]) <= 1

(* The invariants in the comment on struct raft, the first of which        *)
(* raft_peek_next_entry() asserts:                                         *)
(*     log_start - 2 <= last_applied <= commit_index < log_end             *)
(*     log_start - 1                 <= commit_index < log_end             *)
IndexInvariant ==
  \A s \in Server : /\ index_invariant(server[s])
                    /\ server[s].log_start - 1 <= server[s].commit_index

(* What is in the file, synced or not, is what is in memory: a restart of  *)
(* the process would lose nothing.                                         *)
FileMatchesMemory ==
  \A s \in Server :
    LET r == server[s]
        f == written(r)
    IN  /\ f.ok
        /\ f.term = r.term /\ f.vote = r.vote
        /\ f.log_start = r.log_start /\ f.snap = r.snap /\ f.log = r.log
        /\ f.commit_index = r.commit_index


(* As long as a server runs, its database never goes back and what it      *)
(* counts as committed stays in its log or goes into its snapshot.         *)
NoRollback ==
  [][\A s \in Server : server[s].up /\ server'[s].up =>
       /\ server[s].db \subseteq server'[s].db
       /\ server[s].commit_index <= server'[s].commit_index
       /\ \A i \in Larger(server[s].log_start, server'[s].log_start)
                     .. server[s].commit_index :
            raft_get_entry(server'[s], i) = raft_get_entry(server[s], i)]_vars

(* Every transaction that a server accepts is eventually reported to its   *)
(* client, by way of the disks, the replies of the followers and, if it    *)
(* was relayed, the reply of the leader.                                   *)
CommandsComplete ==
  \A c \in Cmd : (\E i \in issued : i[1] = c) ~> outcome[c] # <<>>

(* A transaction reported to be committed eventually shows in the database *)
(* of every server, without waiting for another one.                       *)
DataSpreads ==
  \A c \in Cmd : Told(c, "SUCCESS")
                   ~> (\A s \in Server : \E x \in server[s].db : x[2] = c)
=============================================================================
