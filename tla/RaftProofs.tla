----------------------------- MODULE RaftProofs -----------------------------
(***************************************************************************)
(* What holds of a cluster of any number of servers, with any number of    *)
(* commands, crashes and so on: the theorems about module Raft.            *)
(***************************************************************************)
EXTENDS Raft, RaftServerProofs

(* How long a prover may take where a proof does not say which one to use. *)
USE SMTT(20), ZenonT(20)

-----------------------------------------------------------------------------
(* Types.                                                                  *)

(* The channels are, for each sender, queues of RPCs.                      *)
LEMMA NetIsRpcs == [Server -> [Server -> Seq(Rpc)]] = [Server -> Rpcs]
BY DEF Rpcs

(* Empty queues are queues of RPCs.                                        *)
LEMMA NoRpcs == [d \in Server |-> <<>>] \in Rpcs
<1>1. <<>> \in Seq(Rpc)
  OBVIOUS
<1> QED BY <1>1 DEF Rpcs

(* What leaves a server is typed: the votes it sends ...                   *)
LEMMA VotesSentType ==
  ASSUME NEW s \in Server, NEW r \in RaftState
  PROVE  VotesSent(s, r) \subseteq Server \X Nat \X Sid
<1> SUFFICES ASSUME NEW g \in VotesSent(s, r)
             PROVE  g \in Server \X Nat \X Sid
  OBVIOUS
<1>1. r.out \in Rpcs
  BY Members
<1>2. PICK d \in Server :
        LET sent == {r.out[d][i] : i \in DOMAIN r.out[d]}
        IN  g \in {<<s, m.term, m.vote>> :
                     m \in {x \in sent : x.type = "vote_reply" /\ ~x.is_prevote}}
                  \cup {<<s, m.term, s>> :
                     m \in {x \in sent : x.type = "vote_request" /\ ~x.is_prevote}}
  BY DEF VotesSent
<1>3. \A m \in {r.out[d][i] : i \in DOMAIN r.out[d]} : m \in Rpc
  <2>1. r.out[d] \in Seq(Rpc)
    BY <1>1 DEF Rpcs
  <2> QED BY <2>1
<1> DEFINE sent == {r.out[d][i] : i \in DOMAIN r.out[d]}
<1> HIDE DEF sent
<1>4. \/ \E m \in sent : m.type = "vote_reply" /\ g = <<s, m.term, m.vote>>
      \/ \E m \in sent : m.type = "vote_request" /\ g = <<s, m.term, s>>
  BY Zenon, <1>2 DEF sent
<1>5. CASE \E m \in sent : m.type = "vote_reply" /\ g = <<s, m.term, m.vote>>
  <2>1. PICK m \in sent : m.type = "vote_reply" /\ g = <<s, m.term, m.vote>>
    BY <1>5
  <2>2. m.term \in Nat /\ m.vote \in Sid
    BY <1>3, <2>1, RpcMembers DEF sent
  <2> QED BY <2>1, <2>2
<1>6. CASE \E m \in sent : m.type = "vote_request" /\ g = <<s, m.term, s>>
  <2>1. PICK m \in sent : m.type = "vote_request" /\ g = <<s, m.term, s>>
    BY <1>6
  <2>2. m.term \in Nat /\ s \in Sid
    BY <1>3, <2>1, RpcMembers DEF sent, Sid
  <2> QED BY <2>1, <2>2
<1> QED BY <1>4, <1>5, <1>6

(* ... and the entries it counts as committed, which are in its log.       *)
LEMMA NewlyCommittedType ==
  ASSUME server \in [Server -> RaftState], NEW s \in Server, NEW r \in RaftState
  PROVE  NewlyCommitted(s, r) \subseteq Nat \X Nat \X Entry
<1> SUFFICES ASSUME NEW i \in Larger(server[s].commit_index + 1, r.log_start)
                                .. Smaller(r.commit_index, log_end(r) - 1)
             PROVE  <<r.term, i, raft_get_entry(r, i)>> \in Nat \X Nat \X Entry
  BY Zenon DEF NewlyCommitted
<1>1. /\ r.term \in Nat /\ r.commit_index \in Nat /\ r.log_start \in Nat
      /\ log_end(r) \in Nat /\ server[s].commit_index \in Nat
  BY Members, RaftHasLog, LogEndType
<1>2. i \in r.log_start .. log_end(r) - 1 /\ i \in Nat
  BY <1>1 DEF Larger, Smaller
<1>3. raft_get_entry(r, i) \in Entry
  BY <1>2, RaftHasLog, GetEntryType
<1> QED BY <1>1, <1>2, <1>3

(* A server that has taken a step and handed over what it sent.            *)
LEMMA SettledType ==
  ASSUME NEW r \in RaftState
  PROVE  [r EXCEPT !.out = [d \in Server |-> <<>>],
                   !.results = [c \in Cmd |-> <<>>], !.space = 0] \in RaftState
<1>1. 0 \in Nat
  OBVIOUS
<1> QED BY Zenon, <1>1, NoRpcs, NoResults, Set_out, Set_results, Set_space

(* What Become does to the variables of the cluster keeps their types.     *)
LEMMA BecomeType ==
  ASSUME TypeOK, NEW s \in Server, NEW r \in RaftState,
         NEW queues \in [Server -> Rpcs], Become(s, r, queues)
  PROVE  /\ server' \in [Server -> RaftState]
         /\ net' \in [Server -> Rpcs]
         /\ leaders' \subseteq Nat \X Server
         /\ granted' \subseteq Server \X Nat \X Sid
         /\ committed' \subseteq Nat \X Nat \X Entry
         /\ outcome' \in Results
<1> DEFINE new == [r EXCEPT !.out = [d \in Server |-> <<>>],
                            !.results = [c \in Cmd |-> <<>>], !.space = 0]
           sent == [d \in Server |->
                      IF server[d].up /\ s \in server[d].conns /\ ~r.aborted
                      THEN r.out[d] ELSE <<>>]
<1>1. /\ server \in [Server -> RaftState]
      /\ leaders \subseteq Nat \X Server
      /\ granted \subseteq Server \X Nat \X Sid
      /\ committed \subseteq Nat \X Nat \X Entry
      /\ outcome \in Results
  BY DEF TypeOK
<1>2. /\ server' = [server EXCEPT ![s] = new]
      /\ net' = [queues EXCEPT ![s] =
                   [d \in Server |-> @[d] \o
                      (IF server[d].up /\ s \in server[d].conns /\ ~r.aborted
                       THEN r.out[d] ELSE <<>>)]]
      /\ leaders' = IF r.leader_sid = ZERO THEN leaders
                    ELSE leaders \cup {<<r.term, r.leader_sid>>}
      /\ granted' = granted \cup VotesSent(s, r)
      /\ committed' = committed \cup NewlyCommitted(s, r)
      /\ outcome' = [c \in Cmd |-> outcome[c] \o r.results[c]]
  BY Zenon DEF Become
<1>3. server' \in [Server -> RaftState]
  <2>1. new \in RaftState
    BY Zenon, SettledType
  <2> HIDE DEF new
  <2> QED BY <1>1, <1>2, <2>1
<1>4. net' \in [Server -> Rpcs]
  <2>1. r.out \in Rpcs
    BY Members
  <2>2. sent \in Rpcs
    BY <2>1 DEF Rpcs
  <2>3. net' = [queues EXCEPT ![s] = [d \in Server |-> queues[s][d] \o sent[d]]]
    BY Zenon, <1>2
  <2> HIDE DEF sent
  <2>4. [d \in Server |-> queues[s][d] \o sent[d]] \in Rpcs
    <3>1. queues[s] \in Rpcs
      OBVIOUS
    <3> QED BY <2>2, <3>1 DEF Rpcs
  <2> DEFINE q == [d \in Server |-> queues[s][d] \o sent[d]]
  <2> HIDE DEF q
  <2>5. [queues EXCEPT ![s] = q] \in [Server -> Rpcs]
    BY <2>4 DEF q
  <2> QED BY <2>3, <2>5 DEF q
<1> HIDE DEF new, sent
<1>5. leaders' \subseteq Nat \X Server
  <2>1. r.term \in Nat /\ r.leader_sid \in Sid
    BY Members
  <2> QED BY SMTT(60), <1>1, <1>2, <2>1 DEF Sid
<1>6. granted' \subseteq Server \X Nat \X Sid
  BY <1>1, <1>2, VotesSentType
<1>7. committed' \subseteq Nat \X Nat \X Entry
  BY <1>1, <1>2, NewlyCommittedType
<1>8. outcome' \in Results
  <2>1. r.results \in Results
    BY Members
  <2>2. outcome \in Results /\ outcome' = [c \in Cmd |-> outcome[c] \o r.results[c]]
    BY Zenon, <1>1, <1>2
  <2> QED BY <2>1, <2>2 DEF Results
<1> QED BY <1>3, <1>4, <1>5, <1>6, <1>7, <1>8

(* The same for a step within raft_run().                                  *)
LEMMA RunBecomeType ==
  ASSUME TypeOK, NEW s \in Server, NEW r \in RaftState,
         NEW queues \in [Server -> Rpcs], RunBecome(s, r, queues)
  PROVE  /\ server' \in [Server -> RaftState]
         /\ net' \in [Server -> Rpcs]
         /\ leaders' \subseteq Nat \X Server
         /\ granted' \subseteq Server \X Nat \X Sid
         /\ committed' \subseteq Nat \X Nat \X Entry
         /\ outcome' \in Results
<1>1. PICK dies \in {FALSE, r.overrun} :
        Become(s, [r EXCEPT !.closing = r.failed, !.overrun = FALSE,
                            !.aborted = @ \/ dies], queues)
  BY Zenon DEF RunBecome
<1> DEFINE q == [r EXCEPT !.closing = r.failed, !.overrun = FALSE,
                          !.aborted = @ \/ dies]
<1>2. r.failed \in Flag /\ FALSE \in Flag /\ (r.aborted \/ dies) \in Flag
  BY Zenon, Members, Flags DEF Flag
<1>3. q \in RaftState
  BY Zenon, <1>2, Set_closing, Set_overrun, Set_aborted
<1>4. Become(s, q, queues)
  BY Zenon, <1>1
<1> HIDE DEF q
<1> QED BY Zenon, <1>3, <1>4, BecomeType

(* Giving a server room on its disk keeps its type.                        *)
LEMMA WithType ==
  ASSUME server \in [Server -> RaftState], NEW s \in Server, NEW k \in Nat
  PROVE  With(s, k) \in RaftState
BY Zenon, Set_space DEF With

(* The bounds that Spend() counts against.                                 *)
Budgets == {"timeouts", "pings", "crashes", "disconnects", "snapshots"}

(* Using up a bound keeps the type of the counters.                        *)
LEMMA SpendType ==
  ASSUME TypeOK, NEW what \in Budgets, NEW max, Spend(what, max)
  PROVE  spent' \in [Budgets -> Nat]
<1>1. spent \in [Budgets -> Nat] /\ spent' = [spent EXCEPT ![what] = spent[what] + 1]
  BY DEF TypeOK, Spend, Budgets
<1> QED BY <1>1

(* Breaking or making a connection.                                        *)
LEMMA LinkType ==
  ASSUME NEW r \in RaftState, NEW d \in Server
  PROVE  Link(r, d) \in RaftState /\ Unlink(r, d) \in RaftState
<1>1. /\ r.conns \cup {d} \in Servers /\ r.conns \ {d} \in Servers
      /\ r.installing \ {d} \in Servers
  BY Members DEF Servers
<1> QED BY Zenon, <1>1, Set_conns, Set_installing DEF Link, Unlink

(* The fsync thread drops images from the front of disk, never the last    *)
(* one, and counts the tickets down.                                       *)
LEMMA FsyncType ==
  ASSUME NEW r \in RaftState, NEW n \in 1 .. Len(r.disk) - 1, NEW running \in Flag
  PROVE  LET left(w) == IF w.commit_ticket <= n THEN 0 ELSE w.commit_ticket - n
         IN  [r EXCEPT !.disk = SubSeq(@, n + 1, Len(@)),
                       !.running = running,
                       !.waiters = [j \in DOMAIN @ |->
                          [@[j] EXCEPT !.commit_ticket = left(r.waiters[j])]]]
               \in RaftState
<1> DEFINE left(w) == IF w.commit_ticket <= n THEN 0 ELSE w.commit_ticket - n
           disk    == SubSeq(r.disk, n + 1, Len(r.disk))
           waiters == [j \in DOMAIN r.waiters |->
                         [r.waiters[j] EXCEPT !.commit_ticket = left(r.waiters[j])]]
<1>1. r.disk \in Disk /\ r.waiters \in Waiters
  BY Members
<1>2. disk \in Disk
  <2>1. r.disk \in Seq(Image) /\ Len(r.disk) \in Nat
    BY <1>1, DiskMembers
  <2>2. disk \in Seq(Image) /\ Len(disk) = Len(r.disk) - n
    BY <2>1
  <2>3. Len(disk) > 0
    BY <2>1, <2>2
  <2> HIDE DEF disk
  <2> QED BY <2>2, <2>3 DEF Disk
<1>3. waiters \in Waiters
  <2>1. ASSUME NEW j \in DOMAIN r.waiters
        PROVE  [r.waiters[j] EXCEPT !.commit_ticket = left(r.waiters[j])] \in Waiter
    <3>1. r.waiters[j] \in Waiter
      BY <1>1 DEF Waiters
    <3>2. r.waiters[j].commit_ticket \in Nat
          /\ (r.waiters[j].type = "W_RPC" => r.waiters[j].commit_ticket = 0)
      BY <3>1, WaiterMembers
    <3>3. left(r.waiters[j]) \in Nat
          /\ (r.waiters[j].type = "W_RPC" => left(r.waiters[j]) = 0)
      BY SMTT(60), <3>2
    <3> HIDE DEF left
    <3> QED BY SMTT(60), <3>1, <3>3, SetTicket
  <2>2. waiters \in [DOMAIN r.waiters -> Waiter]
    BY Zenon, <2>1
  <2> HIDE DEF waiters
  <2> QED BY <1>1, <2>2, MapWaiters
<1> QED BY Zenon, <1>2, <1>3, Set_disk, Set_running, Set_waiters

(* The file of a new cluster is a file image.                              *)
LEMMA InitialImageType ==
  ASSUME NEW x \in Server
  PROVE  InitialImage(x) \in Image
<1> DEFINE snap == [term |-> 1, eid |-> ZERO, servers |-> Server, db |-> {}]
<1>1. snap \in Snapshot
  BY Zenon, Zero DEF Snapshot, Db
<1> HIDE DEF snap
<1>2. raft_read_header(1, snap) \in Image
  BY SMTT(60), <1>1, ReadHeaderType
<1>3. TermRecord(1, x) \in Record
  BY Zenon, TermRecordType DEF Sid
<1> QED BY Zenon, <1>2, <1>3, ApplyRecordType DEF InitialImage, snap

(* Types are correct in the initial state.                                 *)
LEMMA TypeOKInit ==
  Init => TypeOK
<1> SUFFICES ASSUME Init PROVE TypeOK
  OBVIOUS
<1>1. PICK x \in Server :
        server = [s \in Server |->
                    [read_db(raft_open(raft_alloc(s, InitialImage(x)))) EXCEPT
                       !.conns = Server \ {s}]]
  BY Zenon DEF Init
<1>2. ASSUME NEW s \in Server
      PROVE  [read_db(raft_open(raft_alloc(s, InitialImage(x)))) EXCEPT
                !.conns = Server \ {s}] \in RaftState
  <2>1. Server \ {s} \in Servers
    BY Zenon DEF Servers
  <2> QED BY Zenon, <2>1, InitialImageType, AllocType, OpenType, ReadDbType, Set_conns
<1>3. server \in [Server -> RaftState]
  BY Zenon, <1>1, <1>2
<1>4. net \in [Server -> [Server -> Seq(Rpc)]]
  <2>1. net = [s \in Server |-> [d \in Server |-> <<>>]]
    BY Zenon DEF Init
  <2> DEFINE none == [d \in Server |-> <<>>]
  <2>2. none \in Rpcs
    BY NoRpcs
  <2> HIDE DEF none
  <2>3. net = [s \in Server |-> none]
    BY <2>1 DEF none
  <2>4. net \in [Server -> Rpcs]
    BY <2>2, <2>3
  <2> QED BY <2>4, NetIsRpcs
<1>5. spent \in [{"timeouts", "pings", "crashes", "disconnects", "snapshots"} -> Nat]
  BY DEF Init
<1>6. /\ leaders = {} /\ granted = {} /\ committed = {} /\ issued = {}
      /\ outcome = [c \in Cmd |-> <<>>]
  BY Zenon DEF Init
<1> QED BY Zenon, <1>3, <1>4, <1>5, <1>6, NoResults DEF TypeOK

(* Steps of which the types follow from BecomeType and SpendType.          *)
LEMMA ServerStepType ==
  ASSUME TypeOK, NEW s \in Server, NEW k \in Space,
         \/ \E d \in Server : Deliver(d, s, k)
         \/ WaitersRun(s, k) \/ ElectionTimeout(s, k) \/ PingTimeout(s, k)
         \/ \E c \in Cmd : Execute(s, c, k)
         \/ SnapshotStore(s, k) \/ Restart(s, k)
  PROVE  TypeOK'
<1> DEFINE r == With(s, k)
           Typed == /\ server' \in [Server -> RaftState]
                    /\ net' \in [Server -> Rpcs]
                    /\ leaders' \subseteq Nat \X Server
                    /\ granted' \subseteq Server \X Nat \X Sid
                    /\ committed' \subseteq Nat \X Nat \X Entry
                    /\ outcome' \in Results
<1>1. /\ server \in [Server -> RaftState] /\ net \in [Server -> Rpcs]
      /\ spent \in [Budgets -> Nat] /\ issued \subseteq Cmd \X Eid
      /\ server[s] \in RaftState
  BY Zenon, NetIsRpcs DEF TypeOK, Budgets
<1>2. r \in RaftState
  BY <1>1, WithType, SpaceAssumption
<1>3. ASSUME Typed, spent' \in [Budgets -> Nat], issued' \subseteq Cmd \X Eid
      PROVE  TypeOK'
  BY Zenon, <1>3, NetIsRpcs DEF TypeOK, Budgets
<1>4. \A q \in RaftState : \A queues \in [Server -> Rpcs] :
        RunBecome(s, q, queues) \/ Become(s, q, queues) => Typed
  BY Zenon, RunBecomeType, BecomeType
<1>5. (UNCHANGED spent => spent' \in [Budgets -> Nat])
      /\ (UNCHANGED issued => issued' \subseteq Cmd \X Eid)
  BY <1>1
<1> HIDE DEF r, Typed
<1>6. ASSUME NEW d \in Server, Deliver(d, s, k)
      PROVE  TypeOK'
  <2> DEFINE m == Head(net[d][s])
             queues == [net EXCEPT ![d][s] = Tail(@)]
  <2>1. net[d][s] # <<>> /\ RunBecome(s, raft_handle_rpc(r, d, m), queues)
        /\ UNCHANGED spent /\ UNCHANGED issued
    BY Zenon, <1>6 DEF Deliver, r
  <2>2. m \in Rpc /\ queues \in [Server -> Rpcs]
    <3>1. net[d][s] \in Seq(Rpc)
      BY Zenon, <1>1 DEF Rpcs
    <3>2. Tail(net[d][s]) \in Seq(Rpc) /\ m \in Rpc
      BY SMTT(60), <2>1, <3>1
    <3>3. [net[d] EXCEPT ![s] = Tail(net[d][s])] \in Rpcs
      BY Zenon, <1>1, <3>2 DEF Rpcs
    <3> QED BY Zenon, <1>1, <3>2, <3>3
  <2> HIDE DEF m, queues
  <2>3. raft_handle_rpc(r, d, m) \in RaftState
    BY Zenon, <1>2, <2>2, HandleRpcType
  <2> QED BY Zenon, <1>3, <1>4, <1>5, <2>1, <2>2, <2>3
<1>7. CASE WaitersRun(s, k)
  <2>1. waiter_ready(r)
    <3>1. waiter_ready(server[s])
      BY ZenonT(60), <1>7 DEF WaitersRun
    <3>2. r.waiters = server[s].waiters
      BY SMTT(60), SMT, <1>1 DEF r, With, RaftState
    <3> QED BY SMTT(60), <3>1, <3>2 DEF waiter_ready
  <2>2. raft_waiters_run(r) \in RaftState
    BY SMTT(60), <1>2, <2>1, WaitersRunType
  <2>3. RunBecome(s, raft_waiters_run(r), net) /\ UNCHANGED spent /\ UNCHANGED issued
    BY Zenon, <1>7 DEF WaitersRun, r
  <2> QED BY Zenon, <1>1, <1>3, <1>4, <1>5, <2>2, <2>3
<1>8. CASE ElectionTimeout(s, k)
  <2>1. RunBecome(s, election_timeout(r), net) /\ UNCHANGED issued
        /\ Spend("timeouts", MaxTimeouts)
    BY ZenonT(60), <1>8 DEF ElectionTimeout, r
  <2>2. spent' \in [Budgets -> Nat]
    BY Zenon, <2>1, SpendType DEF Budgets
  <2> QED BY Zenon, <1>1, <1>2, <1>3, <1>4, <1>5, <2>1, <2>2, ElectionTimeoutType
<1>9. CASE PingTimeout(s, k)
  <2>1. PICK expired \in SUBSET server[s].commands :
          RunBecome(s, ping_timeout(r, expired), net)
    BY ZenonT(60), <1>9 DEF PingTimeout, r
  <2>2. UNCHANGED issued /\ Spend("pings", MaxPings)
    BY ZenonT(60), <1>9 DEF PingTimeout
  <2>3. spent' \in [Budgets -> Nat]
    BY SMTT(60), <2>2, SpendType DEF Budgets
  <2>4. r.commands = server[s].commands
    BY SMTT(60), SMT, <1>1 DEF r, With, RaftState
  <2>5. ping_timeout(r, expired) \in RaftState
    BY SMTT(60), <1>2, <2>4, PingTimeoutType
  <2> QED BY ZenonT(60), <1>1, <1>3, <1>4, <1>5, <2>1, <2>2, <2>3, <2>5
<1>10. ASSUME NEW c \in Cmd, Execute(s, c, k)
       PROVE  TypeOK'
  <2>1. Become(s, raft_command_execute(r, c), net) /\ UNCHANGED spent
        /\ issued' = issued \cup {<<c, server[s].prereq>>}
    BY ZenonT(60), <1>10 DEF Execute, r
  <2>2. issued' \subseteq Cmd \X Eid
    BY Zenon, SMTT(60), <1>1, <2>1, Members
  <2> QED BY Zenon, <1>1, <1>2, <1>3, <1>4, <1>5, <2>1, <2>2, CommandExecuteType
<1>11. CASE SnapshotStore(s, k)
  <2>1. PICK clone \in server[s].snapping : Become(s, raft_store_snapshot(r, clone), net)
    BY ZenonT(60), <1>11 DEF SnapshotStore, r
  <2>2. UNCHANGED spent /\ UNCHANGED issued
    BY ZenonT(60), <1>11 DEF SnapshotStore
  <2>3. clone \in [index : Nat, db : Db]
    BY Zenon, <1>1, Members DEF Clones
  <2> QED BY Zenon, <1>1, <1>2, <1>3, <1>4, <1>5, <2>1, <2>2, <2>3, StoreSnapshotType
<1>12. CASE Restart(s, k)
  <2>1. Become(s, read_db(raft_open(r)), net) /\ UNCHANGED spent /\ UNCHANGED issued
    BY ZenonT(60), <1>12 DEF Restart, r
  <2> QED BY ZenonT(60), <1>1, <1>2, <1>3, <1>4, <1>5, <2>1, OpenType, ReadDbType
<1> QED BY SMTT(60), <1>6, <1>7, <1>8, <1>9, <1>10, <1>11, <1>12

(* The other steps of one server.                                          *)
LEMMA OtherStepType ==
  ASSUME TypeOK, NEW s \in Server,
         \/ Fsync(s) \/ TimePasses(s) \/ ReadDb(s) \/ SnapshotBegin(s)
         \/ SnapshotRecommended(s) \/ FailClose(s) \/ Crash(s) \/ Shutdown(s)
  PROVE  TypeOK'
<1> DEFINE r == server[s]
           Typed == /\ server' \in [Server -> RaftState]
                    /\ net' \in [Server -> Rpcs]
                    /\ leaders' \subseteq Nat \X Server
                    /\ granted' \subseteq Server \X Nat \X Sid
                    /\ committed' \subseteq Nat \X Nat \X Entry
                    /\ outcome' \in Results
<1>1. /\ server \in [Server -> RaftState] /\ net \in [Server -> Rpcs]
      /\ spent \in [Budgets -> Nat] /\ issued \subseteq Cmd \X Eid
      /\ r \in RaftState
  BY Zenon, NetIsRpcs DEF TypeOK, Budgets
<1>2. NotTo(s) \in [Server -> Rpcs]
  <2>1. <<>> \in Seq(Rpc)
    BY SMTT(60)
  <2>2. \A x \in Server : [net[x] EXCEPT ![s] = <<>>] \in Rpcs
    BY Zenon, <1>1, <2>1 DEF Rpcs
  <2> QED BY Zenon, <2>2 DEF NotTo
<1>3. ASSUME Typed, spent' \in [Budgets -> Nat], UNCHANGED issued
      PROVE  TypeOK'
  BY Zenon, <1>1, <1>3, NetIsRpcs DEF TypeOK, Budgets
<1>4. \A q \in RaftState : \A queues \in [Server -> Rpcs] :
        Become(s, q, queues) => Typed
  BY ZenonT(60), BecomeType
<1>5. UNCHANGED spent => spent' \in [Budgets -> Nat]
  BY Zenon, <1>1
<1>6. ASSUME server' \in [Server -> RaftState],
             UNCHANGED <<net, spent, leaders, granted, committed, issued, outcome>>
      PROVE  TypeOK'
  BY Zenon, <1>6 DEF TypeOK
<1> HIDE DEF Typed
<1>7. CASE Fsync(s)
  <2> DEFINE left(n, w) == IF w.commit_ticket <= n THEN 0 ELSE w.commit_ticket - n
             new(n) == [r EXCEPT !.disk = SubSeq(@, n + 1, Len(@)),
                                 !.running = ~PowerLoss /\ InRun(s),
                                 !.waiters = [j \in DOMAIN @ |->
                                    [@[j] EXCEPT !.commit_ticket =
                                                   left(n, r.waiters[j])]]]
  <2>1. PICK n \in 1 .. Len(r.disk) - 1 : server' = [server EXCEPT ![s] = new(n)]
    BY ZenonT(60), <1>7 DEF Fsync
  <2>2. (~PowerLoss /\ InRun(s)) \in Flag
    BY Zenon DEF Flag
  <2>3. new(n) \in RaftState
    BY ZenonT(60), <1>1, <2>2, FsyncType
  <2>4. UNCHANGED <<net, spent, leaders, granted, committed, issued, outcome>>
    BY Zenon, <1>7 DEF Fsync
  <2> HIDE DEF new
  <2> QED BY Zenon, <1>1, <1>6, <2>1, <2>3, <2>4
<1>8. CASE TimePasses(s)
  <2> DEFINE new == [r EXCEPT !.fresh = FALSE]
  <2>1. server' = [server EXCEPT ![s] = new]
        /\ UNCHANGED <<net, spent, leaders, granted, committed, issued, outcome>>
    BY ZenonT(60), <1>8 DEF TimePasses
  <2>2. new \in RaftState
    BY Zenon, <1>1, Flags, Set_fresh
  <2> HIDE DEF new
  <2> QED BY SMTT(60), <1>1, <1>6, <2>1, <2>2
<1>9. CASE ReadDb(s)
  <2>1. Become(s, read_db(r), net) /\ UNCHANGED spent /\ UNCHANGED issued
    BY ZenonT(60), <1>9 DEF ReadDb
  <2> QED BY Zenon, <1>1, <1>3, <1>4, <1>5, <2>1, ReadDbType
<1>10. CASE SnapshotBegin(s)
  <2>1. Become(s, ovsdb_snapshot(r), net) /\ UNCHANGED issued
        /\ Spend("snapshots", MaxSnapshots)
    BY Zenon, <1>10 DEF SnapshotBegin
  <2>2. spent' \in [Budgets -> Nat]
    BY SMTT(60), <2>1, SpendType DEF Budgets
  <2> QED BY Zenon, <1>1, <1>3, <1>4, <2>1, <2>2, OvsdbSnapshotType
<1>11. CASE SnapshotRecommended(s)
  <2>1. PICK t : Become(s, raft_become_follower(raft_transfer_leadership(r, t)), net)
    BY ZenonT(60), <1>11 DEF SnapshotRecommended
  <2>2. UNCHANGED issued /\ Spend("snapshots", MaxSnapshots)
    BY ZenonT(60), <1>11 DEF SnapshotRecommended
  <2>3. spent' \in [Budgets -> Nat]
    BY Zenon, <2>2, SpendType DEF Budgets
  <2> QED BY Zenon, <1>1, <1>3, <1>4, <2>1, <2>2, <2>3, TransferLeadershipType,
             BecomeFollowerType
<1>12. CASE FailClose(s)
  <2>1. Become(s, [raft_close__(r) EXCEPT !.closing = FALSE], net)
        /\ UNCHANGED spent /\ UNCHANGED issued
    BY ZenonT(60), <1>12 DEF FailClose
  <2>2. [raft_close__(r) EXCEPT !.closing = FALSE] \in RaftState
    BY ZenonT(60), <1>1, CloseType, Flags, Set_closing
  <2> QED BY ZenonT(60), <1>1, <1>3, <1>4, <1>5, <2>1, <2>2
<1>13. CASE Crash(s)
  <2>1. PICK i \in IF PowerLoss THEN DOMAIN r.disk ELSE {Len(r.disk)} :
          Become(s, raft_alloc(s, r.disk[i]), NotTo(s))
    BY Zenon, <1>13 DEF Crash
  <2>2. r.disk[i] \in Image
    BY SMTT(60), <1>1, Members, DiskMembers
  <2>3. UNCHANGED issued /\ Spend("crashes", MaxCrashes)
    BY Zenon, <1>13 DEF Crash
  <2>4. spent' \in [Budgets -> Nat]
    BY <2>3, SpendType DEF Budgets
  <2> QED BY ZenonT(60), <1>2, <1>3, <1>4, <2>1, <2>2, <2>3, <2>4, AllocType
<1>14. CASE Shutdown(s)
  <2> DEFINE q(t)   == raft_close__(raft_transfer_leadership(r, t))
             new(t) == [raft_alloc(s, written(q(t))) EXCEPT
                          !.out = q(t).out, !.results = q(t).results]
  <2>1. PICK t : Become(s, new(t), NotTo(s))
    BY Zenon, <1>14 DEF Shutdown
  <2>2. UNCHANGED issued /\ Spend("crashes", MaxCrashes)
    BY Zenon, <1>14 DEF Shutdown
  <2>3. spent' \in [Budgets -> Nat]
    BY <2>2, SpendType DEF Budgets
  <2>4. q(t) \in RaftState
    BY Zenon, <1>1, TransferLeadershipType, CloseType
  <2> HIDE DEF q
  <2>5. q(t).out \in Rpcs /\ q(t).results \in Results /\ written(q(t)) \in Image
    BY Zenon, <2>4, Members, WrittenType
  <2>6. new(t) \in RaftState
    BY Zenon, <2>5, AllocType, Set_out, Set_results
  <2> HIDE DEF new
  <2> QED BY Zenon, <1>2, <1>3, <1>4, <2>1, <2>2, <2>3, <2>6
<1> QED BY SMTT(60), <1>7, <1>8, <1>9, <1>10, <1>11, <1>12, <1>13, <1>14

(* Steps of the network keep types correct.                                *)
LEMMA NetworkStepType ==
  ASSUME TypeOK, NEW s \in Server, NEW d \in Server,
         DropPrevote(d, s) \/ Disconnect(s, d) \/ Connect(s, d)
  PROVE  TypeOK'
<1>1. /\ server \in [Server -> RaftState] /\ net \in [Server -> Rpcs]
      /\ spent \in [Budgets -> Nat]
  BY Zenon, NetIsRpcs DEF TypeOK, Budgets
<1>2. ASSUME server' \in [Server -> RaftState], net' \in [Server -> Rpcs],
             spent' \in [Budgets -> Nat],
             UNCHANGED <<leaders, granted, committed, issued, outcome>>
      PROVE  TypeOK'
  BY Zenon, <1>2, NetIsRpcs DEF TypeOK, Budgets
<1>3. CASE DropPrevote(d, s)
  <2>1. /\ net[d][s] # <<>> /\ net' = [net EXCEPT ![d][s] = Tail(net[d][s])]
        /\ UNCHANGED <<server, spent, leaders, granted, committed, issued, outcome>>
    BY Zenon, <1>3 DEF DropPrevote
  <2>2. net' \in [Server -> Rpcs]
    <3>1. net[d][s] \in Seq(Rpc)
      BY <1>1 DEF Rpcs
    <3>2. Tail(net[d][s]) \in Seq(Rpc)
      BY SMTT(60), <2>1, <3>1
    <3>3. [net[d] EXCEPT ![s] = Tail(net[d][s])] \in Rpcs
      BY <1>1, <3>2 DEF Rpcs
    <3> QED BY Zenon, <1>1, <2>1, <3>3
  <2> QED BY Zenon, <1>1, <1>2, <2>1, <2>2
<1>4. CASE Disconnect(s, d)
  <2>1. /\ s # d
        /\ server' = [server EXCEPT ![s] = Unlink(@, d), ![d] = Unlink(@, s)]
        /\ net' = [net EXCEPT ![s][d] = <<>>, ![d][s] = <<>>]
        /\ Spend("disconnects", MaxDisconnects)
        /\ UNCHANGED <<leaders, granted, committed, issued, outcome>>
    BY Zenon, <1>4 DEF Disconnect
  <2>2. spent' \in [Budgets -> Nat]
    BY <2>1, SpendType DEF Budgets
  <2>3. server' \in [Server -> RaftState]
    <3>1. Unlink(server[s], d) \in RaftState /\ Unlink(server[d], s) \in RaftState
      BY <1>1, LinkType
    <3> QED BY <1>1, <2>1, <3>1
  <2>4. net' \in [Server -> Rpcs]
    <3>1. <<>> \in Seq(Rpc)
      OBVIOUS
    <3>2. [net[s] EXCEPT ![d] = <<>>] \in Rpcs /\ [net[d] EXCEPT ![s] = <<>>] \in Rpcs
      BY <1>1, <3>1 DEF Rpcs
    <3>3. net' = [net EXCEPT ![s] = [net[s] EXCEPT ![d] = <<>>],
                             ![d] = [net[d] EXCEPT ![s] = <<>>]]
      BY Zenon, <1>1, <2>1
    <3> QED BY Zenon, <1>1, <3>2, <3>3
  <2> QED BY Zenon, <1>2, <2>1, <2>2, <2>3, <2>4
<1>5. CASE Connect(s, d)
  <2>1. /\ s # d
        /\ server' = [server EXCEPT ![s] = Link(@, d), ![d] = Link(@, s)]
        /\ UNCHANGED <<net, spent, leaders, granted, committed, issued, outcome>>
    BY Zenon, <1>5 DEF Connect
  <2>2. server' \in [Server -> RaftState]
    <3>1. Link(server[s], d) \in RaftState /\ Link(server[d], s) \in RaftState
      BY <1>1, LinkType
    <3> QED BY Zenon, <1>1, <2>1, <3>1
  <2> QED BY Zenon, <1>1, <1>2, <2>1, <2>2
<1> QED BY <1>3, <1>4, <1>5

(* Every step keeps types correct.                                         *)
LEMMA TypeOKNext ==
  TypeOK /\ [Next]_vars => TypeOK'
<1> SUFFICES ASSUME TypeOK, [Next]_vars PROVE TypeOK'
  OBVIOUS
<1>1. CASE UNCHANGED vars
  BY Zenon, <1>1 DEF TypeOK, vars
<1>2. CASE Next
  <2>1. PICK s \in Server :
          \/ \E k \in Space :
               \/ \E d \in Server : Deliver(d, s, k)
               \/ WaitersRun(s, k) \/ ElectionTimeout(s, k) \/ PingTimeout(s, k)
               \/ \E c \in Cmd : Execute(s, c, k)
               \/ SnapshotStore(s, k) \/ Restart(s, k)
          \/ Fsync(s) \/ TimePasses(s) \/ ReadDb(s) \/ SnapshotBegin(s)
          \/ SnapshotRecommended(s) \/ FailClose(s) \/ Crash(s) \/ Shutdown(s)
          \/ \E d \in Server : DropPrevote(d, s) \/ Disconnect(s, d) \/ Connect(s, d)
    BY ZenonT(60), <1>2 DEF Next
  <2> QED BY Zenon, <2>1, ServerStepType, OtherStepType, NetworkStepType
<1> QED BY <1>1, <1>2

(* In a cluster of any size, and whatever fails, every struct raft, every  *)
(* image of a file that a loss of power may leave and every RPC in flight  *)
(* has its type: log_start stays past the snapshot, and the entries that   *)
(* raft_send_append_request() takes out of the log are there.  It does not *)
(* say that no index wraps around, which next_index - 1 may, nor that the  *)
(* file can be read back.                                                  *)
THEOREM TypeCorrect == Spec => []TypeOK
<1> QED BY TypeOKInit, TypeOKNext, PTL DEF Spec
=============================================================================
