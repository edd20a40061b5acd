-------------------------- MODULE RaftServerProofs --------------------------
(***************************************************************************)
(* Every operator of module RaftServer maps a struct raft to a struct raft *)
(* (RaftState).                                                            *)
(*                                                                         *)
(* RaftState has many members, so its definition is expanded only in the   *)
(* lemmas of the first section: one to read members and one for each       *)
(* member to assign it.  Everywhere else a chain of assignments is typed   *)
(* by citing the lemmas of the members it assigns.                         *)
(***************************************************************************)
EXTENDS RaftServer, TLAPS

(* How long a prover may take where a proof does not say which one to use. *)
USE SMTT(20), ZenonT(20)

-----------------------------------------------------------------------------
(* Reading and assigning members.                                          *)

(* Every member of a struct raft has its type.                             *)
LEMMA Members ==
  ASSUME NEW r \in RaftState
  PROVE  /\ r.sid \in Server
         /\ r.servers \in Servers
         /\ r.term \in Nat
         /\ r.vote \in Sid
         /\ r.synced_term \in Nat
         /\ r.synced_vote \in Sid
         /\ r.log \in Log
         /\ r.log_start \in Start
         /\ r.log_synced \in Nat
         /\ r.snap \in Snapshot
         /\ r.commit_index \in Nat
         /\ r.last_applied \in Nat
         /\ r.role \in Role
         /\ r.leader_sid \in Sid
         /\ r.fresh \in Flag
         /\ r.n_votes \in Nat
         /\ r.prevote_passed \in Flag
         /\ r.votes \in Votes
         /\ r.next_index \in Indexes
         /\ r.match_index \in Indexes
         /\ r.replied \in Servers
         /\ r.installing \in Servers
         /\ r.waiters \in Waiters
         /\ r.commands \in Commands
         /\ r.conns \in Servers
         /\ r.db \in Db
         /\ r.prereq \in Eid
         /\ r.snapping \in Clones
         /\ r.disk \in Disk
         /\ r.space \in Nat
         /\ r.up \in Flag
         /\ r.failed \in Flag
         /\ r.closing \in Flag
         /\ r.aborted \in Flag
         /\ r.overrun \in Flag
         /\ r.running \in Flag
         /\ r.out \in Rpcs
         /\ r.results \in Results
BY SMT DEF RaftState

(* Assigning a member of a struct raft.                                    *)
LEMMA Set_servers ==
  \A r \in RaftState : \A v \in Servers : [r EXCEPT !.servers = v] \in RaftState
BY SMT DEF RaftState
(* Assigning term keeps the type of struct raft.                           *)
LEMMA Set_term ==
  \A r \in RaftState : \A v \in Nat : [r EXCEPT !.term = v] \in RaftState
BY SMT DEF RaftState
(* Assigning vote keeps the type of struct raft.                           *)
LEMMA Set_vote ==
  \A r \in RaftState : \A v \in Sid : [r EXCEPT !.vote = v] \in RaftState
BY SMT DEF RaftState
(* Assigning synced_term keeps the type of struct raft.                    *)
LEMMA Set_synced_term ==
  \A r \in RaftState : \A v \in Nat : [r EXCEPT !.synced_term = v] \in RaftState
BY SMT DEF RaftState
(* Assigning synced_vote keeps the type of struct raft.                    *)
LEMMA Set_synced_vote ==
  \A r \in RaftState : \A v \in Sid : [r EXCEPT !.synced_vote = v] \in RaftState
BY SMT DEF RaftState
(* Assigning log keeps the type of struct raft.                            *)
LEMMA Set_log ==
  \A r \in RaftState : \A v \in Log : [r EXCEPT !.log = v] \in RaftState
BY SMT DEF RaftState
(* Assigning log_start keeps the type of struct raft.                      *)
LEMMA Set_log_start ==
  \A r \in RaftState : \A v \in Start : [r EXCEPT !.log_start = v] \in RaftState
BY SMT DEF RaftState
(* Assigning log_synced keeps the type of struct raft.                     *)
LEMMA Set_log_synced ==
  \A r \in RaftState : \A v \in Nat : [r EXCEPT !.log_synced = v] \in RaftState
BY SMT DEF RaftState
(* Assigning snap keeps the type of struct raft.                           *)
LEMMA Set_snap ==
  \A r \in RaftState : \A v \in Snapshot : [r EXCEPT !.snap = v] \in RaftState
BY SMT DEF RaftState
(* Assigning commit_index keeps the type of struct raft.                   *)
LEMMA Set_commit_index ==
  \A r \in RaftState : \A v \in Nat : [r EXCEPT !.commit_index = v] \in RaftState
BY SMT DEF RaftState
(* Assigning last_applied keeps the type of struct raft.                   *)
LEMMA Set_last_applied ==
  \A r \in RaftState : \A v \in Nat : [r EXCEPT !.last_applied = v] \in RaftState
BY SMT DEF RaftState
(* Assigning role keeps the type of struct raft.                           *)
LEMMA Set_role ==
  \A r \in RaftState : \A v \in Role : [r EXCEPT !.role = v] \in RaftState
BY SMT DEF RaftState
(* Assigning leader_sid keeps the type of struct raft.                     *)
LEMMA Set_leader_sid ==
  \A r \in RaftState : \A v \in Sid : [r EXCEPT !.leader_sid = v] \in RaftState
BY SMT DEF RaftState
(* Assigning fresh keeps the type of struct raft.                          *)
LEMMA Set_fresh ==
  \A r \in RaftState : \A v \in Flag : [r EXCEPT !.fresh = v] \in RaftState
BY SMT DEF RaftState
(* Assigning n_votes keeps the type of struct raft.                        *)
LEMMA Set_n_votes ==
  \A r \in RaftState : \A v \in Nat : [r EXCEPT !.n_votes = v] \in RaftState
BY SMT DEF RaftState
(* Assigning prevote_passed keeps the type of struct raft.                 *)
LEMMA Set_prevote_passed ==
  \A r \in RaftState : \A v \in Flag : [r EXCEPT !.prevote_passed = v] \in RaftState
BY SMT DEF RaftState
(* Assigning votes keeps the type of struct raft.                          *)
LEMMA Set_votes ==
  \A r \in RaftState : \A v \in Votes : [r EXCEPT !.votes = v] \in RaftState
BY SMT DEF RaftState
(* Assigning next_index keeps the type of struct raft.                     *)
LEMMA Set_next_index ==
  \A r \in RaftState : \A v \in Indexes : [r EXCEPT !.next_index = v] \in RaftState
BY SMT DEF RaftState
(* Assigning match_index keeps the type of struct raft.                    *)
LEMMA Set_match_index ==
  \A r \in RaftState : \A v \in Indexes : [r EXCEPT !.match_index = v] \in RaftState
BY SMT DEF RaftState
(* Assigning replied keeps the type of struct raft.                        *)
LEMMA Set_replied ==
  \A r \in RaftState : \A v \in Servers : [r EXCEPT !.replied = v] \in RaftState
BY SMT DEF RaftState
(* Assigning installing keeps the type of struct raft.                     *)
LEMMA Set_installing ==
  \A r \in RaftState : \A v \in Servers : [r EXCEPT !.installing = v] \in RaftState
BY SMT DEF RaftState
(* Assigning waiters keeps the type of struct raft.                        *)
LEMMA Set_waiters ==
  \A r \in RaftState : \A v \in Waiters : [r EXCEPT !.waiters = v] \in RaftState
BY SMT DEF RaftState
(* Assigning commands keeps the type of struct raft.                       *)
LEMMA Set_commands ==
  \A r \in RaftState : \A v \in Commands : [r EXCEPT !.commands = v] \in RaftState
BY SMT DEF RaftState
(* Assigning conns keeps the type of struct raft.                          *)
LEMMA Set_conns ==
  \A r \in RaftState : \A v \in Servers : [r EXCEPT !.conns = v] \in RaftState
BY SMT DEF RaftState
(* Assigning db keeps the type of struct raft.                             *)
LEMMA Set_db ==
  \A r \in RaftState : \A v \in Db : [r EXCEPT !.db = v] \in RaftState
BY SMT DEF RaftState
(* Assigning prereq keeps the type of struct raft.                         *)
LEMMA Set_prereq ==
  \A r \in RaftState : \A v \in Eid : [r EXCEPT !.prereq = v] \in RaftState
BY SMT DEF RaftState
(* Assigning snapping keeps the type of struct raft.                       *)
LEMMA Set_snapping ==
  \A r \in RaftState : \A v \in Clones : [r EXCEPT !.snapping = v] \in RaftState
BY SMT DEF RaftState
(* Assigning disk keeps the type of struct raft.                           *)
LEMMA Set_disk ==
  \A r \in RaftState : \A v \in Disk : [r EXCEPT !.disk = v] \in RaftState
BY SMT DEF RaftState
(* Assigning space keeps the type of struct raft.                          *)
LEMMA Set_space ==
  \A r \in RaftState : \A v \in Nat : [r EXCEPT !.space = v] \in RaftState
BY SMT DEF RaftState
(* Assigning up keeps the type of struct raft.                             *)
LEMMA Set_up ==
  \A r \in RaftState : \A v \in Flag : [r EXCEPT !.up = v] \in RaftState
BY SMT DEF RaftState
(* Assigning failed keeps the type of struct raft.                         *)
LEMMA Set_failed ==
  \A r \in RaftState : \A v \in Flag : [r EXCEPT !.failed = v] \in RaftState
BY SMT DEF RaftState
(* Assigning closing keeps the type of struct raft.                        *)
LEMMA Set_closing ==
  \A r \in RaftState : \A v \in Flag : [r EXCEPT !.closing = v] \in RaftState
BY SMT DEF RaftState
(* Assigning aborted keeps the type of struct raft.                        *)
LEMMA Set_aborted ==
  \A r \in RaftState : \A v \in Flag : [r EXCEPT !.aborted = v] \in RaftState
BY SMT DEF RaftState
(* Assigning overrun keeps the type of struct raft.                        *)
LEMMA Set_overrun ==
  \A r \in RaftState : \A v \in Flag : [r EXCEPT !.overrun = v] \in RaftState
BY SMT DEF RaftState
(* Assigning running keeps the type of struct raft.                        *)
LEMMA Set_running ==
  \A r \in RaftState : \A v \in Flag : [r EXCEPT !.running = v] \in RaftState
BY SMT DEF RaftState
(* Assigning out keeps the type of struct raft.                            *)
LEMMA Set_out ==
  \A r \in RaftState : \A v \in Rpcs : [r EXCEPT !.out = v] \in RaftState
BY SMT DEF RaftState
(* Assigning results keeps the type of struct raft.                        *)
LEMMA Set_results ==
  \A r \in RaftState : \A v \in Results : [r EXCEPT !.results = v] \in RaftState
BY SMT DEF RaftState

-----------------------------------------------------------------------------
(* Files.                                                                  *)

Record ==
  [type : {"ENTRY"}, term : Nat, index : Nat, entries : Log \ {<<>>}]
    \cup [type : {"TERM"}, term : Nat]
    \cup [type : {"VOTE"}, term : Nat, sid : Sid]
    \cup [type : {"COMMIT_INDEX"}, term : Nat, index : Nat]

(* The members of an image and assignments to them.                        *)
LEMMA ImageMembers ==
  ASSUME NEW f \in Image
  PROVE  /\ f.term \in Nat
         /\ f.vote \in Sid
         /\ f.log_start \in Start
         /\ f.snap \in Snapshot
         /\ f.log \in Log
         /\ f.commit_index \in Nat
         /\ f.ok \in Flag
BY SMT DEF Image
(* Assigning term keeps the type of a file image.                          *)
LEMMA SetImage_term ==
  \A f \in Image : \A v \in Nat : [f EXCEPT !.term = v] \in Image
BY SMT DEF Image
(* Assigning vote keeps the type of a file image.                          *)
LEMMA SetImage_vote ==
  \A f \in Image : \A v \in Sid : [f EXCEPT !.vote = v] \in Image
BY SMT DEF Image
(* Assigning log keeps the type of a file image.                           *)
LEMMA SetImage_log ==
  \A f \in Image : \A v \in Log : [f EXCEPT !.log = v] \in Image
BY SMT DEF Image
(* Assigning commit_index keeps the type of a file image.                  *)
LEMMA SetImage_commit_index ==
  \A f \in Image : \A v \in Nat : [f EXCEPT !.commit_index = v] \in Image
BY SMT DEF Image
(* Assigning ok keeps the type of a file image.                            *)
LEMMA SetImage_ok ==
  \A f \in Image : \A v \in Flag : [f EXCEPT !.ok = v] \in Image
BY SMT DEF Image

(* The null UUID is a possible server ID and entry ID.                     *)
LEMMA Zero == ZERO \in Sid /\ ZERO \in Eid
BY DEF Sid, Eid

(* The Booleans are flags.                                                 *)
LEMMA Flags == TRUE \in Flag /\ FALSE \in Flag
BY DEF Flag

(* The part of a sequence of entries that a SubSeq within bounds selects.  *)
LEMMA SubLog ==
  ASSUME NEW es \in Log, NEW m \in Nat \ {0}, NEW n \in Int, n <= Len(es)
  PROVE  /\ SubSeq(es, m, n) \in Log
         /\ Len(SubSeq(es, m, n)) = IF m <= n THEN n - m + 1 ELSE 0
BY DEF Log

(* Logs may be concatenated, and their lengths add up.                     *)
LEMMA ConcatLog ==
  ASSUME NEW es \in Log, NEW fs \in Log
  PROVE  /\ es \o fs \in Log
         /\ Len(es \o fs) = Len(es) + Len(fs)
         /\ Len(es) \in Nat /\ Len(fs) \in Nat
BY DEF Log

(* raft_apply_record() and its parts rebuild an image.                     *)
LEMMA RefusedType == \A f \in Image : refused(f) \in Image
BY Zenon, SetImage_ok, Flags DEF refused

(* apply_term() returns a file image.                                      *)
LEMMA ApplyTermType ==
  ASSUME NEW img \in Image, NEW rec \in Record
  PROVE  apply_term(img, rec) \in Image
<1>1. rec.term \in Nat
  BY DEF Record
<1>2. [img EXCEPT !.term = rec.term, !.vote = ZERO] \in Image
  BY Zenon, <1>1, Zero, SetImage_term, SetImage_vote
<1> QED BY <1>2 DEF apply_term

(* apply_entries() returns a file image.                                   *)
LEMMA ApplyEntriesType ==
  ASSUME NEW img \in Image, NEW index \in Nat, NEW es \in Log
  PROVE  apply_entries(img, index, es) \in Image
<1> DEFINE kept == raft_truncate(img, index)
<1>1. CASE index \in Larger(img.commit_index, img.log_start) .. log_end(img)
  <2>1. img.log \in Log /\ img.log_start \in Nat \ {0} /\ img.commit_index \in Nat
    BY ImageMembers DEF Start
  <2>2. SubSeq(img.log, 1, index - img.log_start) \in Log
    BY <1>1, <2>1, SubLog DEF log_end, Log, Larger
  <2>3. kept \in Image
    BY Zenon, <2>2, SetImage_log DEF raft_truncate
  <2>4. kept.log \in Log
    BY <2>3, ImageMembers
  <2>5. kept.log \o es \in Log
    BY <2>4 DEF Log
  <2> HIDE DEF kept
  <2>6. [kept EXCEPT !.log = kept.log \o es] \in Image
    BY Zenon, <2>5, <2>3, SetImage_log
  <2> QED BY <2>6, RefusedType DEF apply_entries, kept
<1>2. CASE ~(index \in Larger(img.commit_index, img.log_start) .. log_end(img))
  BY <1>2, RefusedType DEF apply_entries
<1> QED BY <1>1, <1>2

(* apply_vote() returns a file image.                                      *)
LEMMA ApplyVoteType ==
  ASSUME NEW img \in Image, NEW rec \in Record, rec.type = "VOTE"
  PROVE  apply_vote(img, rec) \in Image
<1>1. rec.sid \in Sid
  BY DEF Record
<1>2. [img EXCEPT !.vote = rec.sid] \in Image
  BY Zenon, <1>1, SetImage_vote
<1> QED BY <1>2, RefusedType DEF apply_vote

(* apply_commit_index() returns a file image.                              *)
LEMMA ApplyCommitIndexType ==
  ASSUME NEW img \in Image, NEW index \in Nat
  PROVE  apply_commit_index(img, index) \in Image
<1>1. [img EXCEPT !.commit_index = index] \in Image
  BY Zenon, SetImage_commit_index
<1> QED BY <1>1, RefusedType DEF apply_commit_index

(* raft_apply_record() returns a file image.                               *)
LEMMA ApplyRecordType ==
  ASSUME NEW img \in Image, NEW rec \in Record
  PROVE  raft_apply_record(img, rec) \in Image
<1>1. apply_term(img, rec) \in Image
  BY ApplyTermType
<1>2. CASE rec.type = "ENTRY"
  <2>1. rec.index \in Nat /\ rec.entries \in Log
    BY <1>2 DEF Record
  <2> QED BY <1>1, <1>2, <2>1, ApplyEntriesType DEF raft_apply_record
<1>3. CASE rec.type = "TERM"
  BY <1>1, <1>3 DEF raft_apply_record
<1>4. CASE rec.type = "VOTE"
  BY <1>1, <1>4, ApplyVoteType DEF raft_apply_record
<1>5. CASE rec.type = "COMMIT_INDEX"
  <2>1. rec.index \in Nat
    BY <1>5 DEF Record
  <2> QED BY <1>1, <1>5, <2>1, ApplyCommitIndexType DEF raft_apply_record
<1> QED BY <1>2, <1>3, <1>4, <1>5 DEF Record

-----------------------------------------------------------------------------
(* Helpers.                                                                *)

(* uint64() returns a natural number.                                      *)
LEMMA Uint64Type == \A i \in Int : uint64(i) \in Nat
BY Uint64Assumption DEF uint64

(* Largest() and Smallest() return a member of the set or the default.     *)
LEMMA LargestIn == \A S, d : Largest(S, d) \in S \cup {d}
BY DEF Largest

(* Smallest() returns a member of its set or the default.                  *)
LEMMA SmallestIn == \A S, d : Smallest(S, d) \in S \cup {d}
BY DEF Smallest

(* Listed() returns a sequence of members of the set.                      *)
LEMMA ListedType == \A S : Listed(S) \in Seq(S)
<1> SUFFICES ASSUME NEW S PROVE Listed(S) \in Seq(S)
  OBVIOUS
<1>1. CASE Cardinality(S) \in Nat /\ Listings(S) # {}
  <2>1. Listed(S) \in Listings(S)
    BY <1>1 DEF Listed
  <2>2. Listed(S) \in [1 .. Cardinality(S) -> S]
    BY <2>1 DEF Listings
  <2> QED BY <1>1, <2>2
<1>2. CASE ~(Cardinality(S) \in Nat /\ Listings(S) # {})
  BY <1>2 DEF Listed
<1> QED BY <1>1, <1>2

(* The members of an entry and of a snapshot.                              *)
LEMMA EntryMembers ==
  ASSUME NEW e \in Entry
  PROVE  e.term \in Nat /\ e.eid \in Eid /\ e.servers \in Servers
BY DEF Entry, Servers

(* The members of a snapshot have their types.                             *)
LEMMA SnapshotMembers ==
  ASSUME NEW e \in Snapshot
  PROVE  e.term \in Nat /\ e.eid \in Eid /\ e.servers \in Servers /\ e.db \in Db
BY DEF Snapshot, Servers

-----------------------------------------------------------------------------
(* The log.  Each of these holds of a struct raft and of an image.         *)

HasLog(r) == r.log \in Log /\ r.log_start \in Start /\ r.snap \in Snapshot

(* A struct raft has a log, as the operators on logs require.              *)
LEMMA RaftHasLog == \A r \in RaftState : HasLog(r)
BY Members DEF HasLog

(* A file image has a log, as the operators on logs require.               *)
LEMMA ImageHasLog == \A f \in Image : HasLog(f)
BY ImageMembers DEF HasLog

(* log_end is an index that is not below log_start, which is 2 at least.   *)
LEMMA LogEndType ==
  ASSUME NEW r, HasLog(r)
  PROVE  /\ log_end(r) \in Nat
         /\ r.log_start \in Nat
         /\ 2 <= r.log_start
         /\ r.log_start <= log_end(r)
         /\ Len(r.log) \in Nat
         /\ Len(r.log) = log_end(r) - r.log_start
BY DEF HasLog, log_end, Start, Log

(* raft_get_entry() returns a log entry.                                   *)
LEMMA GetEntryType ==
  ASSUME NEW r, HasLog(r), NEW i \in r.log_start .. log_end(r) - 1
  PROVE  raft_get_entry(r, i) \in Entry
BY DEF HasLog, log_end, raft_get_entry, Start, Log

(* raft_get_term() returns a number.                                       *)
LEMMA GetTermType ==
  ASSUME NEW r, HasLog(r), NEW i \in r.log_start - 1 .. log_end(r) - 1
  PROVE  raft_get_term(r, i) \in Nat
<1>1. CASE i = r.log_start - 1
  BY <1>1, SnapshotMembers DEF HasLog, raft_get_term
<1>2. CASE i # r.log_start - 1
  <2>1. i \in r.log_start .. log_end(r) - 1
    BY <1>2, LogEndType
  <2> QED BY <1>2, <2>1, GetEntryType, EntryMembers DEF raft_get_term
<1> QED BY <1>1, <1>2

(* last_log_term() returns a number.                                       *)
LEMMA LastLogTermType ==
  ASSUME NEW r, HasLog(r)
  PROVE  last_log_term(r) \in Nat
BY LogEndType, GetTermType DEF last_log_term

(* raft_get_eid() returns an entry ID.                                     *)
LEMMA GetEidType ==
  ASSUME NEW r, HasLog(r), NEW i \in Int, i < log_end(r)
  PROVE  raft_get_eid(r, i) \in Eid
<1> DEFINE data == {j \in r.log_start .. i : raft_entry_has_data(raft_get_entry(r, j))}
<1>1. \A j \in data : raft_get_entry(r, j).eid \in Eid
  BY LogEndType, GetEntryType, EntryMembers
<1>2. r.snap.eid \in Eid
  BY SnapshotMembers DEF HasLog
<1> HIDE DEF data
<1>3. Largest(data, 0) \in data => raft_get_entry(r, Largest(data, 0)).eid \in Eid
  BY <1>1
<1> QED BY <1>2, <1>3 DEF raft_get_eid, data

(* raft_servers_for_index() returns a set of servers.                      *)
LEMMA ServersForIndexType ==
  ASSUME NEW r, HasLog(r), NEW i \in Int, i < log_end(r)
  PROVE  raft_servers_for_index(r, i) \in Servers
<1> DEFINE conf == {j \in r.log_start .. i : raft_get_entry(r, j).servers # {}}
<1>1. \A j \in conf : raft_get_entry(r, j).servers \in Servers
  BY LogEndType, GetEntryType, EntryMembers
<1>2. r.snap.servers \in Servers
  BY SnapshotMembers DEF HasLog
<1> HIDE DEF conf
<1>3. Largest(conf, 0) \in conf => raft_get_entry(r, Largest(conf, 0)).servers \in Servers
  BY <1>1
<1> QED BY <1>2, <1>3 DEF raft_servers_for_index, conf

(* raft_get_servers_from_log() returns a well-typed struct raft.           *)
LEMMA GetServersFromLogType ==
  ASSUME NEW r \in RaftState
  PROVE  raft_get_servers_from_log(r) \in RaftState
<1>1. raft_servers_for_index(r, log_end(r) - 1) \in Servers
  BY RaftHasLog, LogEndType, ServersForIndexType
<1> QED BY Zenon, <1>1, Set_servers DEF raft_get_servers_from_log

(* raft_truncate() returns a well-typed struct raft.                       *)
LEMMA TruncateType ==
  ASSUME NEW r \in RaftState, NEW new_end \in r.log_start .. log_end(r)
  PROVE  raft_truncate(r, new_end) \in RaftState
<1>1. SubSeq(r.log, 1, new_end - r.log_start) \in Log
  BY RaftHasLog, LogEndType, SubLog DEF HasLog
<1> QED BY Zenon, <1>1, Set_log DEF raft_truncate

-----------------------------------------------------------------------------
(* Writing.                                                                *)

(* A file is a nonempty sequence of images.                                *)
LEMMA DiskMembers ==
  ASSUME NEW disk \in Disk
  PROVE  /\ disk \in Seq(Image)
         /\ Len(disk) \in Nat \ {0}
         /\ \A i \in DOMAIN disk : disk[i] \in Image
         /\ DOMAIN disk = 1 .. Len(disk)
<1>1. disk \in Seq(Image) /\ disk # <<>>
  BY DEF Disk
<1>2. Len(disk) # 0
  BY <1>1
<1> QED BY <1>1, <1>2

(* written() returns a file image.                                         *)
LEMMA WrittenType ==
  ASSUME NEW r \in RaftState
  PROVE  written(r) \in Image
<1>1. r.disk \in Disk
  BY Members
<1> QED BY <1>1, DiskMembers DEF written

(* The empty sequence is a sequence of images.                             *)
LEMMA NoImages == <<>> \in Seq(Image)
OBVIOUS

(* A file stays one when images are added to it.                           *)
LEMMA AppendDisk ==
  ASSUME NEW disk \in Disk, NEW images \in Seq(Image)
  PROVE  /\ disk \o images \in Disk
         /\ \A img \in Image : Append(disk, img) \in Disk
         /\ \A img \in Image : <<img>> \in Disk
<1>1. disk \in Seq(Image) /\ Len(disk) \in Nat \ {0}
  BY DiskMembers
<1>2. disk \o images \in Seq(Image) /\ Len(disk \o images) # 0
  BY <1>1
<1>3. ASSUME NEW img \in Image
      PROVE  /\ Append(disk, img) \in Seq(Image) /\ Len(Append(disk, img)) # 0
             /\ <<img>> \in Seq(Image) /\ Len(<<img>>) # 0
  BY <1>1
<1> QED BY <1>2, <1>3 DEF Disk

(* The records that raft.c writes.                                         *)
LEMMA EntryRecordsType ==
  ASSUME NEW index \in Nat, NEW es \in Log, es # <<>>
  PROVE  EntryRecords(index, es) \in Record
<1>1. es[Len(es)] \in Entry
  BY DEF Log
<1>2. es[Len(es)].term \in Nat
  BY <1>1, EntryMembers
<1> QED BY <1>2 DEF EntryRecords, Record

(* TermRecord() is a record of the log file.                               *)
LEMMA TermRecordType ==
  ASSUME NEW term \in Nat, NEW vote \in Sid
  PROVE  TermRecord(term, vote) \in Record
BY DEF TermRecord, Record

(* CommitRecord() is a record of the log file.                             *)
LEMMA CommitRecordType ==
  ASSUME NEW index \in Nat
  PROVE  CommitRecord(index) \in Record
BY DEF CommitRecord, Record

(* ovsdb_log_write() returns a well-typed struct raft.                     *)
LEMMA LogWriteType ==
  ASSUME NEW r \in RaftState, NEW rec \in Record
  PROVE  ovsdb_log_write(r, rec) \in RaftState
<1>1. r.disk \in Disk /\ r.space \in Nat
  BY Members
<1>2. Append(r.disk, raft_apply_record(written(r), rec)) \in Disk
  BY Zenon, <1>1, WrittenType, ApplyRecordType, AppendDisk, NoImages
<1>3. CASE r.space # 0
  <2>1. r.space - 1 \in Nat
    BY <1>1, <1>3
  <2> QED BY Zenon, <1>2, <1>3, <2>1, Set_disk, Set_space DEF ovsdb_log_write
<1> QED BY <1>3 DEF ovsdb_log_write

(* raft_handle_write_error() returns a well-typed struct raft.             *)
LEMMA HandleWriteErrorType ==
  ASSUME NEW r, NEW w \in RaftState
  PROVE  raft_handle_write_error(r, w) \in RaftState
<1>1. w.failed \in Flag
  BY Members
<1>2. (w.failed \/ r.space = 0) \in Flag
  BY <1>1 DEF Flag
<1> QED BY Zenon, <1>2, Set_failed DEF raft_handle_write_error

(* raft_write_entries() returns a well-typed struct raft.                  *)
LEMMA WriteEntriesType ==
  ASSUME NEW r \in RaftState, NEW es \in Log, es # <<>>
  PROVE  raft_write_entries(r, es) \in RaftState
<1> DEFINE n == Smaller(r.space, Len(es))
           images == [j \in 1 .. n |->
                        raft_apply_record(written(r), EntryRecords(log_end(r),
                                                        SubSeq(es, 1, j)))]
<1>1. r.space \in Nat /\ r.log \in Log /\ r.disk \in Disk /\ log_end(r) \in Nat
  BY Members, RaftHasLog, LogEndType
<1>2. Len(es) \in Nat \ {0} /\ es \in Seq(Entry)
  BY DEF Log
<1>3. n \in Nat /\ n <= Len(es) /\ r.space - n \in Nat
  BY <1>1, <1>2 DEF Smaller
<1> HIDE DEF n
<1>4. ASSUME NEW j \in 1 .. n
      PROVE  raft_apply_record(written(r), EntryRecords(log_end(r), SubSeq(es, 1, j)))
               \in Image
  <2>1. SubSeq(es, 1, j) \in Log /\ SubSeq(es, 1, j) # <<>>
    BY <1>2, <1>3 DEF Log
  <2> QED BY Zenon, <1>1, <2>1, EntryRecordsType, WrittenType, ApplyRecordType
<1>5. images \in Seq(Image)
  BY <1>3, <1>4
<1>6. SubSeq(es, 1, Smaller(n + 1, Len(es))) \in Log
  BY <1>2, <1>3, SubLog DEF Smaller
<1>7. r.log \o SubSeq(es, 1, Smaller(n + 1, Len(es))) \in Log
  BY <1>1, <1>6 DEF Log
<1> HIDE DEF images
<1>8. r.disk \o images \in Disk
  BY <1>1, <1>5, AppendDisk
<1>9. [r EXCEPT !.log = @ \o SubSeq(es, 1, Smaller(n + 1, Len(es))),
                !.disk = @ \o images,
                !.space = @ - n] \in RaftState
  BY Zenon, <1>3, <1>7, <1>8, Set_log, Set_disk, Set_space
<1> QED BY Zenon, <1>9 DEF raft_write_entries, n, images

(* Waiters; a deferred RPC has no ticket of its own.                       *)
LEMMA SetTicket ==
  ASSUME NEW w \in Waiter, NEW n \in Nat, w.type = "W_RPC" => n = 0
  PROVE  [w EXCEPT !.commit_ticket = n] \in Waiter
<1>1. CASE w \in [type : {"W_ENTRY"}, commit_ticket : Nat, index : Nat]
  BY <1>1 DEF Waiter
<1>2. CASE w \in [type : {"W_TERM"}, commit_ticket : Nat, term : Nat, vote : Sid]
  BY <1>2 DEF Waiter
<1>3. CASE w \in [type : {"W_RPC"}, commit_ticket : {0}, rpcs : Rpcs]
  BY <1>3 DEF Waiter
<1> QED BY <1>1, <1>2, <1>3 DEF Waiter

(* The list of waiters keeps its type when each one is replaced by one.    *)
LEMMA MapWaiters ==
  ASSUME NEW ws \in Waiters, NEW new \in [DOMAIN ws -> Waiter]
  PROVE  new \in Waiters
BY DEF Waiters

(* A waiter may be added to the list of waiters.                           *)
LEMMA AppendWaiter ==
  ASSUME NEW ws \in Waiters, NEW w \in Waiter
  PROVE  Append(ws, w) \in Waiters
BY DEF Waiters

(* ovsdb_log_replace_commit() returns a well-typed struct raft.            *)
LEMMA LogReplaceCommitType ==
  ASSUME NEW r \in RaftState, NEW img \in Image
  PROVE  ovsdb_log_replace_commit(r, img) \in RaftState
<1>1. r.waiters \in Waiters /\ r.disk \in Disk
  BY Members
<1>2. <<img>> \in Disk
  BY Zenon, <1>1, AppendDisk, NoImages
<1>3. ASSUME NEW i \in DOMAIN r.waiters
      PROVE  [r.waiters[i] EXCEPT !.commit_ticket = 0] \in Waiter
  <2>1. r.waiters[i] \in Waiter
    BY <1>1 DEF Waiters
  <2> QED BY <2>1, SetTicket
<1>4. [i \in DOMAIN r.waiters |-> [r.waiters[i] EXCEPT !.commit_ticket = 0]] \in Waiters
  <2>1. [i \in DOMAIN r.waiters |-> [r.waiters[i] EXCEPT !.commit_ticket = 0]]
          \in [DOMAIN r.waiters -> Waiter]
    BY Zenon, <1>3
  <2> QED BY Zenon, <1>1, <2>1, MapWaiters
<1> QED BY Zenon, <1>2, <1>4, Set_disk, Set_waiters DEF ovsdb_log_replace_commit

-----------------------------------------------------------------------------
(* Sending.                                                                *)

(* only() returns queues of RPCs.                                          *)
LEMMA OnlyType ==
  ASSUME NEW rpcs \in Rpcs, NEW D
  PROVE  only(rpcs, D) \in Rpcs
<1>1. <<>> \in Seq(Rpc)
  OBVIOUS
<1> QED BY <1>1 DEF only, Rpcs

(* To() returns queues of RPCs.                                            *)
LEMMA ToType ==
  ASSUME NEW d, NEW rpc \in Rpc
  PROVE  To(d, rpc) \in Rpcs
<1>1. <<>> \in Seq(Rpc) /\ <<rpc>> \in Seq(Rpc)
  OBVIOUS
<1> QED BY <1>1 DEF To, Rpcs

(* raft_send_to_conn() returns a well-typed struct raft.                   *)
LEMMA SendToConnType ==
  ASSUME NEW r \in RaftState, NEW rpcs \in Rpcs
  PROVE  raft_send_to_conn(r, rpcs) \in RaftState
<1>1. r.out \in Rpcs
  BY Members
<1>2. \A d \in Server : r.out[d] \o rpcs[d] \in Seq(Rpc)
  BY <1>1 DEF Rpcs
<1>3. [d \in Server |-> IF d \in r.conns THEN r.out[d] \o rpcs[d] ELSE r.out[d]] \in Rpcs
  BY <1>1, <1>2 DEF Rpcs
<1> QED BY Zenon, <1>3, Set_out DEF raft_send_to_conn

(* raft_send() returns a well-typed struct raft.                           *)
LEMMA SendType ==
  ASSUME NEW r \in RaftState, NEW rpcs \in Rpcs
  PROVE  raft_send(r, rpcs) \in RaftState
<1> DEFINE late == {d \in r.conns \ {r.sid} :
                      \E i \in DOMAIN rpcs[d] : ~raft_is_rpc_synced(r, rpcs[d][i])}
           sent == raft_send_to_conn(r, only(rpcs, Server \ (late \cup {r.sid})))
           w    == [type |-> "W_RPC", commit_ticket |-> 0, rpcs |-> only(rpcs, late)]
<1> HIDE DEF late
<1>1. sent \in RaftState
  BY OnlyType, SendToConnType
<1> HIDE DEF sent
<1>2. w \in Waiter
  BY OnlyType DEF Waiter
<1> HIDE DEF w
<1>3. Append(sent.waiters, w) \in Waiters
  BY <1>1, <1>2, Members, AppendWaiter
<1>4. [sent EXCEPT !.waiters = Append(@, w)] \in RaftState
  BY Zenon, <1>1, <1>3, Set_waiters
<1> QED BY Zenon, <1>1, <1>4 DEF raft_send, late, sent, w

(* prev_index() returns an index.                                          *)
LEMMA PrevIndexType ==
  ASSUME NEW r \in RaftState, NEW s \in Server
  PROVE  r.next_index[s] \in Nat /\ prev_index(r, s) \in Nat
<1>1. r.next_index[s] \in Nat
  BY Members DEF Indexes
<1>2. r.next_index[s] - 1 \in Int
  BY <1>1
<1> QED BY Zenon, <1>1, <1>2, Uint64Type DEF prev_index

(* append_request() with at most as many entries as there are, and none if *)
(* the peer needs a snapshot or is ahead of us, is an RPC.                 *)
LEMMA AppendRequestType ==
  ASSUME NEW r \in RaftState, NEW s \in Server, NEW n \in Nat,
         n = 0 \/ (r.log_start <= r.next_index[s] /\ r.next_index[s] + n <= log_end(r))
  PROVE  append_request(r, s, n) \in Rpc
<1> DEFINE prev == prev_index(r, s)
           next == r.next_index[s] - r.log_start
           m == next + 1
           k == next + n
           term == IF prev < r.log_start THEN r.snap.term
                   ELSE IF prev >= log_end(r) THEN 0
                   ELSE raft_get_entry(r, prev).term
<1>1. HasLog(r) /\ r.term \in Nat /\ r.commit_index \in Nat /\ r.snap.term \in Nat
  BY Members, RaftHasLog, SnapshotMembers
<1>2. r.next_index[s] \in Nat /\ prev \in Nat
  BY PrevIndexType
<1> HIDE DEF prev
<1>3. /\ log_end(r) \in Nat /\ r.log_start \in Nat
      /\ Len(r.log) = log_end(r) - r.log_start
  BY <1>1, LogEndType
<1>4. term \in Nat
  <2>1. CASE prev \in r.log_start .. log_end(r) - 1
    <3>1. raft_get_entry(r, prev).term \in Nat
      BY <1>1, <2>1, GetEntryType, EntryMembers
    <3> QED BY <1>1, <3>1
  <2>2. CASE prev \notin r.log_start .. log_end(r) - 1
    BY <1>1, <1>2, <1>3, <2>2
  <2> QED BY <2>1, <2>2
<1>5. SubSeq(r.log, m, k) \in Seq(Entry)
  <2>1. r.log \in Seq(Entry)
    BY <1>1 DEF HasLog, Log
  <2>2. m \in Int /\ k \in Int /\ (m > k \/ (m > 0 /\ k <= Len(r.log)))
    BY SMTT(60), <1>2, <1>3
  <2> HIDE DEF m, k
  <2> QED BY <2>1, <2>2
<1> HIDE DEF m, k, term
<1>6. [type |-> "append_request", term |-> r.term, prev_log_index |-> prev,
       prev_log_term |-> term, leader_commit |-> r.commit_index,
       entries |-> SubSeq(r.log, m, k)] \in AppendRequest
  BY Zenon, <1>1, <1>2, <1>4, <1>5 DEF AppendRequest
<1> QED BY Zenon, <1>6 DEF append_request, Rpc, prev, term, m, k

(* raft_send_append_request() returns a well-typed struct raft.            *)
LEMMA SendAppendRequestType ==
  ASSUME NEW r \in RaftState, NEW n,
         DOMAIN n \subseteq Server,
         \A s \in DOMAIN n :
           /\ n[s] \in Nat
           /\ n[s] = 0 \/ (/\ r.log_start <= r.next_index[s]
                           /\ r.next_index[s] + n[s] <= log_end(r))
  PROVE  raft_send_append_request(r, n) \in RaftState
<1> DEFINE stray == \E s \in DOMAIN n : prev_index(r, s) >= log_end(r)
           o     == [r EXCEPT !.overrun = @ \/ stray]
           rpcs  == [s \in Server |-> IF s \in DOMAIN n
                                      THEN <<append_request(r, s, n[s])>>
                                      ELSE <<>>]
<1>1. [r EXCEPT !.aborted = TRUE] \in RaftState
  BY Zenon, Flags, Set_aborted
<1>2. o \in RaftState
  <2>1. (r.overrun \/ stray) \in Flag
    BY Zenon DEF Flag
  <2> QED BY Zenon, <2>1, Set_overrun
<1> HIDE DEF o
<1>3. \A s \in DOMAIN n : append_request(r, s, n[s]) \in Rpc
  BY Zenon, AppendRequestType
<1>4. \A s \in Server : rpcs[s] \in Seq(Rpc)
  BY <1>3
<1>5. rpcs \in Rpcs
  BY <1>4 DEF Rpcs
<1> HIDE DEF rpcs
<1>6. raft_send(o, rpcs) \in RaftState
  BY <1>2, <1>5, SendType
<1> QED BY Zenon, <1>1, <1>6 DEF raft_send_append_request, rpcs, o

(* raft_send_heartbeats() returns a well-typed struct raft.                *)
LEMMA SendHeartbeatsType ==
  ASSUME NEW r \in RaftState
  PROVE  raft_send_heartbeats(r) \in RaftState
<1> DEFINE n == [s \in peers(r) |-> 0]
<1>1. r.servers \in Servers
  BY Members
<1>2. DOMAIN n \subseteq Server /\ \A s \in DOMAIN n : n[s] = 0 /\ n[s] \in Nat
  BY <1>1 DEF peers, Servers
<1> HIDE DEF n
<1>3. raft_send_append_request(r, n) \in RaftState
  BY Zenon, <1>2, SendAppendRequestType
<1> QED BY <1>3 DEF raft_send_heartbeats, n

-----------------------------------------------------------------------------
(* Commands.                                                               *)

(* The members of a command have their types.                              *)
LEMMA CommandMembers ==
  ASSUME NEW c \in Command
  PROVE  c.eid \in Cmd /\ c.index \in Nat /\ c.sid \in Sid /\ c.client \in Flag
BY DEF Command

(* Assigning a member keeps the type of a command.                         *)
LEMMA SetCommand ==
  /\ \A c \in Command : \A v \in Nat : [c EXCEPT !.index = v] \in Command
  /\ \A c \in Command : \A v \in Sid : [c EXCEPT !.sid = v] \in Command
BY DEF Command

(* RAFT_CMD_SUCCESS is a status of commands.                               *)
LEMMA SuccessStatus == "SUCCESS" \in CmdStatus
BY DEF CmdStatus

(* The reply to an execute_command_request is an RPC.                      *)
LEMMA ExecuteCommandReplyType ==
  ASSUME NEW eid \in Cmd, NEW status \in CmdStatus, NEW index \in Nat
  PROVE  [type |-> "execute_command_reply", result |-> eid, status |-> status,
          commit_index |-> index] \in Rpc
BY DEF Rpc, ExecuteCommandReply

(* tell() returns a well-typed struct raft.                                *)
LEMMA TellType ==
  ASSUME NEW r \in RaftState, NEW done \in SUBSET Command, NEW status \in CmdStatus
  PROVE  tell(r, done, status) \in RaftState
<1> DEFINE of(e)     == {c \in done : c.eid = e /\ c.client}
           result(c) == [status |-> status,
                         index |-> IF status = "SUCCESS" THEN c.index ELSE 0]
           new(e)    == [i \in DOMAIN Listed(of(e)) |-> result(Listed(of(e))[i])]
           results   == [e \in Cmd |-> r.results[e] \o new(e)]
<1>1. r.results \in [Cmd -> Seq(Result)]
  BY Members DEF Results
<1>2. \A c \in done : result(c) \in Result
  BY CommandMembers DEF Result
<1> HIDE DEF result
<1>3. ASSUME NEW e \in Cmd
      PROVE  r.results[e] \o new(e) \in Seq(Result)
  <2> DEFINE told == Listed(of(e))
  <2>1. told \in Seq(of(e))
    BY Zenon, ListedType
  <2> HIDE DEF told
  <2>2. DOMAIN told = 1 .. Len(told) /\ Len(told) \in Nat
    BY <2>1
  <2>3. \A i \in DOMAIN told : told[i] \in done
    BY <2>1
  <2>4. [i \in DOMAIN told |-> result(told[i])] \in Seq(Result)
    BY <1>2, <2>2, <2>3
  <2>5. new(e) \in Seq(Result) /\ r.results[e] \in Seq(Result)
    BY Zenon, <1>1, <2>4 DEF told
  <2> HIDE DEF new
  <2> QED BY <2>5
<1>4. results \in Results
  BY Zenon, <1>3 DEF Results
<1>5. [r EXCEPT !.results = results] \in RaftState
  BY Zenon, <1>4, Set_results
<1> QED BY Zenon, <1>5 DEF tell, result

(* raft_command_complete() returns a well-typed struct raft.               *)
LEMMA CommandCompleteType ==
  ASSUME NEW r \in RaftState, NEW done \in SUBSET Command, NEW status \in CmdStatus
  PROVE  raft_command_complete(r, done, status) \in RaftState
<1> DEFINE index(c) == IF status = "SUCCESS" THEN c.index ELSE 0
           reply(c) == [type |-> "execute_command_reply", result |-> c.eid,
                        status |-> status, commit_index |-> index(c)]
           to(d)    == {reply(c) : c \in {x \in done : x.sid = d}}
           t        == tell(r, done, status)
           left     == {c \in t.commands : \A x \in done : x.eid # c.eid}
           out      == [d \in Server |-> IF d \in r.conns
                                         THEN t.out[d] \o Listed(to(d))
                                         ELSE t.out[d]]
<1>1. t \in RaftState
  BY Zenon, TellType
<1> HIDE DEF t
<1>2. t.commands \in Commands /\ t.out \in Rpcs
  BY <1>1, Members
<1>3. \A c \in done : c.eid \in Cmd /\ index(c) \in Nat
  BY CommandMembers
<1>4. left \in Commands
  BY <1>2 DEF Commands
<1>5. \A c \in done : reply(c) \in Rpc
  BY <1>3, ExecuteCommandReplyType
<1> HIDE DEF reply
<1>6. \A d \in Server : to(d) \subseteq Rpc
  BY <1>5
<1> HIDE DEF to
<1>7. out \in Rpcs
  <2>1. \A d \in Server : Listed(to(d)) \in Seq(Rpc)
    <3> SUFFICES ASSUME NEW d \in Server PROVE Listed(to(d)) \in Seq(Rpc)
      OBVIOUS
    <3>1. Listed(to(d)) \in Seq(to(d))
      BY ListedType
    <3> QED BY <1>6, <3>1
  <2>2. \A d \in Server : t.out[d] \o Listed(to(d)) \in Seq(Rpc) /\ t.out[d] \in Seq(Rpc)
    BY <1>2, <2>1 DEF Rpcs
  <2> QED BY <2>2 DEF Rpcs
<1> HIDE DEF left, out
<1>8. [t EXCEPT !.commands = left, !.out = out] \in RaftState
  BY Zenon, <1>1, <1>4, <1>7, Set_commands, Set_out
<1> QED BY Zenon, <1>8 DEF raft_command_complete, t, left, out, to, reply

(* raft_update_commit_index() returns a well-typed struct raft.            *)
LEMMA UpdateCommitIndexType ==
  ASSUME NEW r \in RaftState, NEW new_commit_index \in Nat
  PROVE  raft_update_commit_index(r, new_commit_index) \in RaftState
<1> DEFINE newly == r.commit_index + 1 .. new_commit_index
           at(c) == {i \in newly : raft_get_entry(r, i).eid = c.eid}
           sid(c) == IF c.index # 0 /\ r.role # "LEADER" THEN ZERO ELSE c.sid
           done  == {[c EXCEPT !.index = Largest(at(c), 0),
                               !.sid = IF c.index # 0 /\ r.role # "LEADER"
                                       THEN ZERO ELSE @]
                       : c \in {x \in r.commands : at(x) # {}}}
           updated == [r EXCEPT !.commit_index = new_commit_index]
<1>1. r.commands \in Commands /\ r.commit_index \in Nat
  BY Members
<1>2. \A c \in r.commands : Largest(at(c), 0) \in Nat /\ sid(c) \in Sid /\ c \in Command
  <2> SUFFICES ASSUME NEW c \in r.commands
               PROVE  Largest(at(c), 0) \in Nat /\ sid(c) \in Sid /\ c \in Command
    OBVIOUS
  <2>1. c \in Command
    BY <1>1 DEF Commands
  <2>2. at(c) \subseteq Nat
    BY <1>1
  <2>3. Largest(at(c), 0) \in at(c) \cup {0}
    BY LargestIn
  <2> HIDE DEF at
  <2> QED BY <2>1, <2>2, <2>3, Zero, CommandMembers
<1> HIDE DEF at
<1>3. ASSUME NEW c \in r.commands
      PROVE  [c EXCEPT !.index = Largest(at(c), 0),
                       !.sid = IF c.index # 0 /\ r.role # "LEADER"
                               THEN ZERO ELSE @] \in Command
  BY Zenon, <1>2, SetCommand
<1>4. done \in SUBSET Command
  BY Zenon, <1>3
<1>5. updated \in RaftState
  BY Zenon, Set_commit_index
<1> HIDE DEF done, updated
<1>6. raft_command_complete(updated, done, "SUCCESS") \in RaftState
  BY <1>4, <1>5, SuccessStatus, CommandCompleteType
<1>7. ovsdb_log_write(raft_command_complete(updated, done, "SUCCESS"),
                      CommitRecord(new_commit_index)) \in RaftState
  BY <1>6, CommitRecordType, LogWriteType
<1>8. [r EXCEPT !.aborted = TRUE] \in RaftState
  BY Zenon, Flags, Set_aborted
<1> QED BY Zenon, <1>7, <1>8 DEF raft_update_commit_index, updated, done, at

-----------------------------------------------------------------------------
(* Leadership.                                                             *)

(* raft_consider_updating_commit_index() returns a well-typed struct raft. *)
LEMMA ConsiderUpdatingCommitIndexType ==
  ASSUME NEW r \in RaftState
  PROVE  raft_consider_updating_commit_index(r) \in RaftState
<1> DEFINE range == Larger(r.commit_index + 1, r.log_start) .. log_end(r) - 1
           S == {i \in range :
                   /\ raft_get_entry(r, i).term = r.term
                   /\ Majority({s \in r.servers : r.match_index[s] >= i}, r)}
           new == Largest(S, r.commit_index)
<1>1. r.commit_index \in Nat /\ r.log_start \in Nat /\ log_end(r) \in Nat
  BY Members, RaftHasLog, LogEndType
<1>2. range \subseteq Nat
  BY <1>1 DEF Larger
<1>3. S \subseteq Nat
  BY <1>2
<1> HIDE DEF S
<1>4. new \in Nat
  BY Zenon, <1>1, <1>3, LargestIn
<1> HIDE DEF new
<1>5. raft_send_heartbeats(raft_update_commit_index(r, new)) \in RaftState
  BY <1>4, UpdateCommitIndexType, SendHeartbeatsType
<1> QED BY Zenon, <1>5 DEF raft_consider_updating_commit_index, new, S

(* raft_update_match_index() returns a well-typed struct raft.             *)
LEMMA UpdateMatchIndexType ==
  ASSUME NEW r \in RaftState, NEW s \in Server, NEW min_index \in Nat
  PROVE  raft_update_match_index(r, s, min_index) \in RaftState
<1>1. r.match_index \in Indexes
  BY Members
<1>2. [r.match_index EXCEPT ![s] = min_index] \in Indexes
  BY <1>1 DEF Indexes
<1>3. [r EXCEPT !.match_index[s] = min_index] \in RaftState
  BY Zenon, <1>2, Set_match_index
<1> QED BY Zenon, <1>3, ConsiderUpdatingCommitIndexType DEF raft_update_match_index

(* raft_update_our_match_index() returns a well-typed struct raft.         *)
LEMMA UpdateOurMatchIndexType ==
  ASSUME NEW r \in RaftState, NEW min_index \in Nat
  PROVE  raft_update_our_match_index(r, min_index) \in RaftState
<1>1. r.sid \in Server
  BY Members
<1> QED BY Zenon, <1>1, UpdateMatchIndexType DEF raft_update_our_match_index

(* What raft_write_entries() does to the log.                              *)
LEMMA WriteEntriesLog ==
  ASSUME NEW r \in RaftState, NEW es \in Log
  PROVE  LET w == raft_write_entries(r, es)
         IN  /\ w.log = r.log \o SubSeq(es, 1, Smaller(Smaller(r.space, Len(es)) + 1,
                                                       Len(es)))
             /\ w.log_start = r.log_start
             /\ w.next_index = r.next_index
             /\ w.servers = r.servers
             /\ w.sid = r.sid
<1> DEFINE n == Smaller(r.space, Len(es))
           images == [j \in 1 .. n |->
                        raft_apply_record(written(r), EntryRecords(log_end(r),
                                                        SubSeq(es, 1, j)))]
           new == SubSeq(es, 1, Smaller(n + 1, Len(es)))
           w == [r EXCEPT !.log = @ \o new, !.disk = @ \o images, !.space = @ - n]
<1> HIDE DEF n, images, new
<1>1. /\ w.log = r.log \o new
      /\ w.log_start = r.log_start
      /\ w.next_index = r.next_index
      /\ w.servers = r.servers
      /\ w.sid = r.sid
  BY SMTT(60), SMT DEF RaftState
<1>2. raft_write_entries(r, es) = w
  BY DEF raft_write_entries, n, images, new
<1> HIDE DEF w
<1> QED BY Zenon, <1>1, <1>2 DEF n, new

(* One entry is added to the log whether it could be written or not.       *)
LEMMA WriteOneEntry ==
  ASSUME NEW r \in RaftState, NEW es \in Log, Len(es) = 1
  PROVE  log_end(raft_write_entries(r, es)) = log_end(r) + 1
<1> DEFINE new == SubSeq(es, 1, Smaller(Smaller(r.space, Len(es)) + 1, Len(es)))
           w   == raft_write_entries(r, es)
<1>1. r.space \in Nat /\ r.log \in Log /\ r.log_start \in Nat
  BY Members DEF Start
<1>2. Smaller(Smaller(r.space, Len(es)) + 1, Len(es)) = 1
  BY <1>1 DEF Smaller
<1>3. new \in Log /\ Len(new) = 1
  <2>1. SubSeq(es, 1, 1) \in Log /\ Len(SubSeq(es, 1, 1)) = 1
    BY SMTT(60), SMT DEF Log
  <2> QED BY <1>2, <2>1
<1>4. w.log = r.log \o new /\ w.log_start = r.log_start
  BY Zenon, WriteEntriesLog
<1> HIDE DEF new, w
<1>5. Len(w.log) = Len(r.log) + 1 /\ Len(r.log) \in Nat
  BY ZenonT(60), <1>1, <1>3, <1>4, ConcatLog
<1> QED BY SMTT(60), <1>1, <1>4, <1>5 DEF log_end, w

(* raft_command_initiate() returns a well-typed struct raft.               *)
LEMMA CommandInitiateType ==
  ASSUME NEW r \in RaftState, NEW eid \in Eid, NEW servers \in Servers,
         NEW sid \in Sid, NEW client \in Flag
  PROVE  raft_command_initiate(r, eid, servers, sid, client) \in RaftState
<1> DEFINE index == log_end(r)
           entry == [term |-> r.term, eid |-> eid, servers |-> servers]
           e     == raft_write_entries(r, <<entry>>)
           w     == raft_handle_write_error(r, e)
           cmd   == [eid |-> eid, index |-> index, sid |-> sid, client |-> client]
           cmds  == IF eid = ZERO THEN {} ELSE {cmd}
           entry_waiter == [type |-> "W_ENTRY", index |-> index,
                            commit_ticket |-> ovsdb_log_commit_start(w)]
           i     == [w EXCEPT !.commands = @ \cup cmds,
                              !.waiters = Append(@, entry_waiter)]
           due   == {s \in peers(i) : i.next_index[s] = index}
           sent  == raft_send_append_request(i, [s \in due |-> 1])
<1>1. HasLog(r) /\ r.term \in Nat /\ r.space \in Nat /\ r.next_index \in Indexes
  BY Members, RaftHasLog
<1>2. entry \in Entry
  BY <1>1 DEF Entry, Servers
<1> HIDE DEF entry
<1>3. <<entry>> \in Log /\ <<entry>> # <<>> /\ Len(<<entry>>) = 1
  BY <1>2 DEF Log
<1>4. e \in RaftState
  BY Zenon, <1>3, WriteEntriesType
<1>5. e.log_start = r.log_start /\ e.next_index = r.next_index
  BY Zenon, <1>3, WriteEntriesLog
<1>6. log_end(e) = index + 1
  BY <1>3, WriteOneEntry
<1> HIDE DEF e
<1>7. w \in RaftState
  BY <1>4, HandleWriteErrorType
<1>8. w.log = e.log /\ w.log_start = e.log_start /\ w.next_index = e.next_index
  BY SMTT(60), SMT, <1>4 DEF RaftState, raft_handle_write_error
<1> HIDE DEF w
<1>9. i \in RaftState
  <2>1. w.commands \in Commands /\ w.waiters \in Waiters /\ w.disk \in Disk
    BY SMTT(60), <1>7, Members
  <2>2. index \in Nat
    BY <1>1, LogEndType
  <2>3. w.commands \cup cmds \in Commands
    BY <2>1, <2>2, <1>1 DEF Commands, Command, Eid
  <2>4. ovsdb_log_commit_start(w) \in Nat
    BY <2>1, DiskMembers DEF ovsdb_log_commit_start
  <2>5. entry_waiter \in Waiter
    BY Zenon, <2>2, <2>4 DEF Waiter
  <2> HIDE DEF entry_waiter, cmds
  <2>6. Append(w.waiters, entry_waiter) \in Waiters
    BY <2>1, <2>5, AppendWaiter
  <2> QED BY Zenon, <2>3, <2>6, <1>7, Set_commands, Set_waiters
<1>10. i.log = w.log /\ i.log_start = w.log_start /\ i.next_index = w.next_index
  BY SMT, <1>7 DEF RaftState
<1>11. log_end(i) = index + 1
  BY <1>6, <1>8, <1>10 DEF log_end
<1>12. i.log_start <= index /\ index \in Nat
  BY <1>1, <1>5, <1>8, <1>10, LogEndType
<1> HIDE DEF i
<1>13. due \subseteq Server
  <2>1. i.servers \in Servers
    BY Zenon, <1>9, Members
  <2> QED BY <2>1 DEF peers, Servers
<1> HIDE DEF index
<1>14. sent \in RaftState
  <2> DEFINE n == [s \in due |-> 1]
  <2>1. DOMAIN n \subseteq Server /\ \A s \in DOMAIN n : n[s] = 1
    BY <1>13
  <2>2. \A s \in DOMAIN n : i.next_index[s] = index
    OBVIOUS
  <2> HIDE DEF n
  <2>3. \A s \in DOMAIN n : /\ n[s] \in Nat
                            /\ i.log_start <= i.next_index[s]
                            /\ i.next_index[s] + n[s] <= log_end(i)
    BY SMTT(60), <1>9, <1>11, <1>12, <2>1, <2>2, RaftHasLog, LogEndType
  <2>4. raft_send_append_request(i, n) \in RaftState
    BY <1>9, <2>1, <2>3, SendAppendRequestType
  <2> QED BY <2>4 DEF n
<1> HIDE DEF sent
<1>15. [sent EXCEPT !.next_index =
         [s \in Server |-> IF s \in due THEN @[s] + 1 ELSE @[s]]] \in RaftState
  <2>1. sent.next_index \in Indexes
    BY <1>14, Members
  <2>2. [s \in Server |-> IF s \in due THEN sent.next_index[s] + 1
                                       ELSE sent.next_index[s]] \in Indexes
    BY <2>1 DEF Indexes
  <2> QED BY Zenon, <1>14, <2>2, Set_next_index
<1> QED BY Zenon, <1>7, <1>15
        DEF raft_command_initiate, sent, due, i, w, e, entry, index

(* The three roles have the type of raft->role.                            *)
LEMMA Roles ==
  /\ "FOLLOWER" \in Role /\ "CANDIDATE" \in Role /\ "LEADER" \in Role
BY DEF Role

(* raft_set_leader() returns a well-typed struct raft.                     *)
LEMMA SetLeaderType ==
  ASSUME NEW r \in RaftState, NEW sid \in Sid
  PROVE  raft_set_leader(r, sid) \in RaftState
BY Zenon, Set_leader_sid DEF raft_set_leader

(* raft_become_leader() returns a well-typed struct raft.                  *)
LEMMA BecomeLeaderType ==
  ASSUME NEW r \in RaftState
  PROVE  raft_become_leader(r) \in RaftState
<1> DEFINE a  == raft_set_leader(r, r.sid)
           ni == [s \in Server |-> IF s \in r.servers
                                   THEN log_end(r) ELSE a.next_index[s]]
           mi == [s \in Server |-> IF s \in r.servers
                                   THEN 0 ELSE a.match_index[s]]
           l  == [a EXCEPT
                    !.role = "LEADER", !.fresh = TRUE,
                    !.next_index = ni, !.match_index = mi,
                    !.replied = a.replied \ r.servers,
                    !.installing = a.installing \ r.servers]
           m  == raft_update_our_match_index(l, log_end(l) - 1)
<1>1. r.sid \in Server /\ log_end(r) \in Nat
  BY Members, RaftHasLog, LogEndType
<1>2. a \in RaftState
  BY <1>1, SetLeaderType DEF Sid
<1>3. /\ a.next_index \in Indexes /\ a.match_index \in Indexes
      /\ a.replied \in Servers /\ a.installing \in Servers
  BY <1>2, Members
<1>4. ni \in Indexes /\ mi \in Indexes
  BY <1>1, <1>3 DEF Indexes
<1>5. a.replied \ r.servers \in Servers /\ a.installing \ r.servers \in Servers
  BY <1>3 DEF Servers
<1> HIDE DEF a, ni, mi
<1>6. l \in RaftState
  BY Zenon, <1>2, <1>4, <1>5, Roles, Flags, Set_role, Set_fresh, Set_next_index,
     Set_match_index, Set_replied, Set_installing
<1> HIDE DEF l
<1>7. log_end(l) - 1 \in Nat
  BY <1>6, RaftHasLog, LogEndType
<1>8. m \in RaftState
  BY <1>6, <1>7, UpdateOurMatchIndexType
<1> HIDE DEF m
<1>9. raft_command_initiate(m, ZERO, {}, ZERO, FALSE) \in RaftState
  <2>1. {} \in Servers
    BY DEF Servers
  <2> QED BY Zenon, <2>1, <1>8, Zero, Flags, CommandInitiateType
<1> QED BY Zenon, <1>8, <1>9 DEF raft_become_leader, m, l, ni, mi, a

(* raft_become_follower() returns a well-typed struct raft.                *)
LEMMA BecomeFollowerType ==
  ASSUME NEW r \in RaftState
  PROVE  raft_become_follower(r) \in RaftState
<1>1. r.fresh \in Flag
  BY Members
<1>2. (r.fresh \/ r.role # "FOLLOWER") \in Flag
  BY <1>1 DEF Flag
<1> QED BY Zenon, <1>2, Zero, Roles, Set_leader_sid, Set_role, Set_fresh
        DEF raft_become_follower

-----------------------------------------------------------------------------
(* Terms and votes.                                                        *)

(* raft_set_term() returns a well-typed struct raft.                       *)
LEMMA SetTermType ==
  ASSUME NEW r \in RaftState, NEW term \in Nat, NEW vote \in Sid
  PROVE  raft_set_term(r, term, vote) \in RaftState
<1> DEFINE w == raft_handle_write_error(r, ovsdb_log_write(r, TermRecord(term, vote)))
           term_waiter == [type |-> "W_TERM",
                           commit_ticket |-> ovsdb_log_commit_start(w),
                           term |-> term, vote |-> vote]
<1>1. w \in RaftState
  BY TermRecordType, LogWriteType, HandleWriteErrorType
<1> HIDE DEF w
<1>2. w.disk \in Disk /\ w.waiters \in Waiters
  BY <1>1, Members
<1>3. ovsdb_log_commit_start(w) \in Nat
  BY <1>2, DiskMembers DEF ovsdb_log_commit_start
<1>4. term_waiter \in Waiter
  BY SMTT(60), <1>3 DEF Waiter
<1> HIDE DEF term_waiter
<1>5. Append(w.waiters, term_waiter) \in Waiters
  BY <1>2, <1>4, AppendWaiter
<1>6. [w EXCEPT !.term = term, !.vote = vote, !.waiters = Append(@, term_waiter)]
        \in RaftState
  BY Zenon, <1>1, <1>5, Set_term, Set_vote, Set_waiters
<1> QED BY Zenon, <1>1, <1>6 DEF raft_set_term, w, term_waiter

(* raft_accept_vote() returns a well-typed struct raft.                    *)
LEMMA AcceptVoteType ==
  ASSUME NEW r \in RaftState, NEW s \in Server, NEW vote \in Sid
  PROVE  raft_accept_vote(r, s, vote) \in RaftState
<1>1. r.votes \in Votes /\ r.n_votes \in Nat
  BY Members
<1>2. [r.votes EXCEPT ![s] = vote] \in Votes
  BY <1>1 DEF Votes
<1>3. (IF r.votes[s] # vote /\ vote = r.sid THEN r.n_votes + 1 ELSE r.n_votes) \in Nat
  BY <1>1
<1> QED BY Zenon, <1>2, <1>3, Set_votes, Set_n_votes DEF raft_accept_vote

(* vote_request() is an RPC.                                               *)
LEMMA VoteRequestType ==
  ASSUME NEW r \in RaftState, NEW is_prevote \in BOOLEAN,
         NEW leadership_transfer \in BOOLEAN
  PROVE  vote_request(r, is_prevote, leadership_transfer) \in Rpc
<1>1. r.term \in Nat /\ log_end(r) - 1 \in Nat /\ last_log_term(r) \in Nat
  BY SMTT(60), Members, RaftHasLog, LogEndType, LastLogTermType
<1>2. vote_request(r, is_prevote, leadership_transfer) \in VoteRequest
  BY Zenon, <1>1 DEF vote_request, VoteRequest
<1> QED BY Zenon, <1>2 DEF Rpc

(* raft_start_election() returns a well-typed struct raft.                 *)
LEMMA StartElectionType ==
  ASSUME NEW r \in RaftState, NEW is_prevote \in BOOLEAN,
         NEW leadership_transfer \in BOOLEAN
  PROVE  raft_start_election(r, is_prevote, leadership_transfer) \in RaftState
<1> DEFINE t == IF is_prevote THEN r ELSE raft_set_term(r, r.term + 1, r.sid)
           votes == [s \in Server |-> IF s \in r.servers THEN ZERO ELSE t.votes[s]]
           c == [t EXCEPT !.leader_sid = ZERO,
                          !.prevote_passed = ~is_prevote,
                          !.role = "CANDIDATE",
                          !.n_votes = 0,
                          !.fresh = TRUE,
                          !.votes = votes]
           rpcs == [p \in Server |->
                      IF p \in peers(c)
                      THEN <<vote_request(c, is_prevote, leadership_transfer)>>
                      ELSE <<>>]
           q == raft_send(c, rpcs)
           v == raft_accept_vote(q, r.sid, r.sid)
<1>1. r.term + 1 \in Nat /\ r.sid \in Server /\ r.sid \in Sid
  BY Members DEF Sid
<1>2. t \in RaftState
  BY <1>1, SetTermType
<1> HIDE DEF t
<1>3. votes \in Votes
  <2>1. t.votes \in Votes
    BY <1>2, Members
  <2> QED BY <2>1, Zero DEF Votes
<1> HIDE DEF votes
<1>4. (~is_prevote) \in Flag
  BY DEF Flag
<1>5. c \in RaftState
  <2>1. 0 \in Nat
    OBVIOUS
  <2> QED BY Zenon, <1>2, <1>3, <1>4, <2>1, Zero, Roles, Flags, Set_leader_sid,
             Set_prevote_passed, Set_role, Set_n_votes, Set_fresh, Set_votes
<1> HIDE DEF c
<1>6. rpcs \in Rpcs
  <2>1. vote_request(c, is_prevote, leadership_transfer) \in Rpc
    BY Zenon, <1>5, VoteRequestType
  <2> DEFINE m == vote_request(c, is_prevote, leadership_transfer)
  <2> HIDE DEF m
  <2>2. <<m>> \in Seq(Rpc) /\ <<>> \in Seq(Rpc)
    BY <2>1 DEF m
  <2> QED BY <2>2 DEF Rpcs, m
<1> HIDE DEF rpcs
<1>7. q \in RaftState
  BY <1>5, <1>6, SendType
<1> HIDE DEF q
<1>8. v \in RaftState
  BY <1>1, <1>7, AcceptVoteType
<1> HIDE DEF v
<1>9. raft_become_leader(v) \in RaftState /\ [t EXCEPT !.aborted = TRUE] \in RaftState
  BY Zenon, <1>2, <1>8, BecomeLeaderType, Flags, Set_aborted
<1> QED BY Zenon, <1>2, <1>8, <1>9 DEF raft_start_election, v, q, rpcs, c, votes, t

(* raft_receive_term__() returns a well-typed struct raft.                 *)
LEMMA ReceiveTermType ==
  ASSUME NEW r \in RaftState, NEW term \in Nat
  PROVE  raft_receive_term__(r, term) \in RaftState
BY Zenon, Zero, SetTermType, BecomeFollowerType DEF raft_receive_term__

-----------------------------------------------------------------------------
(* AppendEntries.                                                          *)

(* The members that a handler reads of an RPC of each type.                *)
LEMMA RpcMembers ==
  ASSUME NEW m \in Rpc
  PROVE  /\ m.type = "append_request" =>
              /\ m.term \in Nat /\ m.prev_log_index \in Nat
              /\ m.prev_log_term \in Nat /\ m.leader_commit \in Nat
              /\ m.entries \in Log
         /\ m.type = "append_reply" =>
              /\ m.term \in Nat /\ m.log_end \in Nat /\ m.prev_log_index \in Nat
              /\ m.n_entries \in Nat /\ m.result \in AppendResult
         /\ m.type = "vote_request" =>
              /\ m.term \in Nat /\ m.is_prevote \in BOOLEAN
         /\ m.type = "vote_reply" =>
              /\ m.term \in Nat /\ m.vote \in Sid /\ m.is_prevote \in BOOLEAN
         /\ m.type = "install_snapshot_request" =>
              /\ m.term \in Nat /\ m.last_index \in Nat \ {0} /\ m.last \in Snapshot
         /\ m.type = "install_snapshot_reply" =>
              /\ m.term \in Nat /\ m.last_index \in Nat /\ m.last_term \in Nat
         /\ m.type = "become_leader" => m.term \in Nat
         /\ m.type = "execute_command_request" =>
              /\ m.prereq \in Eid /\ m.result \in Cmd
         /\ m.type = "execute_command_reply" =>
              /\ m.result \in Cmd /\ m.status \in CmdStatus /\ m.commit_index \in Nat
BY SMT DEF Rpc, AppendRequest, AppendReply, VoteRequest, VoteReply,
       InstallSnapshotRequest, InstallSnapshotReply, BecomeLeader,
       ExecuteCommandRequest, ExecuteCommandReply, Log

(* There are no RPCs of other types.                                       *)
LEMMA RpcTypes ==
  ASSUME NEW m \in Rpc
  PROVE  m.type \in {"append_request", "append_reply", "vote_request",
                     "vote_reply", "install_snapshot_request",
                     "install_snapshot_reply", "become_leader",
                     "execute_command_request", "execute_command_reply"}
BY SMT DEF Rpc, AppendRequest, AppendReply, VoteRequest, VoteReply,
       InstallSnapshotRequest, InstallSnapshotReply, BecomeLeader,
       ExecuteCommandRequest, ExecuteCommandReply

(* raft_send_append_reply() returns a well-typed struct raft.              *)
LEMMA SendAppendReplyType ==
  ASSUME NEW r \in RaftState, NEW src, NEW rq \in Rpc, rq.type = "append_request",
         NEW result \in AppendResult
  PROVE  raft_send_append_reply(r, src, rq, result) \in RaftState
<1> DEFINE n   == Len(rq.entries)
           new == Smaller(rq.leader_commit, uint64(rq.prev_log_index + n))
           c   == IF result = "OK" /\ rq.leader_commit > r.commit_index
                  THEN raft_update_commit_index(r, new) ELSE r
           m   == [type |-> "append_reply", term |-> c.term,
                   log_end |-> log_end(c), prev_log_index |-> rq.prev_log_index,
                   n_entries |-> n, result |-> result]
<1>1. /\ rq.prev_log_index \in Nat /\ rq.leader_commit \in Nat
      /\ rq.entries \in Log
  BY RpcMembers
<1>2. n \in Nat
  BY <1>1 DEF Log
<1>3. new \in Nat
  <2>1. uint64(rq.prev_log_index + n) \in Nat
    BY <1>1, <1>2, Uint64Type
  <2> QED BY <1>1, <2>1 DEF Smaller
<1> HIDE DEF new, n
<1>4. c \in RaftState
  BY <1>3, UpdateCommitIndexType
<1> HIDE DEF c
<1>5. c.term \in Nat /\ log_end(c) \in Nat
  BY <1>4, Members, RaftHasLog, LogEndType
<1>6. m \in AppendReply
  BY Zenon, <1>1, <1>2, <1>5 DEF AppendReply
<1>7. m \in Rpc
  BY Zenon, <1>6 DEF Rpc
<1> HIDE DEF m
<1>8. raft_send(c, To(src, m)) \in RaftState
  BY <1>4, <1>7, ToType, SendType
<1> QED BY Zenon, <1>8 DEF raft_send_append_reply, m, c, new, n

(* raft_handle_append_entries() returns a well-typed struct raft.          *)
LEMMA HandleAppendEntriesType ==
  ASSUME NEW r \in RaftState, NEW src, NEW rq \in Rpc, rq.type = "append_request",
         NEW prev_log_index \in Nat, NEW prev_log_term, NEW entries \in Log
  PROVE  raft_handle_append_entries(r, src, rq, prev_log_index, prev_log_term,
                                    entries) \in RaftState
<1> DEFINE new   == {i \in DOMAIN entries :
                       \/ prev_log_index + i >= log_end(r)
                       \/ raft_get_entry(r, prev_log_index + i).term # entries[i].term}
           first == Smallest(new, 1)
           rest  == SubSeq(entries, first, Len(entries))
           kept  == IF prev_log_index + first < log_end(r)
                    THEN raft_truncate(r, prev_log_index + first) ELSE r
           w     == raft_write_entries(kept, rest)
           n_written == Smaller(r.space, Len(rest))
           changed == \/ \E i \in prev_log_index + first .. log_end(r) - 1 :
                            raft_get_entry(r, i).servers # {}
                      \/ \E i \in 1 .. n_written : rest[i].servers # {}
           s     == IF changed THEN raft_get_servers_from_log(w) ELSE w
           entry_waiter == [type |-> "W_ENTRY",
                            commit_ticket |-> ovsdb_log_commit_start(s),
                            index |-> log_end(s) - 1]
           waiting == [s EXCEPT !.waiters = Append(@, entry_waiter)]
           result  == IF n_written < Len(rest) THEN "IO_ERROR" ELSE "OK"
<1>1. "OK" \in AppendResult /\ "INCONSISTENCY" \in AppendResult
      /\ result \in AppendResult
  BY DEF AppendResult
<1>2. CASE ~match_index_and_term(r, prev_log_index, prev_log_term)
  BY Zenon, <1>1, <1>2, SendAppendReplyType DEF raft_handle_append_entries
<1>3. CASE match_index_and_term(r, prev_log_index, prev_log_term) /\ new = {}
  BY Zenon, <1>1, <1>3, SendAppendReplyType DEF raft_handle_append_entries
<1>4. CASE match_index_and_term(r, prev_log_index, prev_log_term) /\ new # {}
  <2>1. prev_log_index \in r.log_start - 1 .. log_end(r) - 1
    BY <1>4 DEF match_index_and_term
  <2>2. first \in 1 .. Len(entries)
    <3>1. DOMAIN entries = 1 .. Len(entries) /\ Len(entries) \in Nat
      BY DEF Log
    <3>2. new \subseteq 1 .. Len(entries)
      BY Zenon, <3>1
    <3>3. PICK i \in new : TRUE
      BY <1>4
    <3>4. 1 \in 1 .. Len(entries)
      BY <3>1, <3>2, <3>3
    <3> HIDE DEF new
    <3> QED BY <3>2, <3>4, SmallestIn
  <2> HIDE DEF first
  <2>3. /\ r.log_start \in Nat /\ log_end(r) \in Nat /\ r.log_start <= log_end(r)
        /\ Len(entries) \in Nat
    BY RaftHasLog, LogEndType DEF Log
  <2>4. kept \in RaftState
    <3>1. prev_log_index + first < log_end(r)
            => prev_log_index + first \in r.log_start .. log_end(r)
      BY SMTT(60), <2>1, <2>2, <2>3
    <3> QED BY <3>1, TruncateType
  <2>5. rest \in Log /\ rest # <<>>
    <3>1. rest \in Log /\ Len(rest) = Len(entries) - first + 1
      BY <2>2, <2>3, SubLog
    <3>2. Len(rest) > 0
      BY <2>2, <2>3, <3>1
    <3> HIDE DEF rest
    <3> QED BY <3>1, <3>2
  <2> HIDE DEF kept, rest
  <2>6. w \in RaftState
    BY <2>4, <2>5, WriteEntriesType
  <2> HIDE DEF w
  <2>7. s \in RaftState
    BY Zenon, <2>6, GetServersFromLogType
  <2> HIDE DEF s, changed
  <2>8. entry_waiter \in Waiter
    <3>1. s.disk \in Disk /\ log_end(s) - 1 \in Nat
      BY <2>7, Members, RaftHasLog, LogEndType
    <3>2. ovsdb_log_commit_start(s) \in Nat
      BY <3>1, DiskMembers DEF ovsdb_log_commit_start
    <3> QED BY <3>1, <3>2 DEF Waiter
  <2> HIDE DEF entry_waiter
  <2>9. waiting \in RaftState
    <3>1. Append(s.waiters, entry_waiter) \in Waiters
      BY <2>7, <2>8, Members, AppendWaiter
    <3> QED BY Zenon, <3>1, <2>7, Set_waiters
  <2> HIDE DEF waiting, n_written, result
  <2> DEFINE x == IF n_written > 0 THEN waiting ELSE s
  <2>10. x \in RaftState
    BY Zenon, <2>7, <2>9
  <2> HIDE DEF x
  <2>11. raft_send_append_reply(x, src, rq, result) \in RaftState
    BY Zenon, <2>10, <1>1, SendAppendReplyType
  <2> HIDE DEF new
  <2> QED BY Zenon, <1>4, <2>11 DEF raft_handle_append_entries, x, waiting,
             entry_waiter, s, changed, w, kept, rest, n_written, result, first, new
<1> QED BY <1>2, <1>3, <1>4

(* raft_update_leader() returns a well-typed struct raft.                  *)
LEMMA UpdateLeaderType ==
  ASSUME NEW r \in RaftState, NEW sid \in Sid
  PROVE  raft_update_leader(r, sid) \in RaftState
BY Zenon, SetLeaderType, Roles, Set_role DEF raft_update_leader

(* raft_handle_append_request() returns a well-typed struct raft.          *)
LEMMA HandleAppendRequestType ==
  ASSUME NEW r \in RaftState, NEW src \in Server, NEW rq \in Rpc,
         rq.type = "append_request"
  PROVE  raft_handle_append_request(r, src, rq) \in RaftState
<1> DEFINE f   == [raft_update_leader(r, src) EXCEPT !.fresh = TRUE]
           n   == Len(rq.entries)
           first == uint64(rq.prev_log_index + 1)
           nth == uint64(rq.prev_log_index + n)
           ofs == r.log_start - first
           last_term == IF n > 0 THEN rq.entries[n].term ELSE rq.prev_log_term
           result == IF r.snap.term = last_term THEN "OK" ELSE "INCONSISTENCY"
           es  == SubSeq(rq.entries, ofs + 1, n)
<1>1. f \in RaftState
  <2>1. src \in Sid
    BY DEF Sid
  <2> QED BY Zenon, <2>1, UpdateLeaderType, Flags, Set_fresh
<1>2. rq.prev_log_index \in Nat /\ rq.entries \in Log /\ n \in Nat
  BY RpcMembers DEF Log
<1>3. "OK" \in AppendResult /\ "INCONSISTENCY" \in AppendResult
      /\ result \in AppendResult
  BY DEF AppendResult
<1>4. first \in Nat
  BY <1>2, Uint64Type
<1>5. [f EXCEPT !.overrun = TRUE] \in RaftState
  BY Zenon, <1>1, Flags, Set_overrun
<1>6. CASE first < r.log_start
  <2>1. r.log_start \in Nat \ {0} /\ r.log_start - 1 \in Nat
    BY Members DEF Start
  <2>2. es \in Log
    <3>1. ofs + 1 \in Nat \ {0}
      BY SMTT(60), <1>4, <1>6, <2>1
    <3> HIDE DEF ofs
    <3> QED BY <1>2, <3>1, SubLog
  <2> HIDE DEF f, last_term, first, nth, ofs, es, n
  <2>3. raft_handle_append_entries(f, src, rq, r.log_start - 1,
                                   rq.entries[ofs].term, es) \in RaftState
    BY Zenon, <1>1, <2>1, <2>2, HandleAppendEntriesType
  <2>4. /\ raft_send_append_reply(r, src, rq, "INCONSISTENCY") \in RaftState
        /\ raft_send_append_reply(f, src, rq, "OK") \in RaftState
        /\ raft_send_append_reply(f, src, rq, result) \in RaftState
        /\ raft_send_append_reply([f EXCEPT !.overrun = TRUE], src, rq, "INCONSISTENCY")
              \in RaftState
    BY Zenon, <1>1, <1>3, <1>5, SendAppendReplyType
  <2>5. ~(first >= r.log_start)
    BY <1>4, <1>6, <2>1
  <2> QED BY Zenon, <2>3, <2>4, <2>5
          DEF raft_handle_append_request, f, last_term, first, nth, ofs, es, n
<1>7. CASE ~(first < r.log_start)
  <2>1. first >= r.log_start
    <3>1. r.log_start \in Nat
      BY Members DEF Start
    <3> QED BY <1>4, <1>7, <3>1
  <2> HIDE DEF f, first
  <2>2. /\ raft_send_append_reply(r, src, rq, "INCONSISTENCY") \in RaftState
        /\ raft_handle_append_entries(f, src, rq, rq.prev_log_index,
                                      rq.prev_log_term, rq.entries) \in RaftState
    BY Zenon, <1>1, <1>2, <1>3, HandleAppendEntriesType, SendAppendReplyType
  <2> QED BY Zenon, <2>1, <2>2 DEF raft_handle_append_request, f, first
<1> QED BY <1>6, <1>7

(* install_snapshot_request() is an RPC.                                   *)
LEMMA InstallSnapshotRequestType ==
  ASSUME NEW r \in RaftState
  PROVE  install_snapshot_request(r) \in Rpc
<1>1. r.term \in Nat /\ r.log_start - 1 \in Nat \ {0} /\ r.snap \in Snapshot
  BY Members DEF Start
<1>2. install_snapshot_request(r) \in InstallSnapshotRequest
  BY Zenon, <1>1 DEF install_snapshot_request, InstallSnapshotRequest
<1> QED BY Zenon, <1>2 DEF Rpc

(* raft_send_install_snapshot_request() returns a well-typed struct raft.  *)
LEMMA SendInstallSnapshotRequestType ==
  ASSUME NEW r \in RaftState, NEW s \in Server
  PROVE  raft_send_install_snapshot_request(r, s) \in RaftState
<1> DEFINE q == raft_send(r, To(s, install_snapshot_request(r)))
<1>1. q \in RaftState
  BY InstallSnapshotRequestType, ToType, SendType
<1> HIDE DEF q
<1>2. q.installing \in Servers /\ q.installing \cup {s} \in Servers
  BY <1>1, Members DEF Servers
<1>3. [q EXCEPT !.installing = IF s \in r.conns THEN @ \cup {s} ELSE @] \in RaftState
  BY Zenon, <1>1, <1>2, Set_installing
<1> QED BY Zenon, <1>3 DEF raft_send_install_snapshot_request, q

(* Assigning a member of an array.                                         *)
LEMMA SetIndex ==
  ASSUME NEW a \in Indexes, NEW s \in Server, NEW v \in Nat
  PROVE  /\ [a EXCEPT ![s] = v] \in Indexes
         /\ a[s] \in Nat
BY DEF Indexes

(* raft_handle_append_reply() returns a well-typed struct raft.            *)
LEMMA HandleAppendReplyType ==
  ASSUME NEW r \in RaftState, NEW src \in Server, NEW rpy \in Rpc,
         rpy.type = "append_reply"
  PROVE  raft_handle_append_reply(r, src, rpy) \in RaftState
<1> DEFINE a    == [r EXCEPT !.replied = @ \cup {src}]
           min  == uint64(rpy.prev_log_index + rpy.n_entries + 1)
           fwd  == [a EXCEPT !.next_index[src] = Larger(@, min)]
           ok   == raft_update_match_index(fwd, src, uint64(min - 1))
           back == [a EXCEPT !.next_index[src] =
                      IF @ > 0 THEN Smaller(@ - 1, rpy.log_end) ELSE 0]
           u    == IF rpy.result = "OK" THEN ok ELSE back
           next == u.next_index[src]
<1>1. /\ rpy.prev_log_index \in Nat /\ rpy.n_entries \in Nat /\ rpy.log_end \in Nat
  BY RpcMembers
<1>2. a \in RaftState
  <2>1. r.replied \cup {src} \in Servers
    BY Members DEF Servers
  <2> QED BY Zenon, <2>1, Set_replied
<1> HIDE DEF a
<1>3. min \in Nat /\ uint64(min - 1) \in Nat
  <2>1. min \in Nat
    BY <1>1, Uint64Type
  <2> HIDE DEF min
  <2> QED BY <2>1, Uint64Type
<1> HIDE DEF min
<1>4. a.next_index \in Indexes /\ a.next_index[src] \in Nat
  BY Zenon, <1>2, Members, SetIndex
<1>5. ok \in RaftState
  <2>1. Larger(a.next_index[src], min) \in Nat
    BY <1>3, <1>4 DEF Larger
  <2>2. [a.next_index EXCEPT ![src] = Larger(@, min)] \in Indexes
    BY Zenon, <1>4, <2>1, SetIndex
  <2>3. fwd \in RaftState
    BY Zenon, <1>2, <2>2, Set_next_index
  <2> HIDE DEF fwd
  <2> QED BY <2>3, <1>3, UpdateMatchIndexType
<1>6. back \in RaftState
  <2>1. (IF a.next_index[src] > 0
         THEN Smaller(a.next_index[src] - 1, rpy.log_end) ELSE 0) \in Nat
    BY <1>1, <1>4 DEF Smaller
  <2>2. [a.next_index EXCEPT ![src] =
           IF @ > 0 THEN Smaller(@ - 1, rpy.log_end) ELSE 0] \in Indexes
    BY Zenon, <1>4, <2>1, SetIndex
  <2> QED BY Zenon, <1>2, <2>2, Set_next_index
<1> HIDE DEF ok, back
<1>7. u \in RaftState
  BY Zenon, <1>5, <1>6
<1> HIDE DEF u
<1>8. raft_send_install_snapshot_request(u, src) \in RaftState
  BY <1>7, SendInstallSnapshotRequestType
<1>9. ASSUME ~(next < u.log_start), next < log_end(u)
      PROVE  raft_send_append_request(u, [x \in {src} |-> log_end(u) - next])
               \in RaftState
  <2> DEFINE n == [x \in {src} |-> log_end(u) - next]
  <2>1. next \in Nat /\ u.log_start \in Nat /\ log_end(u) \in Nat
    BY Zenon, <1>7, Members, SetIndex, RaftHasLog, LogEndType
  <2>2. DOMAIN n \subseteq Server
    OBVIOUS
  <2>3. \A s \in DOMAIN n : /\ n[s] \in Nat
                            /\ u.log_start <= u.next_index[s]
                            /\ u.next_index[s] + n[s] <= log_end(u)
    BY <1>9, <2>1
  <2> HIDE DEF n
  <2>4. raft_send_append_request(u, n) \in RaftState
    BY Zenon, <1>7, <2>2, <2>3, SendAppendRequestType
  <2> QED BY <2>4 DEF n
<1> QED BY Zenon, <1>7, <1>8, <1>9
        DEF raft_handle_append_reply, u, ok, back, min, a

-----------------------------------------------------------------------------
(* RequestVote.                                                            *)

(* raft_send_vote_reply() returns a well-typed struct raft.                *)
LEMMA SendVoteReplyType ==
  ASSUME NEW r \in RaftState, NEW dst, NEW vote \in Sid, NEW is_prevote \in BOOLEAN
  PROVE  raft_send_vote_reply(r, dst, vote, is_prevote) \in RaftState
<1> DEFINE m == [type |-> "vote_reply", term |-> r.term, vote |-> vote,
                 is_prevote |-> is_prevote]
<1>1. r.term \in Nat
  BY Members
<1>2. m \in VoteReply
  BY Zenon, <1>1 DEF VoteReply
<1>3. m \in Rpc
  BY Zenon, <1>2 DEF Rpc
<1> HIDE DEF m
<1>4. raft_send(r, To(dst, m)) \in RaftState
  BY <1>3, ToType, SendType
<1> QED BY Zenon, <1>4 DEF raft_send_vote_reply, m

(* raft_handle_vote_request() returns a well-typed struct raft.            *)
LEMMA HandleVoteRequestType ==
  ASSUME NEW r \in RaftState, NEW src \in Server, NEW rq \in Rpc,
         rq.type = "vote_request"
  PROVE  raft_handle_vote_request(r, src, rq) \in RaftState
<1> DEFINE v     == raft_set_term(r, r.term, src)
           voted == [v EXCEPT !.fresh = TRUE]
           vote(x) == IF rq.is_prevote THEN src ELSE x.vote
           reply(x) == raft_send_vote_reply(x, src, vote(x), rq.is_prevote)
<1>1. src \in Sid /\ rq.is_prevote \in BOOLEAN /\ r.term \in Nat
  BY Zenon, RpcMembers, Members DEF Sid
<1>2. v \in RaftState
  BY <1>1, SetTermType
<1> HIDE DEF v
<1>3. voted \in RaftState
  BY Zenon, <1>2, Flags, Set_fresh
<1> HIDE DEF voted
<1>4. \A x \in RaftState : reply(x) \in RaftState
  <2> SUFFICES ASSUME NEW x \in RaftState PROVE reply(x) \in RaftState
    OBVIOUS
  <2>1. vote(x) \in Sid
    BY Zenon, <1>1, Members
  <2> HIDE DEF vote
  <2> QED BY <1>1, <2>1, SendVoteReplyType
<1>5. reply(r) \in RaftState /\ reply(voted) \in RaftState
  BY Zenon, <1>3, <1>4
<1> QED BY Zenon, <1>2, <1>5 DEF raft_handle_vote_request, voted, v

(* raft_handle_vote_reply() returns a well-typed struct raft.              *)
LEMMA HandleVoteReplyType ==
  ASSUME NEW r \in RaftState, NEW src \in Server, NEW rpy \in Rpc,
         rpy.type = "vote_reply"
  PROVE  raft_handle_vote_reply(r, src, rpy) \in RaftState
<1> DEFINE a == raft_accept_vote(r, src, rpy.vote)
<1>1. a \in RaftState
  BY RpcMembers, AcceptVoteType
<1> HIDE DEF a
<1>2. raft_become_leader(a) \in RaftState
  BY <1>1, BecomeLeaderType
<1>3. raft_start_election(a, FALSE, FALSE) \in RaftState
  BY Zenon, <1>1, StartElectionType
<1> QED BY Zenon, <1>1, <1>2, <1>3 DEF raft_handle_vote_reply, a

-----------------------------------------------------------------------------
(* Snapshots.                                                              *)

(* raft_read_header() returns a file image.                                *)
LEMMA ReadHeaderType ==
  ASSUME NEW snap_index \in Nat \ {0}, NEW snap \in Snapshot
  PROVE  raft_read_header(snap_index, snap) \in Image
<1>1. snap_index + 1 \in Start /\ snap_index \in Nat /\ 0 \in Nat
  BY DEF Start
<1>2. <<>> \in Log
  BY DEF Log
<1> QED BY Zenon, <1>1, <1>2, Zero, Flags DEF raft_read_header, Image

(* raft_write_snapshot() returns a file image.                             *)
LEMMA WriteSnapshotType ==
  ASSUME NEW r \in RaftState, NEW new_log_start \in Start, NEW snap \in Snapshot,
         r.log_start <= new_log_start
  PROVE  raft_write_snapshot(r, new_log_start, snap) \in Image
<1> DEFINE header  == raft_read_header(new_log_start - 1, snap)
           rest    == SubSeq(r.log, new_log_start - r.log_start + 1, Len(r.log))
           entries == IF rest = <<>> THEN header
                      ELSE raft_apply_record(header,
                                             EntryRecords(new_log_start, rest))
           state   == raft_apply_record(entries, TermRecord(r.term, r.vote))
<1>1. /\ r.term \in Nat /\ r.vote \in Sid /\ r.commit_index \in Nat
      /\ r.log \in Log /\ r.log_start \in Nat
      /\ new_log_start \in Nat /\ new_log_start - 1 \in Nat \ {0}
  BY SMTT(60), Members DEF Start
<1>2. header \in Image
  BY <1>1, ReadHeaderType
<1> HIDE DEF header
<1>3. rest \in Log
  <2>1. new_log_start - r.log_start + 1 \in Nat \ {0} /\ Len(r.log) \in Nat
    BY SMTT(60), <1>1 DEF Log
  <2> QED BY SMTT(60), <1>1, <2>1, SubLog
<1> HIDE DEF rest
<1>4. entries \in Image
  BY <1>1, <1>2, <1>3, EntryRecordsType, ApplyRecordType
<1> HIDE DEF entries
<1>5. state \in Image
  BY <1>1, <1>4, TermRecordType, ApplyRecordType
<1> HIDE DEF state
<1>6. raft_apply_record(state, CommitRecord(r.commit_index)) \in Image
  BY <1>1, <1>5, CommitRecordType, ApplyRecordType
<1> QED BY Zenon, <1>5, <1>6 DEF raft_write_snapshot, state, entries, rest, header

(* raft_save_snapshot() returns a well-typed struct raft.                  *)
LEMMA SaveSnapshotType ==
  ASSUME NEW r \in RaftState, NEW new_start \in Start, NEW snap \in Snapshot,
         r.log_start <= new_start
  PROVE  raft_save_snapshot(r, new_start, snap) \in RaftState
BY WriteSnapshotType, LogReplaceCommitType DEF raft_save_snapshot

(* raft_handle_install_snapshot_request__() returns a well-typed struct    *)
(* raft.                                                                   *)
LEMMA InstallType ==
  ASSUME NEW r \in RaftState, NEW rq \in Rpc, rq.type = "install_snapshot_request"
  PROVE  raft_handle_install_snapshot_request__(r, rq) \in RaftState
<1> DEFINE start == rq.last_index + 1
           f     == [r EXCEPT !.fresh = TRUE]
           saved == raft_save_snapshot(f, start, rq.last)
           new   == [saved EXCEPT
                       !.log = <<>>,
                       !.log_start = start,
                       !.log_synced = start - 1,
                       !.commit_index = start - 1,
                       !.last_applied = IF @ < start - 1
                                        THEN start - 2 ELSE @,
                       !.snap = rq.last]
<1>1. f \in RaftState /\ f.log_start = r.log_start
  <2>1. f \in RaftState
    BY Zenon, Flags, Set_fresh
  <2>2. f.log_start = r.log_start
    BY SMT DEF RaftState
  <2> QED BY <2>1, <2>2
<1> HIDE DEF f
<1>2. CASE start < log_end(r) \/ r.space = 0
  BY Zenon, <1>1, <1>2 DEF raft_handle_install_snapshot_request__, f
<1>3. CASE ~(start < log_end(r) \/ r.space = 0)
  <2>1. rq.last_index \in Nat \ {0} /\ rq.last \in Snapshot
    BY RpcMembers
  <2>2. /\ start \in Start /\ start - 1 \in Nat /\ start - 2 \in Nat
        /\ f.log_start <= start
    <3>1. /\ r.log_start \in Nat /\ log_end(r) \in Nat
          /\ r.log_start <= log_end(r)
      BY RaftHasLog, LogEndType
    <3> QED BY <1>1, <1>3, <2>1, <3>1 DEF Start
  <2>3. saved \in RaftState
    BY <1>1, <2>1, <2>2, SaveSnapshotType
  <2> HIDE DEF saved
  <2>4. (IF saved.last_applied < start - 1 THEN start - 2 ELSE saved.last_applied)
          \in Nat
    BY <2>2, <2>3, Members
  <2>5. <<>> \in Log
    BY DEF Log
  <2> HIDE DEF start
  <2>6. new \in RaftState
    BY Zenon, <2>1, <2>2, <2>3, <2>4, <2>5, Set_log, Set_log_start,
       Set_log_synced, Set_commit_index, Set_last_applied, Set_snap
  <2> HIDE DEF new
  <2>7. raft_get_servers_from_log(new) \in RaftState
    BY <2>6, GetServersFromLogType
  <2> QED BY Zenon, <1>3, <2>7
          DEF raft_handle_install_snapshot_request__, new, saved, f, start
<1> QED BY Zenon, <1>2, <1>3

(* raft_handle_install_snapshot_request() returns a well-typed struct      *)
(* raft.                                                                   *)
LEMMA HandleInstallSnapshotRequestType ==
  ASSUME NEW r \in RaftState, NEW src, NEW rq \in Rpc,
         rq.type = "install_snapshot_request"
  PROVE  raft_handle_install_snapshot_request(r, src, rq) \in RaftState
<1> DEFINE i == raft_handle_install_snapshot_request__(r, rq)
           m == [type |-> "install_snapshot_reply", term |-> i.term,
                 last_index |-> rq.last_index, last_term |-> rq.last.term]
<1>1. i \in RaftState
  BY InstallType
<1> HIDE DEF i
<1>2. i.term \in Nat /\ rq.last_index \in Nat /\ rq.last.term \in Nat
  BY <1>1, Members, RpcMembers, SnapshotMembers
<1>3. m \in InstallSnapshotReply
  BY Zenon, <1>2 DEF InstallSnapshotReply
<1>4. m \in Rpc
  BY Zenon, <1>3 DEF Rpc
<1> HIDE DEF m
<1>5. raft_send(i, To(src, m)) \in RaftState
  BY <1>1, <1>4, ToType, SendType
<1> QED BY Zenon, <1>1, <1>5 DEF raft_handle_install_snapshot_request, m, i

(* raft_handle_install_snapshot_reply() returns a well-typed struct raft.  *)
LEMMA HandleInstallSnapshotReplyType ==
  ASSUME NEW r \in RaftState, NEW src \in Server, NEW rpy \in Rpc,
         rpy.type = "install_snapshot_reply"
  PROVE  raft_handle_install_snapshot_reply(r, src, rpy) \in RaftState
<1> DEFINE a   == [r EXCEPT !.installing = @ \ {src}]
           all == [a EXCEPT !.next_index[src] = a.log_start]
<1>1. a \in RaftState
  <2>1. r.installing \ {src} \in Servers
    BY Members DEF Servers
  <2> QED BY Zenon, <2>1, Set_installing
<1> HIDE DEF a
<1>2. /\ a.log_start \in Nat /\ a.next_index \in Indexes
      /\ [a.next_index EXCEPT ![src] = a.log_start] \in Indexes
  BY <1>1, Members, SetIndex, RaftHasLog, LogEndType
<1>3. all \in RaftState
  BY Zenon, <1>1, <1>2, Set_next_index
<1>4. all.next_index[src] = all.log_start
  <2>1. [a.next_index EXCEPT ![src] = a.log_start][src] = a.log_start
    BY <1>2 DEF Indexes
  <2>2. /\ all.next_index = [a.next_index EXCEPT ![src] = a.log_start]
        /\ all.log_start = a.log_start
    BY SMT, <1>1 DEF RaftState
  <2> QED BY <2>1, <2>2
<1> HIDE DEF all
<1>5. raft_send_append_request(all, [x \in {src} |-> Len(all.log)]) \in RaftState
  <2> DEFINE n == [x \in {src} |-> Len(all.log)]
  <2>1. /\ all.log_start \in Nat /\ log_end(all) \in Nat /\ Len(all.log) \in Nat
        /\ Len(all.log) = log_end(all) - all.log_start
    BY <1>3, RaftHasLog, LogEndType
  <2>2. DOMAIN n \subseteq Server
    OBVIOUS
  <2>3. \A s \in DOMAIN n : /\ n[s] \in Nat
                            /\ all.log_start <= all.next_index[s]
                            /\ all.next_index[s] + n[s] <= log_end(all)
    BY <1>4, <2>1
  <2> HIDE DEF n
  <2>4. raft_send_append_request(all, n) \in RaftState
    BY Zenon, <1>3, <2>2, <2>3, SendAppendRequestType
  <2> QED BY <2>4 DEF n
<1>6. raft_send_install_snapshot_request(a, src) \in RaftState
  BY <1>1, SendInstallSnapshotRequestType
<1> QED BY Zenon, <1>5, <1>6 DEF raft_handle_install_snapshot_reply, all, a

(* ovsdb_snapshot() returns a well-typed struct raft.                      *)
LEMMA OvsdbSnapshotType ==
  ASSUME NEW r \in RaftState
  PROVE  ovsdb_snapshot(r) \in RaftState
<1>1. {[index |-> r.last_applied, db |-> r.db]} \in Clones
  BY Members DEF Clones
<1> QED BY Zenon, <1>1, Set_snapping DEF ovsdb_snapshot

(* raft_store_snapshot() returns a well-typed struct raft.                 *)
LEMMA StoreSnapshotType ==
  ASSUME NEW r \in RaftState, NEW clone \in [index : Nat, db : Db]
  PROVE  raft_store_snapshot(r, clone) \in RaftState
<1> DEFINE a     == [r EXCEPT !.snapping = {}]
           start == clone.index + 1
           snap  == [term |-> raft_get_term(r, start - 1),
                     eid |-> raft_get_eid(r, start - 1),
                     servers |-> raft_servers_for_index(r, start - 1),
                     db |-> clone.db]
           saved == raft_save_snapshot(a, start, snap)
           new   == [saved EXCEPT
                       !.log_synced = log_end(r) - 1,
                       !.snap = snap,
                       !.log = SubSeq(@, start - r.log_start + 1, Len(@)),
                       !.log_start = start]
<1>1. a \in RaftState /\ a.log_start = r.log_start
  <2>1. {} \in Clones
    BY DEF Clones
  <2>2. a.log_start = r.log_start
    BY SMT DEF RaftState
  <2> QED BY Zenon, <2>1, <2>2, Set_snapping
<1> HIDE DEF a
<1>2. CASE r.failed \/ start <= r.log_start \/ r.space = 0
  BY Zenon, <1>1, <1>2 DEF raft_store_snapshot, a
<1>3. CASE ~(r.failed \/ start <= r.log_start \/ r.space = 0) /\ start > log_end(r)
  BY Zenon, <1>1, <1>3, Flags, Set_aborted DEF raft_store_snapshot, a
<1>4. CASE ~(r.failed \/ start <= r.log_start \/ r.space = 0) /\ ~(start > log_end(r))
  <2>1. /\ r.log_start \in Nat /\ log_end(r) \in Nat /\ 2 <= r.log_start
        /\ clone.index \in Nat /\ clone.db \in Db
    BY RaftHasLog, LogEndType
  <2>2. /\ start \in Start /\ start - 1 \in r.log_start - 1 .. log_end(r) - 1
        /\ start - 1 \in Int /\ start - 1 < log_end(r) /\ log_end(r) - 1 \in Nat
        /\ a.log_start <= start /\ start - r.log_start + 1 \in Nat \ {0}
    BY <1>1, <1>4, <2>1 DEF Start
  <2> HIDE DEF start
  <2>3. snap \in Snapshot
    <3>1. /\ raft_get_term(r, start - 1) \in Nat
          /\ raft_get_eid(r, start - 1) \in Eid
          /\ raft_servers_for_index(r, start - 1) \in Servers
      BY Zenon, <2>2, RaftHasLog, GetTermType, GetEidType, ServersForIndexType
    <3> QED BY Zenon, <2>1, <3>1 DEF Snapshot, Servers
  <2> HIDE DEF snap
  <2>4. saved \in RaftState
    BY <1>1, <2>2, <2>3, SaveSnapshotType
  <2> HIDE DEF saved
  <2>5. SubSeq(saved.log, start - r.log_start + 1, Len(saved.log)) \in Log
    <3>1. saved.log \in Log /\ Len(saved.log) \in Nat
      BY <2>4, Members DEF Log
    <3> QED BY <2>2, <3>1, SubLog
  <2>6. new \in RaftState
    BY Zenon, <2>2, <2>3, <2>4, <2>5, Set_log_synced, Set_snap, Set_log, Set_log_start
  <2> QED BY Zenon, <1>4, <2>6 DEF raft_store_snapshot, saved, snap, start, a
<1> QED BY Zenon, <1>2, <1>3, <1>4

-----------------------------------------------------------------------------
(* Transfer of leadership, commands.                                       *)

(* raft_transfer_leadership() returns a well-typed struct raft.            *)
LEMMA TransferLeadershipType ==
  ASSUME NEW r \in RaftState, NEW s
  PROVE  raft_transfer_leadership(r, s) \in RaftState
<1> DEFINE m == [type |-> "become_leader", term |-> r.term]
<1>1. r.term \in Nat
  BY Members
<1>2. m \in BecomeLeader
  BY Zenon, <1>1 DEF BecomeLeader
<1>3. m \in Rpc
  BY Zenon, <1>2 DEF Rpc
<1> HIDE DEF m
<1>4. raft_send_to_conn(r, To(s, m)) \in RaftState
  BY <1>3, ToType, SendToConnType
<1> QED BY Zenon, <1>4 DEF raft_transfer_leadership, m

(* raft_handle_become_leader() returns a well-typed struct raft.           *)
LEMMA HandleBecomeLeaderType ==
  ASSUME NEW r \in RaftState
  PROVE  raft_handle_become_leader(r) \in RaftState
BY Zenon, StartElectionType DEF raft_handle_become_leader

(* completed() returns a well-typed struct raft.                           *)
LEMMA CompletedType ==
  ASSUME NEW r \in RaftState, NEW eid \in Cmd, NEW status \in CmdStatus
  PROVE  completed(r, eid, status) \in RaftState
<1> DEFINE result == [status |-> status, index |-> 0]
<1>1. r.results \in [Cmd -> Seq(Result)]
  BY Members DEF Results
<1>2. result \in Result
  BY DEF Result
<1> HIDE DEF result
<1>3. [r.results EXCEPT ![eid] = Append(@, result)] \in Results
  BY <1>1, <1>2 DEF Results
<1>4. [r EXCEPT !.results[eid] = Append(@, result)] \in RaftState
  BY Zenon, <1>3, Set_results
<1> QED BY Zenon, <1>4 DEF completed, result

(* raft_command_execute() returns a well-typed struct raft.                *)
LEMMA CommandExecuteType ==
  ASSUME NEW r \in RaftState, NEW eid \in Cmd
  PROVE  raft_command_execute(r, eid) \in RaftState
<1> DEFINE rq  == [type |-> "execute_command_request", prereq |-> r.prereq,
                   result |-> eid]
           cmd == [eid |-> eid, index |-> 0, sid |-> ZERO, client |-> TRUE]
           q   == raft_send(r, To(r.leader_sid, rq))
           i   == raft_command_initiate(r, eid, {}, ZERO, TRUE)
<1>1. "SHUTDOWN" \in CmdStatus /\ "NOT_LEADER" \in CmdStatus
      /\ "BAD_PREREQ" \in CmdStatus /\ "IO_ERROR" \in CmdStatus
  BY DEF CmdStatus
<1>2. i \in RaftState
  <2>1. eid \in Eid /\ {} \in Servers
    BY DEF Eid, Servers
  <2> QED BY Zenon, <2>1, Zero, Flags, CommandInitiateType
<1>3. rq \in Rpc
  <2>1. r.prereq \in Eid
    BY Members
  <2>2. rq \in ExecuteCommandRequest
    BY Zenon, <2>1 DEF ExecuteCommandRequest
  <2> QED BY Zenon, <2>2 DEF Rpc
<1> HIDE DEF rq, i
<1>4. q \in RaftState
  BY <1>3, ToType, SendType
<1> HIDE DEF q
<1>5. [q EXCEPT !.commands = @ \cup {cmd}] \in RaftState
  <2>1. q.commands \in Commands
    BY <1>4, Members
  <2>2. cmd \in Command
    BY Zenon, Zero, Flags DEF Command
  <2> HIDE DEF cmd
  <2>3. q.commands \cup {cmd} \in Commands
    BY <2>1, <2>2 DEF Commands
  <2> QED BY Zenon, <1>4, <2>3, Set_commands
<1>6. /\ completed(r, eid, "SHUTDOWN") \in RaftState
      /\ completed(r, eid, "NOT_LEADER") \in RaftState
      /\ completed(r, eid, "BAD_PREREQ") \in RaftState
      /\ completed(i, eid, "IO_ERROR") \in RaftState
  BY Zenon, <1>1, <1>2, CompletedType
<1> QED BY Zenon, <1>2, <1>5, <1>6 DEF raft_command_execute, q, rq, i

(* raft_handle_execute_command_request() returns a well-typed struct raft. *)
LEMMA HandleExecuteCommandRequestType ==
  ASSUME NEW r \in RaftState, NEW src \in Server, NEW rq \in Rpc,
         rq.type = "execute_command_request"
  PROVE  raft_handle_execute_command_request(r, src, rq) \in RaftState
<1> DEFINE i == raft_command_initiate(r, rq.result, {}, src, FALSE)
           m(status) == [type |-> "execute_command_reply", result |-> rq.result,
                         status |-> status, commit_index |-> 0]
           reply(x, status) == raft_send(x, To(src, m(status)))
<1>1. rq.result \in Cmd /\ 0 \in Nat
  BY SMTT(60), RpcMembers
<1>2. i \in RaftState
  <2>1. rq.result \in Eid /\ src \in Sid /\ {} \in Servers
    BY <1>1 DEF Eid, Sid, Servers
  <2> QED BY Zenon, <2>1, Flags, CommandInitiateType
<1> HIDE DEF i
<1>3. \A x \in RaftState : \A status \in CmdStatus : reply(x, status) \in RaftState
  <2> SUFFICES ASSUME NEW x \in RaftState, NEW status \in CmdStatus
               PROVE  reply(x, status) \in RaftState
    BY Zenon
  <2>1. m(status) \in Rpc
    BY Zenon, <1>1, ExecuteCommandReplyType
  <2> HIDE DEF m
  <2> QED BY <2>1, ToType, SendType
<1>4. /\ reply(r, "NOT_LEADER") \in RaftState /\ reply(r, "BAD_PREREQ") \in RaftState
      /\ reply(i, "IO_ERROR") \in RaftState
  <2>1. "NOT_LEADER" \in CmdStatus /\ "BAD_PREREQ" \in CmdStatus
        /\ "IO_ERROR" \in CmdStatus
    BY DEF CmdStatus
  <2> HIDE DEF reply
  <2> QED BY Zenon, <1>2, <1>3, <2>1
<1> QED BY Zenon, <1>2, <1>4 DEF raft_handle_execute_command_request, i

(* raft_handle_execute_command_reply() returns a well-typed struct raft.   *)
LEMMA HandleExecuteCommandReplyType ==
  ASSUME NEW r \in RaftState, NEW rpy \in Rpc, rpy.type = "execute_command_reply"
  PROVE  raft_handle_execute_command_reply(r, rpy) \in RaftState
<1> DEFINE done == {[c EXCEPT !.index = rpy.commit_index]
                      : c \in {x \in r.commands : x.eid = rpy.result}}
<1>1. rpy.status \in CmdStatus /\ rpy.commit_index \in Nat
  BY Zenon, RpcMembers
<1>2. r.commands \in Commands
  BY Zenon, Members
<1>3. done \in SUBSET Command
  BY ZenonT(60), <1>1, <1>2, SetCommand DEF Commands
<1> HIDE DEF done
<1>4. raft_command_complete(r, done, rpy.status) \in RaftState
  BY <1>1, <1>3, CommandCompleteType
<1> QED BY Zenon, <1>4 DEF raft_handle_execute_command_reply, done

-----------------------------------------------------------------------------
(* Entry points.                                                           *)

(* raft_handle_rpc() returns a well-typed struct raft.                     *)
LEMMA HandleRpcType ==
  ASSUME NEW r \in RaftState, NEW src \in Server, NEW rpc \in Rpc
  PROVE  raft_handle_rpc(r, src, rpc) \in RaftState
<1> DEFINE term == raft_rpc_get_term(rpc)
           skip == term = 0 \/ raft_should_suppress_disruptive_server(r, rpc)
           t    == IF skip THEN r ELSE raft_receive_term__(r, term)
<1>1. term \in Nat
  BY Zenon, RpcMembers, RpcTypes DEF raft_rpc_get_term
<1> HIDE DEF term, skip
<1>2. t \in RaftState
  BY <1>1, ReceiveTermType
<1> HIDE DEF t
<1>3. "INCONSISTENCY" \in AppendResult
  BY DEF AppendResult
<1>4. /\ rpc.type = "append_request" =>
           raft_send_append_reply(t, src, rpc, "INCONSISTENCY") \in RaftState
      /\ rpc.type = "append_request" =>
           raft_handle_append_request(t, src, rpc) \in RaftState
      /\ rpc.type = "append_reply" =>
           raft_handle_append_reply(t, src, rpc) \in RaftState
      /\ rpc.type = "vote_request" =>
           raft_handle_vote_request(t, src, rpc) \in RaftState
      /\ rpc.type = "vote_reply" =>
           raft_handle_vote_reply(t, src, rpc) \in RaftState
      /\ rpc.type = "install_snapshot_request" =>
           raft_handle_install_snapshot_request(t, src, rpc) \in RaftState
      /\ rpc.type = "install_snapshot_reply" =>
           raft_handle_install_snapshot_reply(t, src, rpc) \in RaftState
      /\ raft_handle_become_leader(t) \in RaftState
      /\ rpc.type = "execute_command_request" =>
           raft_handle_execute_command_request(t, src, rpc) \in RaftState
      /\ rpc.type = "execute_command_reply" =>
           raft_handle_execute_command_reply(t, rpc) \in RaftState
  BY Zenon, <1>2, <1>3, SendAppendReplyType, HandleAppendRequestType,
     HandleAppendReplyType, HandleVoteRequestType, HandleVoteReplyType,
     HandleInstallSnapshotRequestType, HandleInstallSnapshotReplyType,
     HandleBecomeLeaderType, HandleExecuteCommandRequestType,
     HandleExecuteCommandReplyType
<1> QED BY <1>2, <1>4, RpcTypes DEF raft_handle_rpc, t, skip, term

(* raft_waiter_complete_rpc() returns a well-typed struct raft.            *)
LEMMA WaiterCompleteRpcType ==
  ASSUME NEW r \in RaftState, NEW rpcs \in Rpcs
  PROVE  raft_waiter_complete_rpc(r, rpcs) \in RaftState
BY OnlyType, SendToConnType DEF raft_waiter_complete_rpc

(* Each type of waiter has its members.                                    *)
LEMMA WaiterMembers ==
  ASSUME NEW w \in Waiter
  PROVE  /\ w.commit_ticket \in Nat
         /\ w.type \in {"W_ENTRY", "W_TERM", "W_RPC"}
         /\ w.type = "W_ENTRY" => w.index \in Nat
         /\ w.type = "W_TERM" => w.term \in Nat /\ w.vote \in Sid
         /\ w.type = "W_RPC" => w.commit_ticket = 0 /\ w.rpcs \in Rpcs
BY SMT DEF Waiter

(* raft_waiter_complete() returns a well-typed struct raft.                *)
LEMMA WaiterCompleteType ==
  ASSUME NEW r \in RaftState, NEW w \in Waiter
  PROVE  raft_waiter_complete(r, w) \in RaftState
<1>1. CASE w.type = "W_ENTRY"
  <2> DEFINE m == IF r.role = "LEADER" THEN raft_update_our_match_index(r, w.index)
                                       ELSE r
  <2>1. m \in RaftState /\ w.index \in Nat
    BY <1>1, WaiterMembers, UpdateOurMatchIndexType
  <2> HIDE DEF m
  <2>2. [m EXCEPT !.log_synced = w.index] \in RaftState
    BY Zenon, <2>1, Set_log_synced
  <2> QED BY <1>1, <2>2 DEF raft_waiter_complete, m
<1>2. CASE w.type = "W_TERM"
  <2>1. w.term \in Nat /\ w.vote \in Sid
    BY <1>2, WaiterMembers
  <2> DEFINE n == [r EXCEPT !.synced_term = w.term, !.synced_vote = w.vote]
  <2>2. n \in RaftState
    BY Zenon, <2>1, Set_synced_term, Set_synced_vote
  <2> HIDE DEF n
  <2>3. raft_waiter_complete(r, w) = n
    BY <1>2 DEF raft_waiter_complete, n
  <2> QED BY <2>2, <2>3
<1>3. CASE w.type = "W_RPC"
  <2>1. raft_waiter_complete_rpc(r, w.rpcs) \in RaftState
    BY <1>3, WaiterMembers, WaiterCompleteRpcType
  <2> QED BY <1>3, <2>1 DEF raft_waiter_complete
<1> QED BY <1>1, <1>2, <1>3, WaiterMembers

(* raft_waiters_run() returns a well-typed struct raft.                    *)
LEMMA WaitersRunType ==
  ASSUME NEW r \in RaftState, waiter_ready(r)
  PROVE  raft_waiters_run(r) \in RaftState
<1> DEFINE p == [r EXCEPT !.waiters = Tail(@)]
           n == raft_waiter_complete(p, Head(r.waiters))
<1>1. r.waiters \in Waiters /\ r.waiters # <<>>
  BY Members DEF waiter_ready
<1>2. Tail(r.waiters) \in Waiters /\ Head(r.waiters) \in Waiter
  BY <1>1 DEF Waiters
<1>3. p \in RaftState
  BY Zenon, <1>2, Set_waiters
<1> HIDE DEF p
<1>4. n \in RaftState
  BY <1>2, <1>3, WaiterCompleteType
<1> HIDE DEF n
<1>5. (waiter_ready(n) /\ ~n.aborted) \in Flag
  BY DEF Flag
<1> QED BY Zenon, <1>4, <1>5, Set_running DEF raft_waiters_run, n, p

(* election_timeout() returns a well-typed struct raft.                    *)
LEMMA ElectionTimeoutType ==
  ASSUME NEW r \in RaftState
  PROVE  election_timeout(r) \in RaftState
<1>1. r.replied \ r.servers \in Servers
  BY Members DEF Servers
<1>2. [r EXCEPT !.replied = @ \ r.servers, !.fresh = TRUE] \in RaftState
  BY Zenon, <1>1, Flags, Set_replied, Set_fresh
<1>3. raft_start_election(raft_become_follower(r), TRUE, FALSE) \in RaftState
  BY Zenon, BecomeFollowerType, StartElectionType
<1>4. raft_start_election(r, Cardinality(r.servers) > 1, FALSE) \in RaftState
  <2>1. (Cardinality(r.servers) > 1) \in BOOLEAN
    OBVIOUS
  <2> QED BY Zenon, <2>1, StartElectionType
<1> QED BY Zenon, <1>2, <1>3, <1>4 DEF election_timeout

(* ping_timeout() returns a well-typed struct raft.                        *)
LEMMA PingTimeoutType ==
  ASSUME NEW r \in RaftState, NEW expired \in SUBSET r.commands
  PROVE  ping_timeout(r, expired) \in RaftState
<1> DEFINE h    == IF r.role = "LEADER" THEN raft_send_heartbeats(r) ELSE r
           lost == {c \in expired : c.index # 0 /\ h.role # "LEADER"}
<1>1. h \in RaftState
  BY SendHeartbeatsType
<1> HIDE DEF h
<1>2. lost \in SUBSET Command /\ expired \ lost \in SUBSET Command
  BY Members DEF Commands
<1> HIDE DEF lost
<1>3. "LOST_LEADERSHIP" \in CmdStatus /\ "TIMEOUT" \in CmdStatus
  BY DEF CmdStatus
<1>4. raft_command_complete(raft_command_complete(h, lost, "LOST_LEADERSHIP"),
                            expired \ lost, "TIMEOUT") \in RaftState
  BY Zenon, <1>1, <1>2, <1>3, CommandCompleteType
<1> QED BY Zenon, <1>4 DEF ping_timeout, h, lost

(* read_db() returns a well-typed struct raft.                             *)
LEMMA ReadDbType ==
  ASSUME NEW r \in RaftState
  PROVE  read_db(r) \in RaftState
<1> DEFINE reset  == r.log_start = r.last_applied + 2
           start  == IF reset THEN r.log_start ELSE r.last_applied + 1
           data   == {i \in start .. r.commit_index :
                        raft_entry_has_data(raft_get_entry(r, i))}
           db     == (IF reset THEN r.snap.db ELSE r.db)
                       \cup {<<i, raft_get_entry(r, i).eid>> : i \in data}
           prereq == IF data # {} \/ reset
                     THEN raft_get_eid(r, r.commit_index) ELSE r.prereq
           new    == [r EXCEPT !.db = db, !.prereq = prereq,
                               !.last_applied = r.commit_index]
<1>1. CASE ~index_invariant(r)
  BY Zenon, <1>1, Flags, Set_aborted DEF read_db
<1>2. CASE index_invariant(r)
  <2>1. /\ r.commit_index \in Nat /\ r.last_applied \in Nat
        /\ r.log_start \in Nat /\ log_end(r) \in Nat
    BY Members, RaftHasLog, LogEndType
  <2>2. /\ r.log_start <= r.last_applied + 2 /\ r.commit_index < log_end(r)
    BY <1>2 DEF index_invariant
  <2>3. \A i \in data : /\ i \in Nat
                        /\ raft_get_entry(r, i) \in Entry
                        /\ raft_get_entry(r, i).eid # ZERO
    <3> SUFFICES ASSUME NEW i \in data
                 PROVE  /\ i \in r.log_start .. log_end(r) - 1
                        /\ i \in Nat
                        /\ raft_get_entry(r, i).eid # ZERO
      BY Zenon, RaftHasLog, GetEntryType
    <3>1. i \in start .. r.commit_index /\ raft_entry_has_data(raft_get_entry(r, i))
      OBVIOUS
    <3>2. start \in Nat /\ start >= r.log_start
      BY <2>1, <2>2
    <3> HIDE DEF start, data
    <3> QED BY <2>1, <2>2, <3>1, <3>2 DEF raft_entry_has_data
  <2>4. db \in Db
    <3>1. r.snap.db \in Db /\ r.db \in Db
      BY Members, SnapshotMembers
    <3>2. \A i \in data : raft_get_entry(r, i).eid \in Cmd
      BY <2>3, EntryMembers DEF Eid
    <3> HIDE DEF data, reset
    <3>3. {<<i, raft_get_entry(r, i).eid>> : i \in data} \subseteq Nat \X Cmd
      BY <2>3, <3>2
    <3> QED BY <3>1, <3>3 DEF Db
  <2>5. prereq \in Eid
    <3>1. r.prereq \in Eid
      BY Members
    <3>2. raft_get_eid(r, r.commit_index) \in Eid
      BY <2>1, <2>2, RaftHasLog, GetEidType
    <3> QED BY Zenon, <3>1, <3>2
  <2> HIDE DEF db, prereq
  <2>6. new \in RaftState
    BY Zenon, <2>1, <2>4, <2>5, Set_db, Set_prereq, Set_last_applied
  <2> QED BY Zenon, <1>2, <2>6 DEF read_db, db, prereq
<1> QED BY <1>1, <1>2

(* raft_close__() returns a well-typed struct raft.                        *)
LEMMA CloseType ==
  ASSUME NEW r \in RaftState
  PROVE  raft_close__(r) \in RaftState
<1>1. r.commands \in SUBSET Command /\ "SHUTDOWN" \in CmdStatus /\ {} \in Servers
  BY SMTT(60), Members DEF Commands, CmdStatus, Servers
<1> QED BY Zenon, <1>1, CommandCompleteType, Set_conns DEF raft_close__

(* Nothing told to any client is typed.                                    *)
LEMMA NoResults == [c \in Cmd |-> <<>>] \in Results
<1>1. <<>> \in Seq(Result)
  OBVIOUS
<1> QED BY <1>1 DEF Results

(* raft_alloc() returns a well-typed struct raft.                          *)
LEMMA AllocType ==
  ASSUME NEW sid \in Server, NEW img \in Image
  PROVE  raft_alloc(sid, img) \in RaftState
<1> DEFINE servers == raft_servers_for_index(img, log_end(img) - 1)
           votes   == [s \in Server |-> ZERO]
           next    == [s \in Server |-> log_end(img)]
           match   == [s \in Server |-> 0]
           out     == [s \in Server |-> <<>>]
           results == [c \in Cmd |-> <<>>]
<1>1. /\ img.term \in Nat /\ img.vote \in Sid /\ img.log_start \in Start
      /\ img.snap \in Snapshot /\ img.log \in Log /\ img.commit_index \in Nat
  BY ImageMembers
<1>2. log_end(img) \in Nat /\ log_end(img) - 1 \in Nat /\ img.log_start - 2 \in Nat
      /\ 0 \in Nat
  BY ImageHasLog, LogEndType
<1>3. servers \in Servers
  BY <1>2, ImageHasLog, ServersForIndexType
<1>4. votes \in Votes /\ next \in Indexes /\ match \in Indexes
  BY <1>2, Zero DEF Votes, Indexes
<1>5. out \in Rpcs
  <2>1. <<>> \in Seq(Rpc)
    OBVIOUS
  <2> QED BY <2>1 DEF Rpcs
<1>6. /\ <<>> \in Waiters /\ {} \in Commands /\ {} \in Servers /\ {} \in Db
      /\ {} \in Clones
  BY DEF Waiters, Commands, Servers, Db, Clones
<1>7. <<img>> \in Disk
  <2>1. <<img>> \in Seq(Image) /\ <<img>> # <<>>
    OBVIOUS
  <2> QED BY <2>1 DEF Disk
<1>8. results \in Results
  BY NoResults
<1> HIDE DEF servers, votes, next, match, out, results
<1> QED BY ZenonT(60), <1>1, <1>2, <1>3, <1>4, <1>5, <1>6, <1>7, <1>8, Zero, Flags, Roles
        DEF raft_alloc, RaftState, servers, votes, next, match, out, results

(* raft_open() returns a well-typed struct raft.                           *)
LEMMA OpenType ==
  ASSUME NEW r \in RaftState
  PROVE  raft_open(r) \in RaftState
BY Zenon, Flags, Set_up, Set_fresh, StartElectionType DEF raft_open
=============================================================================
