------------------------------ MODULE RaftRpc ------------------------------
(***************************************************************************)
(* The RPCs that the servers of an OVSDB cluster exchange                  *)
(* (ovsdb/raft-rpc.[ch]) and the log entries and snapshots they carry      *)
(* (ovsdb/raft-private.h).                                                 *)
(*                                                                         *)
(* UUIDs are abstracted to model values: a server ID is a member of        *)
(* Server, the ID of a data-carrying entry is a member of Cmd and stands   *)
(* for its data as well, and ZERO is the all-zeros UUID.  Fields that no   *)
(* receiver reads (comments, the echoed prev_log_term) are left out, and   *)
(* the sender of an RPC is the channel it arrives on.                      *)
(***************************************************************************)
EXTENDS Integers, Sequences, FiniteSets

CONSTANTS Server,     \* server IDs
          Cmd,        \* data-carrying commands; the data and the entry ID
          ZERO,       \* UUID_ZERO
          UINT64_MAX  \* 2^64 - 1, or a smaller number that no index reaches

ASSUME ZeroAssumption == ZERO \notin Server \cup Cmd
ASSUME Uint64Assumption == UINT64_MAX \in Nat

(* The value of an expression of type uint64_t.  It is spelled out where   *)
(* the code may leave the range; JSON carries such values unchanged        *)
(* (raft_put_uint64(), raft_parse_uint64__()).                             *)
uint64(i) == i % (UINT64_MAX + 1)

Sid == Server \cup {ZERO}
Eid == Cmd \cup {ZERO}

(* What the clustered database holds: which command took effect at which   *)
(* log index.  The contents of a snapshot have this form too.              *)
Db == SUBSET (Nat \X Cmd)

(* struct raft_entry in the log: "servers" is {} when the entry does not   *)
(* change the configuration, "eid" is ZERO when it carries no data.        *)
Entry == [term : Nat, eid : Eid, servers : SUBSET Server]

(* struct raft_entry as the snapshot.                                      *)
Snapshot == [term : Nat, eid : Eid, servers : SUBSET Server, db : Db]

raft_entry_has_data(e) == e.eid # ZERO

AppendResult == {"OK", "INCONSISTENCY", "IO_ERROR"}

CmdStatus == {"SUCCESS", "NOT_LEADER", "BAD_PREREQ", "LOST_LEADERSHIP",
              "SHUTDOWN", "IO_ERROR", "TIMEOUT"}

AppendRequest ==
  [type : {"append_request"}, term : Nat, prev_log_index : Nat,
   prev_log_term : Nat, leader_commit : Nat, entries : Seq(Entry)]

AppendReply ==
  [type : {"append_reply"}, term : Nat, log_end : Nat, prev_log_index : Nat,
   n_entries : Nat, result : AppendResult]

VoteRequest ==
  [type : {"vote_request"}, term : Nat, last_log_index : Nat,
   last_log_term : Nat, leadership_transfer : BOOLEAN, is_prevote : BOOLEAN]

VoteReply ==
  [type : {"vote_reply"}, term : Nat, vote : Sid, is_prevote : BOOLEAN]

InstallSnapshotRequest ==
  [type : {"install_snapshot_request"}, term : Nat, last_index : Nat \ {0},
   last : Snapshot]

InstallSnapshotReply ==
  [type : {"install_snapshot_reply"}, term : Nat, last_index : Nat,
   last_term : Nat]

BecomeLeader == [type : {"become_leader"}, term : Nat]

ExecuteCommandRequest ==
  [type : {"execute_command_request"}, prereq : Eid, result : Cmd]

ExecuteCommandReply ==
  [type : {"execute_command_reply"}, result : Cmd, status : CmdStatus,
   commit_index : Nat]

Rpc == AppendRequest \cup AppendReply \cup VoteRequest \cup VoteReply
         \cup InstallSnapshotRequest \cup InstallSnapshotReply
         \cup BecomeLeader \cup ExecuteCommandRequest
         \cup ExecuteCommandReply

(* The term an RPC carries, 0 for the RPCs that carry none.                *)
raft_rpc_get_term(rpc) ==
  IF rpc.type \in {"execute_command_request", "execute_command_reply"}
  THEN 0
  ELSE rpc.term

(* The vote that must be on disk before the RPC may leave, as a set: empty *)
(* where the code returns NULL, which includes a reply to a pre-vote.      *)
raft_rpc_get_vote(rpc) ==
  IF rpc.type = "vote_reply" /\ ~rpc.is_prevote THEN {rpc.vote} ELSE {}

(* The index that must be on disk before the RPC may leave.                *)
raft_rpc_get_min_sync_index(rpc) ==
  CASE rpc.type = "append_reply" -> rpc.log_end - 1
    [] rpc.type = "vote_request" -> rpc.last_log_index
    [] rpc.type \in {"install_snapshot_request", "install_snapshot_reply"}
         -> rpc.last_index
    [] OTHER -> 0
=============================================================================
