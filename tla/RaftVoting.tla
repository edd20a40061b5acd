------------------------------ MODULE RaftVoting ----------------------------
(* What elections promise, apart from how raft.c holds them: a server      *)
(* sends its vote to one candidate in a term, and a candidate that has the *)
(* votes of a majority may become leader of that term.  Requests,          *)
(* pre-votes, time, files and crashes are left out.                        *)
EXTENDS Integers, FiniteSets

CONSTANTS Server, Term

VARIABLES granted,  \* <<sid, term, vote>> for every vote sent
          leaders   \* <<term, sid>> for every leader

votingVars == <<granted, leaders>>

(* The servers that have sent x their vote in a term.                      *)
Voters(x, term) == {s \in Server : <<s, term, x>> \in granted}

Init == granted = {} /\ leaders = {}

Vote(s, term, x) ==
  /\ \A y \in Server : <<s, term, y>> \in granted => y = x
  /\ granted' = granted \cup {<<s, term, x>>}
  /\ UNCHANGED leaders

Elect(x, term) ==
  /\ 2 * Cardinality(Voters(x, term)) > Cardinality(Server)
  /\ leaders' = leaders \cup {<<term, x>>}
  /\ UNCHANGED granted

Next == \E x \in Server, term \in Term :
          Elect(x, term) \/ \E s \in Server : Vote(s, term, x)

Spec == Init /\ [][Next]_votingVars

-----------------------------------------------------------------------------
(* Election safety: at most one server is leader in a term.                *)
OneLeader == \A l, m \in leaders : l[1] = m[1] => l[2] = m[2]
=============================================================================
