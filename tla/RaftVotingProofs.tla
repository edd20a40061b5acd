--------------------------- MODULE RaftVotingProofs -------------------------
(* Voting as in module RaftVoting elects one leader in a term, in clusters *)
(* of any size.                                                            *)
EXTENDS RaftVoting, FiniteSetTheorems, TLAPS

(* How long a prover may take where a proof does not say which one to use. *)
USE SMTT(20), ZenonT(20)

(* The inductive invariant.  OneLeader by itself is not: it takes that     *)
(* votes stay as they were sent, and that a leader had a majority of them. *)
SingleVotes ==
  \A s, x, y \in Server, term \in Term :
    <<s, term, x>> \in granted /\ <<s, term, y>> \in granted => x = y

Backed ==
  /\ leaders \subseteq Term \X Server
  /\ \A term \in Term, x \in Server :
       <<term, x>> \in leaders => 2 * Cardinality(Voters(x, term)) > Cardinality(Server)

Inv == SingleVotes /\ Backed

(* Two majorities have a server in common.                                 *)
LEMMA MajoritiesMeet ==
  ASSUME IsFiniteSet(Server), NEW S \in SUBSET Server, NEW T \in SUBSET Server,
         2 * Cardinality(S) > Cardinality(Server),
         2 * Cardinality(T) > Cardinality(Server)
  PROVE  \E s \in Server : s \in S /\ s \in T
<1>1. /\ Cardinality(Server) \in Nat
      /\ Cardinality(S) \in Nat
      /\ Cardinality(T) \in Nat
  BY FS_CardinalityType, FS_Subset
<1>2. Cardinality(S) + Cardinality(T) > Cardinality(Server)
  BY <1>1
<1>3. S \cap T # {}
  BY <1>2, FS_MajoritiesIntersect
<1> QED BY <1>3

(* Votes that were sent do not go away, so a majority stays one.           *)
LEMMA MajorityStays ==
  ASSUME IsFiniteSet(Server), granted \subseteq granted',
         NEW x, NEW term,
         2 * Cardinality(Voters(x, term)) > Cardinality(Server)
  PROVE  2 * Cardinality(Voters(x, term)') > Cardinality(Server)
<1>1. Voters(x, term) \subseteq Voters(x, term)' /\ Voters(x, term)' \subseteq Server
  BY DEF Voters
<1>2. IsFiniteSet(Voters(x, term)')
  BY <1>1, FS_Subset
<1>3. /\ Cardinality(Voters(x, term)) <= Cardinality(Voters(x, term)')
      /\ Cardinality(Voters(x, term)) \in Nat
      /\ Cardinality(Voters(x, term)') \in Nat
      /\ Cardinality(Server) \in Nat
  BY <1>1, <1>2, FS_Subset, FS_CardinalityType
<1> QED BY <1>3

(* The inductive invariant is kept by every step.                          *)
LEMMA InvNext ==
  ASSUME IsFiniteSet(Server), Inv, [Next]_votingVars
  PROVE  Inv'
<1>1. ASSUME NEW x \in Server, NEW term \in Term, NEW s \in Server, Vote(s, term, x)
      PROVE  Inv'
  <2>1. SingleVotes'
    BY <1>1 DEF Inv, SingleVotes, Vote
  <2>2. granted \subseteq granted' /\ leaders' = leaders
    BY <1>1 DEF Vote
  <2>3. Backed'
    BY <2>2, MajorityStays DEF Inv, Backed
  <2> QED BY <2>1, <2>3 DEF Inv
<1>2. ASSUME NEW x \in Server, NEW term \in Term, Elect(x, term)
      PROVE  Inv'
  <2>1. SingleVotes'
    BY <1>2 DEF Inv, SingleVotes, Elect
  <2>2. \A y, t : Voters(y, t)' = Voters(y, t)
    BY <1>2 DEF Elect, Voters
  <2>3. Backed'
    BY <1>2, <2>2 DEF Inv, Backed, Elect
  <2> QED BY <2>1, <2>3 DEF Inv
<1>3. CASE UNCHANGED votingVars
  BY <1>3 DEF Inv, SingleVotes, Backed, Voters, votingVars
<1> QED BY <1>1, <1>2, <1>3 DEF Next

(* A term has one leader because two leaders of it would share a voter.    *)
LEMMA InvOneLeader ==
  ASSUME IsFiniteSet(Server), Inv
  PROVE  OneLeader
<1> SUFFICES ASSUME NEW l \in leaders, NEW m \in leaders, l[1] = m[1]
             PROVE  l[2] = m[2]
  BY DEF OneLeader
<1>1. PICK term \in Term, x \in Server, y \in Server : l = <<term, x>> /\ m = <<term, y>>
  BY DEF Inv, Backed
<1>2. PICK s \in Server : s \in Voters(x, term) /\ s \in Voters(y, term)
  <2>1. Voters(x, term) \in SUBSET Server /\ Voters(y, term) \in SUBSET Server
    BY DEF Voters
  <2>2. /\ 2 * Cardinality(Voters(x, term)) > Cardinality(Server)
        /\ 2 * Cardinality(Voters(y, term)) > Cardinality(Server)
    BY <1>1 DEF Inv, Backed
  <2> QED BY <2>1, <2>2, MajoritiesMeet
<1> QED BY <1>1, <1>2 DEF Inv, SingleVotes, Voters

(* In a cluster of any finite size, whatever the order in which votes are  *)
(* sent and counted, a term has at most one leader.                        *)
THEOREM ElectsOneLeader ==
  ASSUME IsFiniteSet(Server)
  PROVE  Spec => []OneLeader
<1>1. Init => Inv
  BY DEF Init, Inv, SingleVotes, Backed
<1>2. Inv /\ [Next]_votingVars => Inv'
  BY InvNext
<1>3. Inv => OneLeader
  BY InvOneLeader
<1> QED BY <1>1, <1>2, <1>3, PTL DEF Spec
=============================================================================
