----------------------------- MODULE MCMonadBFT -----------------------------
(***************************************************************************)
(* MonadBFT for TLC: honest validators h1 and h2, a faulty one, z, and     *)
(* every block header that rounds 2..MaxRound can hold.  (No block of      *)
(* round 1 is ever proposed: nodes start in round 1, where they only time  *)
(* out.)  A configuration may leave h2 or z out.                           *)
(***************************************************************************)
EXTENDS MonadBFT, SequencesExt, TLC

CONSTANTS
  h1, h2, z,        \* validators; z is the faulty one
  StakeH1, StakeH2, StakeZ,   \* their stakes
  FaultyRounds,     \* rounds whose leader is z
  Tag               \* the blocks z may propose for one round and one QC

Stakes == (h1 :> StakeH1) @@ (h2 :> StakeH2) @@ (z :> StakeZ)

VS == INSTANCE ValidatorSet WITH Stake <- [v \in Validator |-> Stakes[v]],
                                 MaxStake <- StakeH1 + StakeH2 + StakeZ

\* The quorums of a configuration are those of its stakes.
ASSUME QuorumsOfStakes ==
  /\ SuperMajority = {S \in SUBSET Validator : VS!has_super_majority_votes(S)}
  /\ HonestVote = {S \in SUBSET Validator : VS!has_honest_vote(S)}

\* h1 leads the odd rounds and h2 the even ones, except the faulty rounds.
LeaderTable ==
  [r \in 1..(MaxRound + 1) |->
     IF r \in FaultyRounds THEN z ELSE IF r % 2 = 1 \/ h2 \notin Honest THEN h1 ELSE h2] @@ <<>>

\* A header is the path from genesis to it; a step of the path is
\* <<block round, round of the QC it extends, tag>>.
Extensions(r, path) ==
  LET lowest == IF path = <<>> THEN {GENESIS_ROUND} ELSE Last(path)[1]..(r - 1)
      tags   == IF r \in FaultyRounds THEN Tag ELSE {1}
  IN  {Append(path, <<r, q, t>>) : q \in lowest, t \in tags}

PathsUpTo[r \in 1..MaxRound] ==
  IF r = 1 THEN {}
  ELSE LET shorter == PathsUpTo[r - 1] IN
       shorter \cup UNION {Extensions(r, p) : p \in shorter \cup {<<>>}}

Table == FoldSet(LAMBDA p, seq : Append(seq, p), <<>>, PathsUpTo[MaxRound])

RoundTable == LET t == Table IN [b \in 1..Len(t) |-> Last(t[b])[1]] @@ <<>>

QcTable ==
  LET t == Table IN
  [b \in 1..Len(t) |->
     [round |-> Last(t[b])[2],
      id    |-> IF Len(t[b]) = 1 THEN Genesis
                ELSE CHOOSE c \in 1..Len(t) : t[c] = Front(t[b])]] @@ <<>>

MCBlock == 1..Len(Table)
MCLeader == LeaderTable
MCBlockRound == RoundTable
MCBlockQc == QcTable
=============================================================================
