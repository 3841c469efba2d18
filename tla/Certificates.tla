---------------------------- MODULE Certificates ----------------------------
(***************************************************************************)
(* Blocks and the certificates that refer to them (monad-consensus-types). *)
(*                                                                         *)
(* A block header is an element of the constant set Block; what the        *)
(* protocol reads of it is its round (BlockRound) and the quorum           *)
(* certificate it extends (BlockQc).  A tip is the header together with    *)
(* the certificate that allows its leader to propose it; that certificate  *)
(* is checked against the messages that exist (MonadBFT's verify_tip), so  *)
(* a tip is represented by its header.  Signatures are not represented: a  *)
(* certificate is valid iff enough validators signed its content.          *)
(***************************************************************************)
EXTENDS Naturals

CONSTANTS
  Block,        \* block headers that may be proposed
  Genesis,      \* GENESIS_BLOCK_ID
  None,         \* Option::None
  BlockRound,   \* header.block_round
  BlockQc       \* header.qc

GENESIS_ROUND == 0

\* QuorumCertificate: the Vote it certifies; the epoch is left to EpochManager.
QuorumCertificate == [round: Nat, id: Block \cup {Genesis}]

genesis_qc == [round |-> GENESIS_ROUND, id |-> Genesis]

ASSUME BlockAssumption ==
  /\ Genesis \notin Block
  /\ None \notin Block \cup {Genesis}
  /\ BlockRound \in [Block -> Nat \ {0}]
  /\ BlockQc \in [Block -> QuorumCertificate]

-----------------------------------------------------------------------------
\* enum HighExtend { Tip, Qc }: `tip` is None for the Qc variant, and `qc` is
\* what HighExtend::qc() returns for either variant.
HighExtend == [tip: Block \cup {None}, qc: QuorumCertificate]

ExtendQc(qc) == [tip |-> None, qc |-> qc]

ExtendTip(b) == [tip |-> b, qc |-> BlockQc[b]]

high_tip_round(he) == IF he.tip = None THEN GENESIS_ROUND ELSE BlockRound[he.tip]

\* HighExtend::partial_cmp: a is above b.  In one round a QC is above a tip,
\* and two of a kind are not compared.
HigherExtend(a, b) ==
  LET ExtendRound(he) == IF he.tip = None THEN he.qc.round ELSE BlockRound[he.tip]
  IN  \/ ExtendRound(a) > ExtendRound(b)
      \/ ExtendRound(a) = ExtendRound(b) /\ a.tip = None /\ b.tip # None

-----------------------------------------------------------------------------
\* enum RoundCertificate { Qc, Tc }.  For a Qc the high_extend is the QC
\* itself, so that `high_extend.qc` is RoundCertificate::qc() for both.
RoundCertificate == [kind: {"Qc", "Tc"}, round: Nat, high_extend: HighExtend]

ASSUME NoneAssumption == None \notin RoundCertificate

QcCert(qc) == [kind |-> "Qc", round |-> qc.round, high_extend |-> ExtendQc(qc)]

TcCert(r, he) == [kind |-> "Tc", round |-> r, high_extend |-> he]

\* QuorumCertificate::get_committable_id: a QC in the round right after its
\* block's own QC commits the parent of its block.
get_committable_id(qc) ==
  IF qc.id \in Block /\ qc.round = BlockQc[qc.id].round + 1
  THEN BlockQc[qc.id].id
  ELSE None
=============================================================================
