------------------------- MODULE NoEndorsementState -------------------------
(***************************************************************************)
(* Collection of no-endorsements into certificates (NECs) at the leader of *)
(* a round: monad-consensus/src/no_endorsement_state.rs, driven by         *)
(* handle_no_endorsement_message, process_qc and process_tc of             *)
(* monad-consensus-state/src/lib.rs.                                       *)
(*                                                                         *)
(* When this node enters the round it leads by a TC whose tip it does not  *)
(* have, it asks for recovery and the other validators answer with         *)
(* no-endorsements, which may be delayed.  Correct validators sign one     *)
(* tip_qc_round per round; faulty ones send what they like, also with an   *)
(* invalid signature, which shows only when a certificate is built.        *)
(*                                                                         *)
(* The node may crash before the checkpoint of its last event is written   *)
(* (monad-updaters/src/parent.rs executes the router before it) and then   *)
(* restarts in the round it was in before that event.                      *)
(***************************************************************************)
EXTENDS ValidatorSet

CONSTANTS
  Honest,             \* validators that follow the code
  QcRounds, TcRounds, \* rounds whose certificate the network may deliver
  LedRounds,          \* rounds that this node leads
  TipQcRounds,
  FUTURE_VOTE_BOUND,
  MaxCrashes          \* bound on the number of crashes

VARIABLES
  current_round,   \* pacemaker.get_current_round()
  saved_round,     \* the round before the last event
  earliest_round,  \* NoEndorsementState::earliest_round
  pending,         \* pending_no_endorsements: the messages in qc_round_no_endorsements
  certificates,    \* and the certificates, of the rounds that are not cleaned up
  recoveries,      \* rounds for which RoundRecovery was sent, also before a crash
  received,        \* no-endorsements of correct validators taken since the start
  crashes,
  panicked         \* assert!(round_state.certificate.is_none()) has failed

vars == <<current_round, saved_round, earliest_round, pending, certificates, recoveries, received,
          crashes, panicked>>

Rounds == {r + 1 : r \in QcRounds \cup TcRounds} \cup {1}

Messages == [round : LedRounds, tip_qc_round : TipQcRounds, author : Validator, valid : BOOLEAN]

-----------------------------------------------------------------------------
(* NoEndorsementState *)

SameEntry(m, n) == m.round = n.round /\ m.tip_qc_round = n.tip_qc_round /\ m.author = n.author

insert(entries, m) == {n \in entries : ~ SameEntry(m, n)} \cup {m}

\* round_pending_no_endorsements
RoundPending(entries, m) ==
  {n \in entries : n.round = m.round /\ n.tip_qc_round = m.tip_qc_round}

Authors(entries) == {n.author : n \in entries}

handle_invalid_no_endorsement(entry) == {m \in entry : m.valid}

\* The loop: signatures are looked at once there are enough of them.
Checked(entry) ==
  IF has_super_majority_votes(Authors(entry)) THEN handle_invalid_no_endorsement(entry) ELSE entry

Enough(entry, checked) == has_super_majority_votes(Authors(checked))

Certificate(m, checked) ==
  [round |-> m.round, tip_qc_round |-> m.tip_qc_round, signers |-> Authors(checked)]

\* The certificate is built; it must be the first of its round.
Build(m, kept, checked) ==
  /\ earliest_round' = m.round + 1
  /\ certificates' = certificates \cup {Certificate(m, checked)}
  /\ panicked' = \E c \in certificates : c.round = m.round
  /\ pending' = kept

Collect(m, entry, checked) ==
  IF Enough(entry, checked) THEN Build(m, (insert(pending, m) \ entry) \cup checked, checked)
  ELSE /\ pending' = (insert(pending, m) \ entry) \cup checked
       /\ UNCHANGED <<earliest_round, certificates, panicked>>

\* process_no_endorsement, for a round that is not before earliest_round
process_no_endorsement(m) ==
  Collect(m, RoundPending(insert(pending, m), m), Checked(RoundPending(insert(pending, m), m)))

start_new_round(r) ==
  /\ earliest_round' = r
  /\ pending' = {m \in pending : m.round >= r}
  /\ certificates' = {c \in certificates : c.round >= r}

\* get_nec: what try_propose uses in its round
get_nec(r) == {c \in certificates : c.round = r}

-----------------------------------------------------------------------------
(* The handlers *)

\* What a validator may send: an answer to this node's recovery request.
MaySend(m) ==
  m.author \in Honest =>
    /\ m.valid
    /\ m.round \in recoveries
    /\ \A n \in received : n.author = m.author /\ n.round = m.round => n = m

\* handle_no_endorsement_message
handle_no_endorsement_message(m) ==
  /\ ~ panicked
  /\ MaySend(m)
  /\ m.round \in current_round..(current_round + FUTURE_VOTE_BOUND)
  /\ m.round >= earliest_round
  /\ process_no_endorsement(m)
  /\ received' = received \cup {n \in {m} : n.author \in Honest}
  /\ saved_round' = current_round
  /\ UNCHANGED <<current_round, recoveries, crashes>>

\* process_qc
process_qc(r) ==
  /\ ~ panicked
  /\ r >= current_round
  /\ current_round' = r + 1
  /\ saved_round' = current_round
  /\ start_new_round(r + 1)
  /\ UNCHANGED <<recoveries, received, crashes, panicked>>

\* process_tc: it does not clean up; try_propose asks for recovery.
process_tc(r) ==
  /\ ~ panicked
  /\ r >= current_round
  /\ current_round' = r + 1
  /\ saved_round' = current_round
  /\ recoveries' = recoveries \cup ({r + 1} \cap LedRounds)
  /\ UNCHANGED <<earliest_round, pending, certificates, received, crashes, panicked>>

\* ConsensusState::new after a crash: NoEndorsementState::new(current round)
Crash ==
  /\ ~ panicked
  /\ crashes < MaxCrashes
  /\ crashes' = crashes + 1
  /\ current_round' = saved_round
  /\ earliest_round' = saved_round
  /\ pending' = {}
  /\ certificates' = {}
  /\ received' = {}
  /\ UNCHANGED <<saved_round, recoveries, panicked>>

Init ==
  /\ current_round = 1
  /\ saved_round = 1
  /\ earliest_round = 1
  /\ pending = {}
  /\ certificates = {}
  /\ recoveries = {}
  /\ received = {}
  /\ crashes = 0
  /\ panicked = FALSE

Next ==
  \/ \E m \in Messages : handle_no_endorsement_message(m)
  \/ \E r \in QcRounds : process_qc(r)
  \/ \E r \in TcRounds : process_tc(r)
  \/ Crash

Spec == Init /\ [][Next]_vars

-----------------------------------------------------------------------------
(* Properties *)

TypeOK ==
  /\ current_round \in Rounds /\ saved_round \in Rounds
  /\ earliest_round \in Nat
  /\ pending \subseteq Messages
  /\ \A c \in certificates : c.round \in LedRounds /\ c.tip_qc_round \in TipQcRounds
  /\ recoveries \subseteq LedRounds
  /\ panicked \in BOOLEAN

\* A NEC is of no use to a leader that still has to extend the tip: it exists
\* only if correct validators answered its recovery request with the
\* tip_qc_round of the certificate.
NecAnswersRecovery ==
  \A c \in certificates :
    /\ has_super_majority_votes(c.signers)
    /\ \E m \in received : m.round = c.round /\ m.tip_qc_round = c.tip_qc_round
    /\ c.round \in recoveries

\* Whatever faulty validators send before, between and after them: once
\* enough correct validators have answered the recovery request of the current
\* round the leader has the certificate.
NecNotMissed ==
  \A q \in TipQcRounds :
    has_super_majority_votes(
      {m.author : m \in {n \in received : n.round = current_round /\ n.tip_qc_round = q}})
    => get_nec(current_round) # {}

\* Both, crashes of the leader included.
CertificatesBuilt == TypeOK /\ NecAnswersRecovery /\ NecNotMissed

\* "We use this to not build the same NEC twice": earliest_round keeps a
\* certificate from being built again, so that the assertion in
\* process_no_endorsement holds.
NecBuiltOnce == ~ panicked
=============================================================================
