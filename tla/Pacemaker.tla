------------------------------ MODULE Pacemaker ------------------------------
(***************************************************************************)
(* Collection of timeout messages into timeout certificates at one         *)
(* validator: monad-consensus/src/pacemaker.rs, TimeoutCertificate of      *)
(* monad-consensus-types/src/timeout.rs, the checks on timeout messages    *)
(* and certificates of monad-consensus/src/validation/signing.rs, and      *)
(* handle_timeout_message of monad-consensus-state/src/lib.rs, which       *)
(* processes what the message carries before the timeout itself.           *)
(*                                                                         *)
(* Blocks and certificates are represented by their rounds.  The author of *)
(* a message is authenticated; the timeout signature inside is checked     *)
(* only when a certificate is built, and a faulty validator may claim a    *)
(* high_qc_round other than its tip's, and send a tip of a later round.    *)
(***************************************************************************)
EXTENDS ValidatorSet, FiniteSetsExt

CONSTANTS
  Self,        \* this validator
  Honest,      \* validators that follow the code
  Tips,        \* [round, qc] of the tips that exist
  QcRounds,    \* rounds that have a quorum certificate
  TcRounds,    \* rounds whose timeout certificate is built elsewhere
  FirstRound,  \* the round the node starts in
  TimeoutRounds \* rounds of the timeout messages

VARIABLES
  current_round,    \* get_current_round()
  phase,            \* PhaseHonest
  pending_timeouts, \* the messages, one per author
  votes,            \* votes of the current round, from the messages: [author, tip]
  timer,            \* rounds the Pacemaker timer is armed for: none or one
  elapsed,          \* rounds of timer events that are not handled yet
  timed_out,        \* rounds in which this node has broadcast a timeout
  tcs,              \* the last certificate built here, if any
  panicked          \* an assertion has failed

vars == <<current_round, phase, pending_timeouts, votes, timer, elapsed, timed_out, tcs, panicked>>

GENESIS_ROUND == 0

-----------------------------------------------------------------------------
(* HighExtend *)

Extends == {[tip |-> t.round, qc |-> t.qc] : t \in Tips}
             \cup {[tip |-> GENESIS_ROUND, qc |-> q] : q \in QcRounds}

IsTip(e) == e.tip # GENESIS_ROUND

ExtendRound(e) == IF IsTip(e) THEN e.tip ELSE e.qc

\* HighExtend::partial_cmp is Greater: a certificate takes precedence over a
\* tip of its round.
Higher(e, f) ==
  \/ ExtendRound(e) > ExtendRound(f)
  \/ ExtendRound(e) = ExtendRound(f) /\ ~ IsTip(e) /\ IsTip(f)

-----------------------------------------------------------------------------
(* TimeoutMessage *)

RawMessages ==
  [author : Validator, round : TimeoutRounds, extend : Extends,
   high_qc_round : QcRounds \cup TimeoutRounds, certified : BOOLEAN, valid : BOOLEAN]

\* TimeoutMessage::well_formed_timeout; last_round_certificate is of the round
\* before.
well_formed_timeout(m) == IF m.extend.qc + 1 = m.round THEN ~ m.certified ELSE m.certified

CertificateExists(m) == m.certified => m.round - 1 \in QcRounds \cup TcRounds

\* TimeoutMessage::validate
validate(m) ==
  /\ CertificateExists(m)
  /\ IF IsTip(m.extend) THEN m.high_qc_round < m.extend.tip ELSE m.high_qc_round = m.extend.qc
  /\ well_formed_timeout(m)

\* Timeout::new of a correct validator, whose tip is one it has voted for
HonestMessage(m) ==
  m.valid /\ m.high_qc_round = m.extend.qc /\ m.extend.qc < m.round /\ m.extend.tip <= m.round

Messages == {m \in RawMessages : validate(m) /\ (m.author \in Honest => HonestMessage(m))}

-----------------------------------------------------------------------------
(* TimeoutCertificate *)

Authors(msgs) == {m.author : m \in msgs}

\* TimeoutInfo, as the key under which signatures are aggregated
TimeoutInfo(m) == [high_qc_round |-> m.high_qc_round, high_tip_round |-> m.extend.tip]

\* TimeoutCertificate::new: tip_rounds, and the highest of the extends
new_tc(round, msgs) ==
  [round       |-> round,
   tip_rounds  |-> {[info |-> i, signers |-> {m.author : m \in {n \in msgs : TimeoutInfo(n) = i}}]
                      : i \in {TimeoutInfo(m) : m \in msgs}},
   high_extend |-> CHOOSE e \in {m.extend : m \in msgs} :
                     ~ \E m \in msgs : Higher(m.extend, e)]

\* verify_tc, for signatures that verify
verify_tc(tc) ==
  LET qc_rounds  == {t.info.high_qc_round : t \in tc.tip_rounds}
      tip_rounds == {t.info.high_tip_round : t \in tc.tip_rounds}
  IN  /\ \A q \in qc_rounds : q < tc.round
      /\ \A t, u \in tc.tip_rounds : t # u => t.info # u.info /\ t.signers \cap u.signers = {}
      /\ has_super_majority_votes(UNION {t.signers : t \in tc.tip_rounds})
      /\ IF IsTip(tc.high_extend)
         THEN tc.high_extend.tip = Max(tip_rounds) /\ Max(qc_rounds) < Max(tip_rounds)
         ELSE tc.high_extend.qc = Max(qc_rounds) /\ Max(tip_rounds) <= Max(qc_rounds)

-----------------------------------------------------------------------------
(* Pacemaker *)

\* What the handlers change, as a record.
State == [round |-> current_round, phase |-> phase, pending |-> pending_timeouts, votes |-> votes,
          timer |-> timer, timed_out |-> timed_out, tcs |-> tcs, panicked |-> panicked]

Become(s) ==
  /\ current_round' = s.round
  /\ phase' = s.phase
  /\ pending_timeouts' = s.pending
  /\ votes' = s.votes
  /\ timer' = s.timer
  /\ timed_out' = s.timed_out
  /\ tcs' = s.tcs
  /\ panicked' = s.panicked

\* process_certificate: EnterRound and Schedule
process_certificate(s, round) ==
  IF round < s.round THEN s
  ELSE [s EXCEPT !.round = round + 1, !.phase = "Zero", !.pending = {}, !.votes = {},
                 !.timer = {round + 1}]

\* local_timeout_round: ScheduleReset, PrepareTimeout and Schedule
local_timeout_round(s) == [s EXCEPT !.phase = "One", !.timer = {s.round}, !.timed_out = @ \cup {s.round}]

\* A third of the stake and more has timed out: so does this node.
join_timeout(s) ==
  IF s.phase = "Zero" /\ has_honest_vote(Authors(s.pending)) THEN local_timeout_round(s) ELSE s

handle_invalid_timeout(s) == [s EXCEPT !.pending = {m \in @ : m.valid}]

\* TimeoutCertificate::new succeeds, and process_certificate of the result
create_tc(s) ==
  IF ~ has_super_majority_votes(Authors(s.pending)) THEN s
  ELSE process_certificate([s EXCEPT !.tcs = {new_tc(s.round, s.pending)}], s.round)

\* Fault: an invalid signature is left among the pending ones.
Bad_try_create_tc(s) ==
  IF s.phase = "One" /\ \A m \in s.pending : m.valid THEN create_tc(s) ELSE s

\* The loop: a certificate is tried, invalid signatures are dropped, and it is
\* tried again.
try_create_tc(s) ==
  IF s.phase = "One" /\ has_super_majority_votes(Authors(s.pending))
  THEN create_tc(handle_invalid_timeout(s)) ELSE s

insert(s, m) == [s EXCEPT !.pending = {n \in @ : n.author # m.author} \cup {m}]

\* process_remote_timeout
process_remote_timeout(s, m) ==
  IF m.round < s.round THEN s
  ELSE IF m.round # s.round THEN [s EXCEPT !.panicked = TRUE]
  ELSE try_create_tc(join_timeout(insert(s, m)))

\* The vote for the tip that a timeout carries, in the round of the timeout:
\* handle_vote_message, which may complete a quorum certificate.
handle_vote_message(s, m) ==
  IF ~ IsTip(m.extend) \/ m.round # s.round THEN s
  ELSE IF has_super_majority_votes(
            {v.author : v \in {u \in s.votes : u.tip = m.extend}} \cup {m.author})
       THEN process_certificate(s, m.round)
       ELSE [s EXCEPT !.votes = @ \cup {[author |-> m.author, tip |-> m.extend]}]

process_last_certificate(s, m) == IF m.certified THEN process_certificate(s, m.round - 1) ELSE s

-----------------------------------------------------------------------------
(* The handlers *)

\* A correct validator sends the same timeout again and again in a round, this
\* one once it has timed out.
MaySend(m) ==
  /\ m.author \in Honest => \A n \in pending_timeouts : n.author = m.author => n = m
  /\ m.author = Self => m.round \in timed_out

\* handle_timeout_message
handle_timeout_message(m) ==
  /\ ~ panicked
  /\ m.round >= current_round
  /\ MaySend(m)
  /\ Become(process_remote_timeout(
              process_last_certificate(
                handle_vote_message(process_certificate(State, m.extend.qc), m), m), m))
  /\ UNCHANGED elapsed

\* The timer elapses: it cannot be reset any more.
Elapse ==
  /\ timer # {}
  /\ elapsed' = elapsed \cup timer
  /\ timer' = {}
  /\ UNCHANGED <<current_round, phase, pending_timeouts, votes, timed_out, tcs, panicked>>

\* handle_timeout_expiry and process_local_timeout; an event of an earlier
\* round is ignored.
handle_timeout_expiry ==
  /\ ~ panicked
  /\ \E r \in elapsed :
       /\ elapsed' = elapsed \ {r}
       /\ Become(IF r < current_round THEN State ELSE local_timeout_round(State))

\* A certificate in another message
ProcessCertificate(round) ==
  /\ ~ panicked
  /\ round >= current_round
  /\ Become(process_certificate(State, round))
  /\ UNCHANGED elapsed

\* Pacemaker::new, and the timer that is armed when the node starts
Init ==
  /\ current_round = FirstRound
  /\ phase = "Zero"
  /\ pending_timeouts = {}
  /\ votes = {}
  /\ timer = {FirstRound}
  /\ elapsed = {}
  /\ timed_out = {}
  /\ tcs = {}
  /\ panicked = FALSE

Next ==
  \/ \E m \in Messages : handle_timeout_message(m)
  \/ Elapse
  \/ handle_timeout_expiry
  \/ \E r \in QcRounds \cup TcRounds : ProcessCertificate(r)

Spec == Init /\ [][Next]_vars

-----------------------------------------------------------------------------
(* Properties *)

TypeOK ==
  /\ current_round \in FirstRound..(Max(TimeoutRounds) + 1)
  /\ phase \in {"Zero", "One"}
  /\ pending_timeouts \subseteq RawMessages
  /\ \A m, n \in pending_timeouts : m.author = n.author => m = n
  /\ timer \subseteq FirstRound..(Max(TimeoutRounds) + 1)
  /\ elapsed \subseteq FirstRound..(Max(TimeoutRounds) + 1)

\* "timeout messages carry a high QC which must have been processed prior to
\* entering this function": the assertion of process_remote_timeout holds,
\* whatever the message carried has done to the round before.
RoundsMatch == ~ panicked

\* A faulty validator has sent a tip of a later round than its timeout's and
\* claims a QC of the timeout's round or a later one for it: validate compares
\* the claim with the tip only, verify_tc with the round of the certificate.
Misreported(tc) ==
  \E t \in tc.tip_rounds :
    /\ t.info.high_qc_round >= tc.round
    /\ t.info.high_tip_round > tc.round
    /\ t.signers \cap Honest = {}

\* A certificate built from timeouts that validate is accepted by every other
\* node: its high_extend is the one verify_tc works out from the tip_rounds,
\* also if faulty validators lie about their high_qc_round, unless one of them
\* has misreported its QC for a tip of a later round.
BuiltTcVerifies == \A tc \in tcs : verify_tc(tc) \/ Misreported(tc)

\* Invalid signatures neither complete a certificate nor prevent one: once
\* valid timeouts of a supermajority are there, the round is over.
NoTcMissed == ~ has_super_majority_votes(Authors({m \in pending_timeouts : m.valid}))

\* A node that knows that some correct validator has timed out has timed out
\* as well, so that a round in which some time out ends for everybody.
JoinsTimeout == has_honest_vote(Authors(pending_timeouts)) => current_round \in timed_out

\* The current round always has a timer, or its event is on the way.
TimerIsArmed == current_round \in timer \cup elapsed

\* All of this together, whatever order messages, timers and certificates
\* come in.
CertificatesBuilt ==
  RoundsMatch /\ BuiltTcVerifies /\ NoTcMissed /\ JoinsTimeout /\ TimerIsArmed
=============================================================================
