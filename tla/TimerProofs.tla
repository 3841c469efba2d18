----------------------------- MODULE TimerProofs -----------------------------
(***************************************************************************)
(* The two timers of a validator and what hangs on them: the votes it      *)
(* sends, paced by the SendVote timer (VotePacing, for any number of       *)
(* rounds and restarts), and the timeouts it sends and collects, with the  *)
(* Pacemaker timer (Pacemaker, for any validators, stakes, rounds, tips    *)
(* and messages that validate).  Last, the breaker that an archive reader  *)
(* opens after failures and tries again after a timeout (CircuitBreaker,   *)
(* for any callers, threshold and timeout).                                *)
(*                                                                         *)
(* The specifications are proved about one by one; the first two name some *)
(* of their variables alike, and share them here.                          *)
(***************************************************************************)
EXTENDS VotePacing, ValidatorSet, Integers, FiniteSetTheorems, TLAPS

-----------------------------------------------------------------------------
(* The votes a validator sends: VotePacing *)

\* What relates the waiting vote, the timers and the votes sent: a waiting
\* vote is not above highest_vote, no timer is above it, and every vote sent
\* is below it; a node that has sent a vote since it started has a timer
\* unless the timer has fired for the next vote.
PacingOrder ==
  /\ highest_vote <= current_round
  /\ IsReady => /\ scheduled_vote.round <= highest_vote
                       /\ \A r \in timer \cup elapsed : r <= scheduled_vote.round
                       /\ \A s \in sent : s.vote < scheduled_vote.round
  /\ \A s \in sent : s.vote <= highest_vote /\ s.run <= restarts
  /\ (\E s \in sent : s.run = restarts) /\ scheduled_vote.status # "TimerFired"
       => timer \cup elapsed # {}

PacingInv ==
  /\ TypeOK /\ NeverReschedules
  /\ SentOnce /\ TimerNotAhead /\ PacingOrder

LEMMA PacingInit == Init => PacingInv
<1> SUFFICES ASSUME Init PROVE PacingInv
  OBVIOUS
<1>1. TypeOK
  <2>1. 1 \in Round /\ 0 \in 0..MaxRestarts
    BY PacingAssumption DEF Round
  <2> QED BY ZenonT(30), <2>1 DEF Init, TypeOK
<1>2. NeverReschedules /\ SentOnce /\ TimerNotAhead
  BY DEF Init, NeverReschedules, SentOnce, TimerNotAhead
<1>3. PacingOrder
  BY DEF Init, PacingOrder, NoVote, IsReady
<1> QED BY <1>1, <1>2, <1>3 DEF PacingInv

LEMMA SuccMonotone == \A a, b \in Nat : a <= b => a + 1 <= b + 1
OBVIOUS

\* A vote that is above every vote sent and not below the round it is sent
\* with can be sent.
LEMMA SendStep ==
  ASSUME NEW round \in Round, NEW vote \in Round,
         PacingInv, round <= vote, vote <= highest_vote',
         \A s \in sent : s.vote < vote,
         highest_vote' \in Round, highest_vote <= highest_vote',
         highest_vote' <= current_round, current_round' = current_round,
         elapsed' \subseteq elapsed, restarts' = restarts, panicked' = panicked,
         send_vote_and_reset_timer(round, vote)
  PROVE  PacingInv'
<1> USE PacingAssumption
<1> DEFINE new == [vote |-> vote, round |-> round, run |-> restarts]
<1>1. /\ sent' = sent \cup {new} /\ timer' = {round + 1} /\ scheduled_vote' = NoVote
      /\ new.vote = vote /\ new.round = round /\ new.run = restarts
  BY DEF send_vote_and_reset_timer
<1>2. new \in SentVote
  BY DEF SentVote, PacingInv, TypeOK
<1> HIDE DEF new
<1>3. TypeOK'
  BY <1>1, <1>2 DEF PacingInv, TypeOK, Round
<1>4. NeverReschedules'
  BY DEF PacingInv, NeverReschedules
<1>5. SentOnce'
  BY <1>1, <1>2 DEF PacingInv, SentOnce, TypeOK, SentVote, Round
<1>6. TimerNotAhead'
  <2>1. \A s \in sent' : s.round <= s.vote
    BY <1>1 DEF PacingInv, TimerNotAhead
  <2>2. /\ highest_vote \in Nat /\ highest_vote' \in Nat /\ round \in Nat /\ vote \in Nat
        /\ \A r \in elapsed' : r \in Nat /\ r <= highest_vote + 1
    BY DEF PacingInv, TimerNotAhead, TypeOK, Round
  <2>3. round <= highest_vote'
    BY <2>2
  <2>4. round + 1 <= highest_vote' + 1
    BY ZenonT(30), <2>2, <2>3, SuccMonotone
  <2>5. \A r \in elapsed' : r <= highest_vote' + 1
    BY <2>2
  <2> QED BY <1>1, <2>1, <2>4, <2>5 DEF TimerNotAhead
<1>7. PacingOrder'
  BY <1>1, <1>2 DEF PacingInv, PacingOrder, TypeOK, Round, SentVote, NoVote, IsReady
<1> QED BY <1>3, <1>4, <1>5, <1>6, <1>7 DEF PacingInv

LEMMA PacingStep == PacingInv /\ [Next]_vars => PacingInv'
<1> SUFFICES ASSUME PacingInv, [Next]_vars PROVE PacingInv'
  OBVIOUS
<1> USE PacingAssumption
<1>1. CASE EnterRound
  BY <1>1 DEF EnterRound, PacingInv, TypeOK, NeverReschedules, SentOnce, TimerNotAhead, PacingOrder,
              Round, IsReady
<1>2. CASE LocalTimeout
  BY <1>2 DEF LocalTimeout, PacingInv, TypeOK, NeverReschedules, SentOnce, TimerNotAhead, PacingOrder,
              Round, IsReady, SentVote, VoteReady, NoVote, TimerFired
<1>3. CASE TryVote
  <2>1. /\ current_round > highest_vote /\ highest_vote' = current_round
        /\ current_round' = current_round /\ elapsed' = elapsed /\ restarts' = restarts
    BY <1>3 DEF TryVote, is_safe_to_vote
  <2>2. ~ (IsReady /\ scheduled_vote.round >= current_round)
    BY <2>1 DEF PacingInv, PacingOrder, TypeOK, Round, IsReady, VoteReady, NoVote, TimerFired
  <2>3. panicked' = panicked
    BY <1>3, <2>2 DEF TryVote
  <2>4. CASE send_vote_and_reset_timer(current_round, current_round)
    <3>1. \A s \in sent : s.vote < current_round
      BY <2>1 DEF PacingInv, PacingOrder, TypeOK, Round, SentVote
    <3> QED BY <2>1, <2>3, <2>4, <3>1, SendStep DEF PacingInv, TypeOK, Round
  <2>5. CASE /\ scheduled_vote.status # "TimerFired"
             /\ scheduled_vote' = VoteReady(current_round)
             /\ UNCHANGED <<sent, timer>>
    <3>1. TypeOK'
      BY <2>1, <2>3, <2>5 DEF PacingInv, TypeOK
    <3>4. NeverReschedules' /\ SentOnce'
      BY <2>3, <2>5 DEF PacingInv, NeverReschedules, SentOnce
    <3>2. TimerNotAhead'
      BY <2>1, <2>5 DEF PacingInv, TimerNotAhead, TypeOK, Round
    <3>3. PacingOrder'
      BY <2>1, <2>5 DEF PacingInv, PacingOrder, TimerNotAhead, TypeOK, Round, VoteReady, SentVote, IsReady
    <3> QED BY <3>1, <3>2, <3>3, <3>4 DEF PacingInv
  <2> QED BY <1>3, <2>2, <2>4, <2>5 DEF TryVote
<1>4. CASE TimerElapses
  BY ZenonT(30), <1>4 DEF TimerElapses, PacingInv, TypeOK, NeverReschedules, SentOnce, TimerNotAhead, PacingOrder, IsReady
<1>5. CASE HandleVoteTimer
  <2> PICK round \in elapsed : handle_vote_timer(round) /\ elapsed' = elapsed \ {round}
    BY <1>5 DEF HandleVoteTimer
  <2>1. /\ current_round' = current_round /\ highest_vote' = highest_vote
        /\ restarts' = restarts /\ panicked' = panicked
    BY <1>5 DEF HandleVoteTimer
  <2>2. CASE IsReady
    <3>1. /\ scheduled_vote.round \in Round /\ round <= scheduled_vote.round /\ round \in Round
          /\ scheduled_vote.round <= highest_vote
          /\ \A s \in sent : s.vote < scheduled_vote.round
      BY <2>2 DEF PacingInv, PacingOrder, TypeOK, Round, IsReady, VoteReady, NoVote, TimerFired
    <3> QED BY <2>1, <2>2, <3>1, SendStep DEF handle_vote_timer, PacingInv, PacingOrder, TypeOK, Round
  <2>3. CASE ~ IsReady
    <3>1. scheduled_vote' = TimerFired /\ sent' = sent /\ timer' = timer
      BY <2>3 DEF handle_vote_timer
    <3>2. TypeOK' /\ NeverReschedules' /\ SentOnce'
      BY <2>1, <3>1 DEF PacingInv, TypeOK, NeverReschedules, SentOnce
    <3>3. TimerNotAhead' /\ PacingOrder'
      BY <2>1, <3>1 DEF PacingInv, TimerNotAhead, PacingOrder, IsReady, TimerFired
    <3> QED BY <3>2, <3>3 DEF PacingInv
  <2> QED BY <2>2, <2>3
<1>6. CASE Restart
  <2>1. TypeOK' /\ NeverReschedules' /\ SentOnce'
    BY <1>6 DEF Restart, Started, PacingInv, TypeOK, NeverReschedules, SentOnce
  <2>2. TimerNotAhead' /\ PacingOrder'
    BY <1>6 DEF Restart, Started, PacingInv, TypeOK, TimerNotAhead, PacingOrder, Round, SentVote,
                NoVote, IsReady
  <2> QED BY <2>1, <2>2 DEF PacingInv
<1>7. CASE UNCHANGED vars
  BY <1>7 DEF vars, PacingInv, TypeOK, NeverReschedules, SentOnce, TimerNotAhead, PacingOrder, IsReady
<1> QED BY <1>1, <1>2, <1>3, <1>4, <1>5, <1>6, <1>7 DEF Next

LEMMA PacingInvariance == Spec => []PacingInv
BY PacingInit, PacingStep, PTL DEF Spec

\* The panic of try_vote on a second vote of a round is unreachable.
THEOREM VotesAreNotRescheduled == Spec => []NeverReschedules
BY PacingInvariance, PTL DEF PacingInv

\* No vote message is sent twice with different receivers.
THEOREM VotesAreSentOnce == Spec => []SentOnce
BY PacingInvariance, PTL DEF PacingInv

\* A timer never sends a vote to the leaders of rounds beyond the vote's.
THEOREM TimersAreNotAhead == Spec => []TimerNotAhead
BY PacingInvariance, PTL DEF PacingInv

\* After the first vote since the node started, a waiting vote has a timer.
THEOREM WaitingVotesHaveTimers == Spec => []PacedOnceSent
<1>1. PacingInv => PacedOnceSent
  BY DEF PacingInv, PacingOrder, PacedOnceSent, IsReady
<1> QED BY <1>1, PacingInvariance, PTL

-----------------------------------------------------------------------------
(* The timeouts a validator collects, and its own: Pacemaker.              *)
CONSTANTS Honest, Self, Tips, QcRounds, TcRounds, FirstRound, TimeoutRounds

VARIABLES phase, pending_timeouts, votes, timed_out, tcs

Timeouts == INSTANCE Pacemaker

\* The rounds are rounds, and there is a last tip.
Timed ==
  /\ QcRounds \subseteq Nat /\ TcRounds \subseteq Nat /\ TimeoutRounds \subseteq Nat
  /\ FirstRound \in Nat
  /\ \A t \in Tips : t.round \in Nat /\ t.qc \in Nat
  /\ \E b \in Nat : \A t \in Tips : t.round <= b

\* The fields of Pacemaker's State.
IsState(s) ==
  s = [round |-> s.round, phase |-> s.phase, pending |-> s.pending, votes |-> s.votes,
       timer |-> s.timer, timed_out |-> s.timed_out, tcs |-> s.tcs, panicked |-> s.panicked]

\* A timeout that is kept is of the round, and the certificates it carries
\* have been processed.
Processed(m, r) == m \in Timeouts!Messages /\ m.round = r /\ m.extend.qc < r

PendingTyped(s) ==
  /\ \A m \in s.pending : Processed(m, s.round)
  /\ \A m, n \in s.pending : m.author = n.author => m = n

\* The node has sent a timeout iff it is in phase One, in which it is as soon
\* as a correct validator has.
Joined(s) ==
  /\ s.phase \in {"Zero", "One"}
  /\ s.phase = "One" => s.round \in s.timed_out
  /\ has_honest_vote(Timeouts!Authors(s.pending)) => s.phase = "One"

Open(s) == ~ has_super_majority_votes(Timeouts!Authors({m \in s.pending : m.valid}))

\* The timer of the round, if its event is not among `events`.
Armed(s, events) ==
  /\ s.timer \cup events \subseteq Nat
  /\ s.round \in s.timer \cup events
  /\ \A r \in s.timer \cup events : r <= s.round

Accepted(tc) == Timeouts!verify_tc(tc) \/ Timeouts!Misreported(tc)

Steady(s, events) ==
  /\ IsState(s) /\ s.round \in Nat /\ s.panicked = FALSE
  /\ PendingTyped(s) /\ Joined(s) /\ Open(s) /\ Armed(s, events)
  /\ \A tc \in s.tcs : Accepted(tc)

-----------------------------------------------------------------------------
(* What is needed of the thresholds of ValidatorSet *)

LEMMA StakeMonotone ==
  ASSUME NEW P, NEW Q, P \subseteq Q
  PROVE  /\ calculate_current_stake(P) \in Nat /\ calculate_current_stake(Q) \in Nat
         /\ calculate_current_stake(P) <= calculate_current_stake(Q)
<1>1. IsFiniteSet(1..MaxStake)
  BY StakeAssumption, FS_Interval
<1>2. IsFiniteSet(Validator \X (1..MaxStake))
  BY ZenonT(30), <1>1, StakeAssumption, FS_Product
<1>3. IsFiniteSet(Units(Q))
  BY <1>2, FS_Subset DEF Units
<1>4. Units(P) \subseteq Units(Q)
  BY DEF Units
<1> QED BY <1>3, <1>4, FS_Subset, FS_CardinalityType DEF calculate_current_stake

\* More validators are a supermajority as well.
LEMMA SuperMajorityMonotone ==
  ASSUME NEW P, NEW Q, P \subseteq Q, has_super_majority_votes(P)
  PROVE  has_super_majority_votes(Q)
<1>1. total_stake \in Nat
  BY StakeMonotone DEF total_stake
<1>2. (total_stake * 2) \div 3 + 1 \in Nat
  BY <1>1
<1> QED BY <1>2, StakeMonotone DEF has_super_majority_votes, has_threshold_votes

\* A supermajority has the vote of a correct validator.
LEMMA SuperMajorityIsHonestVote ==
  ASSUME NEW Q, has_super_majority_votes(Q) PROVE has_honest_vote(Q)
<1> DEFINE t == total_stake
           q == calculate_current_stake(Q)
<1>1. t \in Nat /\ q \in Nat
  BY StakeMonotone DEF total_stake
<1>2. q >= (t * 2) \div 3 + 1
  BY DEF has_super_majority_votes, has_threshold_votes
<1> HIDE DEF t, q
<1>3. q >= t \div 3 + 1
  BY <1>1, <1>2
<1> QED BY <1>3 DEF has_honest_vote, has_threshold_votes, t, q

LEMMA NobodyTimedOut ==
  Timeouts!Authors({}) = {} /\ ~ has_honest_vote({}) /\ ~ has_super_majority_votes({})
<1>1. Units({}) = {}
  BY DEF Units
<1>2. calculate_current_stake({}) = 0
  BY <1>1, FS_EmptySet DEF calculate_current_stake
<1>3. total_stake \in Nat
  BY StakeMonotone DEF total_stake
<1>4. ~ (0 >= total_stake \div 3 + 1)
  BY <1>3
<1>5. ~ has_honest_vote({})
  BY <1>2, <1>4 DEF has_honest_vote, has_threshold_votes
<1>6. Timeouts!Authors({}) = {}
  BY DEF Timeouts!Authors
<1> QED BY <1>5, <1>6, SuperMajorityIsHonestVote

LEMMA TimeoutsThresholds ==
  ASSUME NEW P
  PROVE  /\ Timeouts!has_super_majority_votes(P) <=> has_super_majority_votes(P)
         /\ Timeouts!has_honest_vote(P) <=> has_honest_vote(P)
<1>1. \A S : Timeouts!Cardinality(S) = Cardinality(S)
  BY Zenon DEF Timeouts!Cardinality, Cardinality
<1>2. \A Q : Timeouts!Units(Q) = Units(Q)
  BY DEF Timeouts!Units, Units
<1>3. \A Q : Timeouts!calculate_current_stake(Q) = calculate_current_stake(Q)
  BY <1>1, <1>2 DEF Timeouts!calculate_current_stake, calculate_current_stake
<1>4. Timeouts!total_stake = total_stake
  BY <1>3 DEF Timeouts!total_stake, total_stake
<1> QED BY <1>3, <1>4 DEF Timeouts!has_super_majority_votes, has_super_majority_votes,
      Timeouts!has_honest_vote, has_honest_vote, Timeouts!has_threshold_votes, has_threshold_votes

\* A round that is entered starts with nothing but its timer.
LEMMA CertificateSteady ==
  ASSUME NEW s, NEW events, Steady(s, events), NEW round \in Nat
  PROVE  LET t == Timeouts!process_certificate(s, round)
         IN  /\ Steady(t, events)
             /\ t.round >= s.round /\ t.round > round
             /\ t.round = s.round => t = s
             /\ round < s.round => t = s
<1> DEFINE t == Timeouts!process_certificate(s, round)
<1> SUFFICES /\ Steady(t, events)
             /\ t.round >= s.round /\ t.round > round
             /\ t.round = s.round => t = s
             /\ round < s.round => t = s
  OBVIOUS
<1>1. CASE round < s.round
  <2>1. t = s
    BY <1>1 DEF Timeouts!process_certificate
  <2> QED BY <1>1, <2>1 DEF Steady
<1>2. CASE ~ (round < s.round)
  <2>1. t = [s EXCEPT !.round = round + 1, !.phase = "Zero", !.pending = {}, !.votes = {},
                      !.timer = {round + 1}]
    BY <1>2 DEF Timeouts!process_certificate
  <2> HIDE DEF t
  <2>2. /\ t.round = round + 1 /\ t.phase = "Zero" /\ t.pending = {} /\ t.timer = {round + 1}
        /\ t.tcs = s.tcs /\ t.panicked = s.panicked /\ IsState(t)
    BY ZenonT(30), <2>1 DEF Steady, IsState
  <2>3. PendingTyped(t) /\ t.round \in Nat
    BY <2>2 DEF PendingTyped
  <2>4. Joined(t) /\ Open(t)
    <3>1. {m \in t.pending : m.valid} = {}
      BY <2>2
    <3> QED BY <2>2, <3>1, NobodyTimedOut DEF Joined, Open
  <2>5. Armed(t, events)
    BY <1>2, <2>2 DEF Armed, Steady
  <2>6. t.round > s.round /\ t.round >= s.round /\ t.round > round /\ t.round # s.round
    BY <1>2, <2>2 DEF Steady
  <2>7. Steady(t, events)
    BY <2>2, <2>3, <2>4, <2>5 DEF Steady
  <2> QED BY <1>2, <2>6, <2>7
<1> QED BY <1>1, <1>2

-----------------------------------------------------------------------------
(* TimeoutCertificate::new and verify_tc *)

LEMMA LeastNatural ==
  ASSUME NEW S \in SUBSET Nat, S # {}
  PROVE  \E m \in S : \A n \in S : m <= n
<1> DEFINE R == {ss \in Nat \X Nat : ss[1] < ss[2]}
<1>1. PICK m \in S : \A n \in S : ~ (<<n, m>> \in R)
  <2>1. IsWellFoundedOn(R, Nat)
    BY NatLessThanWellFounded DEF OpToRel
  <2> HIDE DEF R
  <2> QED BY ZenonT(30), <2>1, WFMin
<1>2. \A n \in S : ~ (n < m)
  BY ZenonT(30), <1>1
<1> QED BY <1>2

\* What validate and process_certificate leave of a message.
LEMMA ProcessedFacts ==
  ASSUME Timed, NEW r \in Nat, NEW m, Processed(m, r)
  PROVE  /\ m.extend.tip \in Nat /\ m.extend.qc \in Nat /\ m.high_qc_round \in Nat
         /\ Timeouts!ExtendRound(m.extend) \in Nat
         /\ Timeouts!IsTip(m.extend) => /\ Timeouts!ExtendRound(m.extend) = m.extend.tip
                                        /\ m.high_qc_round < m.extend.tip
         /\ ~ Timeouts!IsTip(m.extend) => /\ Timeouts!ExtendRound(m.extend) = m.high_qc_round
                                          /\ m.extend.qc = m.high_qc_round
                                          /\ m.extend.tip = 0
         /\ m.high_qc_round >= r => m.extend.tip > r /\ m.author \notin Honest
<1>1. m \in Timeouts!RawMessages /\ Timeouts!validate(m) /\ m.round = r /\ m.extend.qc < r
  BY DEF Processed, Timeouts!Messages
<1>2. m.extend \in Timeouts!Extends /\ m.high_qc_round \in Nat
  BY ZenonT(30), <1>1 DEF Timeouts!RawMessages, Timed
<1>3. m.extend.tip \in Nat /\ m.extend.qc \in Nat
  BY <1>2 DEF Timeouts!Extends, Timed, Timeouts!GENESIS_ROUND
<1>4. IF Timeouts!IsTip(m.extend) THEN m.high_qc_round < m.extend.tip
                                  ELSE m.high_qc_round = m.extend.qc
  BY <1>1 DEF Timeouts!validate
<1>5. m.author \in Honest => m.high_qc_round = m.extend.qc
  BY DEF Processed, Timeouts!Messages, Timeouts!HonestMessage
<1> QED BY <1>1, <1>2, <1>3, <1>4, <1>5
      DEF Timeouts!IsTip, Timeouts!ExtendRound, Timeouts!GENESIS_ROUND

\* The rounds of extends are bounded.
LEMMA ExtendsBounded ==
  ASSUME Timed, NEW r \in Nat
  PROVE  \E b \in Nat : \A m : Processed(m, r) => Timeouts!ExtendRound(m.extend) <= b
<1>1. PICK b \in Nat : \A t \in Tips : t.round <= b
  BY DEF Timed
<1>2. ASSUME NEW m, Processed(m, r)
      PROVE  Timeouts!ExtendRound(m.extend) <= b + r
  <2>1. m.extend \in Timeouts!Extends /\ m.extend.qc < r
    BY <1>2, ZenonT(30) DEF Processed, Timeouts!Messages, Timeouts!RawMessages
  <2>2. m.extend.tip <= b \/ m.extend.tip = 0
    BY <1>1, <2>1 DEF Timeouts!Extends, Timeouts!GENESIS_ROUND
  <2>3. m.extend.tip \in Nat /\ m.extend.qc \in Nat
    BY <1>2, ProcessedFacts
  <2> QED BY <2>1, <2>2, <2>3 DEF Timeouts!ExtendRound
<1> QED BY <1>2, b + r \in Nat

\* The highest of the extends exists.
LEMMA HighestExtend ==
  ASSUME Timed, NEW r \in Nat, NEW msgs, msgs # {}, \A m \in msgs : Processed(m, r)
  PROVE  \E e \in {m.extend : m \in msgs} : ~ \E m \in msgs : Timeouts!Higher(m.extend, e)
<1>0. PICK b \in Nat : \A m : Processed(m, r) => Timeouts!ExtendRound(m.extend) <= b
  BY ExtendsBounded
<1> DEFINE Rank(e) == IF Timeouts!IsTip(e) THEN 2 * (b - Timeouts!ExtendRound(e)) + 1
                                           ELSE 2 * (b - Timeouts!ExtendRound(e))
           S == {Rank(m.extend) : m \in msgs}
<1>1. \A m \in msgs : /\ Timeouts!ExtendRound(m.extend) \in Nat
                      /\ Timeouts!ExtendRound(m.extend) <= b
  BY <1>0, ProcessedFacts
<1>2. \A m \in msgs : Rank(m.extend) \in Nat
  BY <1>1
<1>3. PICK x \in S : \A y \in S : x <= y
  <2>1. S \in SUBSET Nat /\ S # {}
    BY <1>2
  <2> HIDE DEF S
  <2> QED BY <2>1, LeastNatural
<1>4. PICK n \in msgs : x = Rank(n.extend)
  OBVIOUS
<1>5. ASSUME NEW m \in msgs, Timeouts!Higher(m.extend, n.extend) PROVE FALSE
  <2>1. Rank(n.extend) <= Rank(m.extend)
    BY <1>3, <1>4
  <2> QED BY <1>1, <1>5, <2>1 DEF Timeouts!Higher
<1> QED BY <1>5

LEMMA MaxOf ==
  ASSUME NEW S \in SUBSET Nat, S # {}, NEW b \in Nat, \A y \in S : y <= b
  PROVE  Timeouts!Max(S) \in S /\ \A y \in S : y <= Timeouts!Max(S)
<1> DEFINE D == {b - y : y \in S}
<1>1. D \in SUBSET Nat /\ D # {}
  <2>1. \A y \in S : b - y \in Nat
    OBVIOUS
  <2>2. D \in SUBSET Nat
    BY <2>1
  <2> QED BY ZenonT(30), <2>2
<1>2. PICK d \in D : \A y \in D : d <= y
  <2> HIDE DEF D
  <2> QED BY <1>1, LeastNatural
<1>3. PICK x \in S : d = b - x
  BY <1>2
<1>4. \A y \in S : d <= b - y
  BY <1>2
<1>5. \A y \in S : x >= y
  BY <1>3, <1>4
<1>6. Timeouts!Max(S) \in S /\ \A y \in S : Timeouts!Max(S) >= y
  BY <1>5, Zenon DEF Timeouts!Max
<1> QED BY <1>6

\* tip_rounds has the TimeoutInfo and the signature of every message, each
\* signature once.
LEMMA TipRounds ==
  ASSUME NEW r, NEW msgs, \A m, n \in msgs : m.author = n.author => m = n
  PROVE  LET tips == Timeouts!new_tc(r, msgs).tip_rounds
         IN  /\ {t.info.high_qc_round : t \in tips} = {m.high_qc_round : m \in msgs}
             /\ {t.info.high_tip_round : t \in tips} = {m.extend.tip : m \in msgs}
             /\ Timeouts!Authors(msgs) \subseteq UNION {t.signers : t \in tips}
             /\ \A t, u \in tips : t # u => t.info # u.info /\ t.signers \cap u.signers = {}
<1> DEFINE Info(m) == Timeouts!TimeoutInfo(m)
           Signers(i) == {m.author : m \in {n \in msgs : Info(n) = i}}
           tips == Timeouts!new_tc(r, msgs).tip_rounds
<1>1. tips = {[info |-> i, signers |-> Signers(i)] : i \in {Info(m) : m \in msgs}}
  BY DEF Timeouts!new_tc
<1> HIDE DEF tips
<1>2. \A m \in msgs : Info(m).high_qc_round = m.high_qc_round /\ Info(m).high_tip_round = m.extend.tip
  BY DEF Timeouts!TimeoutInfo
<1>3. ASSUME NEW t \in tips
      PROVE  \E m \in msgs : t = [info |-> Info(m), signers |-> Signers(Info(m))]
  <2> HIDE DEF Info, Signers
  <2> QED BY <1>1
<1>4. ASSUME NEW m \in msgs PROVE \E t \in tips : t.info = Info(m)
  <2>1. [info |-> Info(m), signers |-> Signers(Info(m))] \in tips
    BY <1>1, Zenon
  <2> HIDE DEF Info, Signers
  <2> QED BY <2>1
<1>5. \A t \in tips : t.signers = Signers(t.info) /\ \E m \in msgs : t.info = Info(m)
  <2> HIDE DEF Info, Signers
  <2> QED BY <1>3
<1>6. \A t, u \in tips : t.info = u.info => t = u
  <2> HIDE DEF Info, Signers
  <2> QED BY <1>3
<1> HIDE DEF Info
<1>7. {t.info.high_qc_round : t \in tips} = {m.high_qc_round : m \in msgs}
  BY <1>2, <1>4, <1>5
<1>8. {t.info.high_tip_round : t \in tips} = {m.extend.tip : m \in msgs}
  BY <1>2, <1>4, <1>5
<1>9. \A m \in msgs : \E t \in tips : m.author \in t.signers
  BY <1>4, <1>5
<1>10. Timeouts!Authors(msgs) \subseteq UNION {t.signers : t \in tips}
  BY <1>9 DEF Timeouts!Authors
<1>11. ASSUME NEW t \in tips, NEW u \in tips, t # u
       PROVE  t.info # u.info /\ t.signers \cap u.signers = {}
  BY <1>5, <1>11, <1>6
<1> QED BY ZenonT(30), <1>7, <1>8, <1>10, <1>11 DEF tips

\* A certificate built from processed timeouts that claim earlier QCs passes
\* verify_tc.
LEMMA BuiltVerifies ==
  ASSUME Timed, NEW r \in Nat, NEW msgs, \A m \in msgs : Processed(m, r),
         \A m \in msgs : m.high_qc_round < r,
         \A m, n \in msgs : m.author = n.author => m = n,
         has_super_majority_votes(Timeouts!Authors(msgs))
  PROVE  Timeouts!verify_tc(Timeouts!new_tc(r, msgs))
<1> DEFINE tc   == Timeouts!new_tc(r, msgs)
           e    == CHOOSE f \in {m.extend : m \in msgs} :
                     ~ \E m \in msgs : Timeouts!Higher(m.extend, f)
           qcs_ == {t.info.high_qc_round : t \in tc.tip_rounds}
           tips == {t.info.high_tip_round : t \in tc.tip_rounds}
           ER(m) == Timeouts!ExtendRound(m.extend)
<1>1. tc.round = r /\ tc.high_extend = e
  BY DEF Timeouts!new_tc
<1>2. msgs # {}
  <2> SUFFICES ASSUME msgs = {} PROVE FALSE
    OBVIOUS
  <2> QED BY NobodyTimedOut
<1>3. PICK h \in msgs : h.extend = e /\ \A m \in msgs : ~ Timeouts!Higher(m.extend, e)
  <2>1. e \in {m.extend : m \in msgs} /\ ~ \E m \in msgs : Timeouts!Higher(m.extend, e)
    BY <1>2, HighestExtend, Zenon
  <2> HIDE DEF e
  <2> QED BY <2>1
<1>4. /\ qcs_ = {m.high_qc_round : m \in msgs}
      /\ tips = {m.extend.tip : m \in msgs}
      /\ Timeouts!Authors(msgs) \subseteq UNION {t.signers : t \in tc.tip_rounds}
      /\ \A t, u \in tc.tip_rounds : t # u => t.info # u.info /\ t.signers \cap u.signers = {}
  BY ZenonT(30), TipRounds
<1> HIDE DEF e, tc
<1>5. Timeouts!has_super_majority_votes(UNION {t.signers : t \in tc.tip_rounds})
  BY <1>4, SuperMajorityMonotone, TimeoutsThresholds
<1>6. /\ \A m \in msgs : /\ m.extend.tip \in Nat /\ m.high_qc_round \in Nat
                         /\ m.high_qc_round < r
                         /\ ER(m) \in Nat
      /\ \A m \in msgs : Timeouts!IsTip(m.extend) =>
           ER(m) = m.extend.tip /\ m.high_qc_round < m.extend.tip
      /\ \A m \in msgs : ~ Timeouts!IsTip(m.extend) =>
           ER(m) = m.high_qc_round /\ m.extend.qc = m.high_qc_round /\ m.extend.tip = 0
  BY ProcessedFacts
<1>7. \A m \in msgs : /\ ER(m) <= ER(h)
                      /\ Timeouts!IsTip(h.extend) /\ ~ Timeouts!IsTip(m.extend) => ER(m) < ER(h)
  BY <1>3, <1>6 DEF Timeouts!Higher
<1> HIDE DEF ER
<1>8. /\ Timeouts!Max(qcs_) \in qcs_ /\ \A q \in qcs_ : q <= Timeouts!Max(qcs_)
      /\ \A q \in qcs_ : q \in Nat /\ q < r
  <2> HIDE DEF qcs_
  <2>1. \A m \in msgs : m.high_qc_round \in Nat /\ m.high_qc_round <= r /\ m.high_qc_round < r
    BY <1>6
  <2>2. qcs_ \in SUBSET Nat /\ \A q \in qcs_ : q <= r /\ q < r
    BY <1>4, <2>1
  <2>3. qcs_ # {}
    BY ZenonT(30), <1>4, h.high_qc_round \in qcs_
  <2> QED BY ZenonT(30), <2>2, <2>3, MaxOf
<1>9. /\ Timeouts!Max(tips) \in tips /\ \A q \in tips : q <= Timeouts!Max(tips)
      /\ tips \subseteq Nat
  <2>1. PICK b \in Nat : \A m : Processed(m, r) => Timeouts!ExtendRound(m.extend) <= b
    BY ExtendsBounded
  <2>2. \A m \in msgs : m.extend.tip <= b
    BY <1>6, <2>1 DEF ER
  <2>3. tips \in SUBSET Nat /\ tips # {} /\ \A q \in tips : q <= b
    BY ZenonT(30), <1>2, <1>4, <1>6, <2>2
  <2> HIDE DEF tips
  <2> QED BY ZenonT(30), <2>3, MaxOf
<1> HIDE DEF qcs_, tips
<1>10. h.extend.tip \in tips /\ h.high_qc_round \in qcs_
  BY <1>4
<1>11. IF Timeouts!IsTip(e)
       THEN e.tip = Timeouts!Max(tips) /\ Timeouts!Max(qcs_) < Timeouts!Max(tips)
       ELSE e.qc = Timeouts!Max(qcs_) /\ Timeouts!Max(tips) <= Timeouts!Max(qcs_)
  <2>1. CASE Timeouts!IsTip(e)
    <3>1. \A m \in msgs : m.extend.tip <= h.extend.tip /\ m.high_qc_round < h.extend.tip
      BY <1>3, <1>6, <1>7, <2>1
    <3>2. (\A q \in tips : q <= h.extend.tip) /\ (\A q \in qcs_ : q < h.extend.tip)
      BY <1>4, <3>1
    <3>3. h.extend.tip = Timeouts!Max(tips)
      <4>1. h.extend.tip <= Timeouts!Max(tips) /\ Timeouts!Max(tips) <= h.extend.tip
        BY ZenonT(30), <1>9, <1>10, <3>2
      <4>2. h.extend.tip \in Nat /\ Timeouts!Max(tips) \in Nat
        BY ZenonT(30), <1>9, <1>10
      <4> QED BY <4>1, <4>2
    <3> QED BY ZenonT(30), <1>3, <1>8, <2>1, <3>2, <3>3
  <2>2. CASE ~ Timeouts!IsTip(e)
    <3>1. \A m \in msgs : m.extend.tip <= h.high_qc_round /\ m.high_qc_round <= h.high_qc_round
      BY <1>3, <1>6, <1>7, <2>2
    <3>2. (\A q \in tips : q <= h.high_qc_round) /\ (\A q \in qcs_ : q <= h.high_qc_round)
      BY <1>4, <3>1
    <3>3. h.high_qc_round = Timeouts!Max(qcs_)
      BY <1>8, <1>10, <3>2
    <3> QED BY ZenonT(30), <1>3, <1>6, <1>9, <2>2, <3>2, <3>3
  <2> QED BY <2>1, <2>2
<1>12. tc.round = r /\ \A q \in qcs_ : q < tc.round
  BY <1>1, <1>8
<1> QED BY <1>1, <1>4, <1>5, <1>11, <1>12, Zenon DEF Timeouts!verify_tc, qcs_, tips, tc

\* A certificate of timeouts of which one claims a later QC is misreported, by
\* faulty validators.
LEMMA BuiltMisreported ==
  ASSUME Timed, NEW r \in Nat, NEW msgs, \A m \in msgs : Processed(m, r),
         NEW h \in msgs, h.high_qc_round >= r
  PROVE  Timeouts!Misreported(Timeouts!new_tc(r, msgs))
<1> DEFINE Info(m) == Timeouts!TimeoutInfo(m)
           Signers(i) == {m.author : m \in {n \in msgs : Info(n) = i}}
           tc == Timeouts!new_tc(r, msgs)
           t == [info |-> Info(h), signers |-> Signers(Info(h))]
<1>1. /\ tc.tip_rounds = {[info |-> i, signers |-> Signers(i)] : i \in {Info(m) : m \in msgs}}
      /\ tc.round = r
  BY DEF Timeouts!new_tc
<1>2. t \in tc.tip_rounds
  BY ZenonT(30), <1>1
<1>3. \A m \in msgs : Info(m).high_qc_round = m.high_qc_round /\ Info(m).high_tip_round = m.extend.tip
  BY DEF Timeouts!TimeoutInfo
<1> HIDE DEF tc, Info
<1>4. t.info.high_qc_round >= r /\ t.info.high_tip_round > r
  BY <1>3, ProcessedFacts
<1>5. \A n \in msgs : Info(n) = Info(h) => n.author \notin Honest
  BY <1>3, ProcessedFacts
<1>6. t.signers \cap Honest = {}
  BY <1>5
<1> HIDE DEF t
<1>7. Timeouts!Misreported(tc)
  BY <1>1, <1>2, <1>4, <1>6 DEF Timeouts!Misreported
<1> QED BY <1>7 DEF tc

\* What TimeoutCertificate::new makes of processed timeouts.
LEMMA BuiltAccepted ==
  ASSUME Timed, NEW r \in Nat, NEW msgs, \A m \in msgs : Processed(m, r),
         \A m, n \in msgs : m.author = n.author => m = n,
         has_super_majority_votes(Timeouts!Authors(msgs))
  PROVE  Accepted(Timeouts!new_tc(r, msgs))
<1>1. CASE \A m \in msgs : m.high_qc_round < r
  BY ZenonT(30), <1>1, BuiltVerifies DEF Accepted
<1>2. CASE \E m \in msgs : ~ (m.high_qc_round < r)
  <2>1. PICK h \in msgs : ~ (h.high_qc_round < r)
    BY <1>2
  <2>2. h.high_qc_round >= r
    BY <2>1, ProcessedFacts
  <2> QED BY ZenonT(30), <2>2, BuiltMisreported DEF Accepted
<1> QED BY <1>1, <1>2

-----------------------------------------------------------------------------
(* The steps of the handlers *)

\* PrepareTimeout: the node's own timeout.
LEMMA LocalTimeoutSteady ==
  ASSUME NEW s, NEW before, NEW events, Steady(s, before),
         Armed([s EXCEPT !.timer = {s.round}], events)
  PROVE  Steady(Timeouts!local_timeout_round(s), events)
<1> DEFINE t == Timeouts!local_timeout_round(s)
<1>1. t = [s EXCEPT !.phase = "One", !.timer = {s.round}, !.timed_out = @ \cup {s.round}]
  BY DEF Timeouts!local_timeout_round
<1> HIDE DEF t
<1>2. /\ t.round = s.round /\ t.phase = "One" /\ t.pending = s.pending /\ t.timer = {s.round}
      /\ t.timed_out = s.timed_out \cup {s.round} /\ t.tcs = s.tcs /\ t.panicked = s.panicked
      /\ IsState(t)
  BY ZenonT(30), <1>1 DEF Steady, IsState
<1>3. PendingTyped(t) /\ Open(t)
  BY <1>2 DEF Steady, PendingTyped, Open
<1>4. Joined(t)
  BY <1>2 DEF Joined
<1>5. Armed(t, events)
  <2>1. [s EXCEPT !.timer = {s.round}].round = s.round
        /\ [s EXCEPT !.timer = {s.round}].timer = {s.round}
    BY DEF Steady, IsState
  <2> QED BY <1>2, <2>1 DEF Armed
<1>6. Steady(t, events)
  BY <1>2, <1>3, <1>4, <1>5 DEF Steady
<1> QED BY <1>6 DEF t

\* A timeout of the round is added to those of others: what process_remote_timeout
\* does with it.
LEMMA RemoteTimeoutSteady ==
  ASSUME Timed, NEW s, NEW events, Steady(s, events), NEW m, Processed(m, s.round)
  PROVE  Steady(Timeouts!try_create_tc(Timeouts!join_timeout(Timeouts!insert(s, m))), events)
<1> DEFINE i == Timeouts!insert(s, m)
           j == Timeouts!join_timeout(i)
           k == Timeouts!handle_invalid_timeout(j)
           c == Timeouts!new_tc(k.round, k.pending)
           l == [k EXCEPT !.tcs = {c}]
           t == Timeouts!try_create_tc(j)
<1>1. /\ IsState(i) /\ i.round = s.round /\ i.phase = s.phase /\ i.timer = s.timer
      /\ i.timed_out = s.timed_out /\ i.tcs = s.tcs /\ i.panicked = s.panicked
      /\ i.pending = {n \in s.pending : n.author # m.author} \cup {m}
  BY DEF Timeouts!insert, Steady, IsState
<1>2. PendingTyped(i)
  BY ZenonT(30), <1>1 DEF PendingTyped, Steady
<1> HIDE DEF i
\* join_timeout
<1>3. /\ IsState(j) /\ j.round = i.round /\ j.pending = i.pending /\ j.tcs = i.tcs
      /\ j.panicked = i.panicked
      /\ Joined(j) /\ Armed(j, events)
  <2>1. CASE i.phase = "Zero" /\ has_honest_vote(Timeouts!Authors(i.pending))
    <3>1. j = [i EXCEPT !.phase = "One", !.timer = {i.round}, !.timed_out = @ \cup {i.round}]
      BY <2>1, TimeoutsThresholds DEF Timeouts!join_timeout, Timeouts!local_timeout_round
    <3> HIDE DEF j
    <3>2. /\ IsState(j) /\ j.round = i.round /\ j.pending = i.pending /\ j.tcs = i.tcs
          /\ j.panicked = i.panicked /\ j.phase = "One" /\ j.timer = {i.round}
          /\ j.timed_out = i.timed_out \cup {i.round}
      BY ZenonT(30), <1>1, <3>1 DEF IsState
    <3>3. Joined(j)
      BY <3>2 DEF Joined
    <3>4. Armed(j, events)
      BY <1>1, <3>2 DEF Armed, Steady
    <3> QED BY <3>2, <3>3, <3>4
  <2>2. CASE ~ (i.phase = "Zero" /\ has_honest_vote(Timeouts!Authors(i.pending)))
    <3>1. j = i
      BY <2>2, TimeoutsThresholds DEF Timeouts!join_timeout
    <3> HIDE DEF j
    <3>2. Joined(j)
      BY ZenonT(30), <1>1, <2>2, <3>1 DEF Joined, Steady
    <3>3. Armed(j, events)
      BY ZenonT(30), <1>1, <3>1 DEF Armed, Steady
    <3> QED BY <1>1, <3>1, <3>2, <3>3
  <2> QED BY <2>1, <2>2
<1>4. PendingTyped(j) /\ j.round \in Nat /\ j.panicked = FALSE
      /\ \A tc \in j.tcs : Accepted(tc)
  BY ZenonT(30), <1>1, <1>2, <1>3 DEF PendingTyped, Steady
<1> HIDE DEF j
\* Without enough timeouts no certificate is tried.
<1>5. CASE ~ (j.phase = "One" /\ has_super_majority_votes(Timeouts!Authors(j.pending)))
  <2>1. t = j
    BY <1>5, TimeoutsThresholds DEF Timeouts!try_create_tc
  <2>2. ~ has_super_majority_votes(Timeouts!Authors(j.pending))
    <3> SUFFICES ASSUME has_super_majority_votes(Timeouts!Authors(j.pending)) PROVE FALSE
      OBVIOUS
    <3>1. has_honest_vote(Timeouts!Authors(j.pending))
      BY SuperMajorityIsHonestVote
    <3> QED BY <1>3, <1>5, <3>1 DEF Joined
  <2>3. Open(j)
    <3>1. Timeouts!Authors({n \in j.pending : n.valid}) \subseteq Timeouts!Authors(j.pending)
      BY DEF Timeouts!Authors
    <3> QED BY <2>2, <3>1, SuperMajorityMonotone DEF Open
  <2> QED BY ZenonT(30), <1>3, <1>4, <2>1, <2>3 DEF Steady, i, j
<1>6. CASE j.phase = "One" /\ has_super_majority_votes(Timeouts!Authors(j.pending))
  <2>1. t = Timeouts!create_tc(k)
    BY <1>6, TimeoutsThresholds DEF Timeouts!try_create_tc
  <2>2. /\ IsState(k) /\ k.round = j.round /\ k.phase = j.phase /\ k.timer = j.timer
        /\ k.timed_out = j.timed_out /\ k.tcs = j.tcs /\ k.panicked = j.panicked
        /\ k.pending = {n \in j.pending : n.valid}
    BY <1>3 DEF Timeouts!handle_invalid_timeout, IsState
  <2>3. PendingTyped(k)
    BY <1>4, <2>2 DEF PendingTyped
  <2>4. Joined(k) /\ Armed(k, events)
    BY ZenonT(30), <1>3, <1>6, <2>2 DEF Joined, Armed
  <2> HIDE DEF k
  <2>5. CASE ~ has_super_majority_votes(Timeouts!Authors(k.pending))
    <3>1. t = k
      BY ZenonT(30), <2>1, <2>5, TimeoutsThresholds DEF Timeouts!create_tc
    <3>2. Open(k)
      <4>1. {n \in k.pending : n.valid} = k.pending
        BY <2>2
      <4> QED BY <2>5, <4>1 DEF Open
    <3> QED BY <1>4, <2>2, <2>3, <2>4, <3>1, <3>2 DEF Steady, i, j
  <2>6. CASE has_super_majority_votes(Timeouts!Authors(k.pending))
    <3>1. t = Timeouts!process_certificate(l, k.round)
      BY <2>1, <2>6, TimeoutsThresholds DEF Timeouts!create_tc
    <3>2. Accepted(c)
      BY <1>4, <2>2, <2>3, <2>6, BuiltAccepted DEF PendingTyped
    <3> HIDE DEF c
    <3>3. IsState(l) /\ l.round = k.round /\ l.panicked = k.panicked /\ l.tcs = {c}
      BY <2>2 DEF IsState
    <3> HIDE DEF l
    <3>4. t = [l EXCEPT !.round = k.round + 1, !.phase = "Zero", !.pending = {}, !.votes = {},
                        !.timer = {k.round + 1}]
      BY <1>4, <2>2, <3>1, <3>3 DEF Timeouts!process_certificate
    <3> HIDE DEF t
    <3>5. /\ IsState(t) /\ t.round = k.round + 1 /\ t.phase = "Zero" /\ t.pending = {}
          /\ t.timer = {k.round + 1} /\ t.panicked = l.panicked /\ t.tcs = l.tcs
      BY ZenonT(30), <3>3, <3>4 DEF IsState
    <3>6. PendingTyped(t) /\ t.round \in Nat /\ t.panicked = FALSE
      BY <1>4, <2>2, <3>3, <3>5 DEF PendingTyped
    <3>7. Joined(t) /\ Open(t)
      <4>1. {n \in t.pending : n.valid} = {}
        BY <3>5
      <4> QED BY <3>5, <4>1, NobodyTimedOut DEF Joined, Open
    <3>8. Armed(t, events)
      BY <1>4, <2>2, <2>4, <3>5 DEF Armed
    <3>9. \A tc \in t.tcs : Accepted(tc)
      BY ZenonT(30), <3>2, <3>3, <3>5
    <3>10. Steady(t, events)
      BY <3>5, <3>6, <3>7, <3>8, <3>9 DEF Steady
    <3> QED BY <3>10 DEF t, i, j
  <2> QED BY <2>5, <2>6
<1> QED BY <1>5, <1>6

\* The vote that a timeout carries.
LEMMA VoteInTimeoutSteady ==
  ASSUME NEW s, NEW events, Steady(s, events), NEW m, m.round \in Nat
  PROVE  LET t == Timeouts!handle_vote_message(s, m)
         IN  Steady(t, events) /\ t.round >= s.round
<1> DEFINE t == Timeouts!handle_vote_message(s, m)
           v == [s EXCEPT !.votes = @ \cup {[author |-> m.author, tip |-> m.extend]}]
<1>1. t = s \/ t = v \/ t = Timeouts!process_certificate(s, m.round)
  BY DEF Timeouts!handle_vote_message
<1> HIDE DEF t
<1>2. CASE t = s
  <2>1. Steady(t, events) /\ t.round >= s.round
    BY <1>2 DEF Steady
  <2> QED BY <2>1 DEF t
<1>3. CASE t = v
  <2>1. /\ t.round = s.round /\ t.phase = s.phase /\ t.pending = s.pending /\ t.timer = s.timer
        /\ t.timed_out = s.timed_out /\ t.tcs = s.tcs /\ t.panicked = s.panicked /\ IsState(t)
    BY ZenonT(30), <1>3 DEF Steady, IsState
  <2> HIDE DEF v
  <2>2. PendingTyped(t) /\ Joined(t) /\ Open(t) /\ Armed(t, events)
    BY ZenonT(30), <2>1 DEF Steady, PendingTyped, Joined, Open, Armed
  <2>3. Steady(t, events) /\ t.round >= s.round
    BY <2>1, <2>2 DEF Steady
  <2> QED BY <2>3 DEF t
<1>4. CASE t = Timeouts!process_certificate(s, m.round)
  BY <1>4, CertificateSteady DEF t
<1> QED BY <1>1, <1>2, <1>3, <1>4 DEF t

-----------------------------------------------------------------------------
(* The handlers *)

TimeoutsInv == Steady(Timeouts!State, elapsed)

LEMMA StateFields ==
  /\ Timeouts!State.round = current_round /\ Timeouts!State.phase = phase
  /\ Timeouts!State.pending = pending_timeouts /\ Timeouts!State.timer = timer
  /\ Timeouts!State.votes = votes /\ Timeouts!State.timed_out = timed_out
  /\ Timeouts!State.tcs = tcs /\ Timeouts!State.panicked = panicked /\ IsState(Timeouts!State)
BY DEF Timeouts!State, IsState

LEMMA BecomeState ==
  ASSUME NEW CONSTANT s, IsState(s), Timeouts!Become(s) PROVE Timeouts!State' = s
BY DEF IsState, Timeouts!Become, Timeouts!State

LEMMA TimeoutsInit == ASSUME Timed PROVE Timeouts!Init => TimeoutsInv
<1> SUFFICES ASSUME Timeouts!Init PROVE TimeoutsInv
  BY ZenonT(30)
<1> DEFINE s == Timeouts!State
<1>1. /\ s.round = FirstRound /\ s.phase = "Zero" /\ s.pending = {} /\ s.timer = {FirstRound}
      /\ s.tcs = {} /\ s.panicked = FALSE /\ IsState(s) /\ elapsed = {}
  BY StateFields DEF Timeouts!Init
<1> HIDE DEF s
<1>2. PendingTyped(s) /\ s.round \in Nat
  BY <1>1 DEF PendingTyped, Timed
<1>3. Joined(s) /\ Open(s)
  <2>1. {n \in s.pending : n.valid} = {}
    BY <1>1
  <2> QED BY <1>1, <2>1, NobodyTimedOut DEF Joined, Open
<1>4. Armed(s, elapsed)
  BY <1>1, <1>2 DEF Armed
<1> QED BY <1>1, <1>2, <1>3, <1>4 DEF TimeoutsInv, Steady, s

\* handle_timeout_message: what the message carries brings the node to the
\* round of the message or beyond, so that the assertion holds.
LEMMA TimeoutMessageStep ==
  ASSUME Timed, TimeoutsInv, NEW m \in Timeouts!Messages, Timeouts!handle_timeout_message(m)
  PROVE  TimeoutsInv'
<1> DEFINE s0 == Timeouts!State
           s1 == Timeouts!process_certificate(s0, m.extend.qc)
           s2 == Timeouts!handle_vote_message(s1, m)
           s3 == Timeouts!process_last_certificate(s2, m)
           s4 == Timeouts!process_remote_timeout(s3, m)
<1>1. Timeouts!Become(s4) /\ elapsed' = elapsed
  BY DEF Timeouts!handle_timeout_message
<1>2. m.round \in Nat /\ m.extend.qc \in Nat /\ Timeouts!CertificateExists(m)
      /\ Timeouts!well_formed_timeout(m)
  <2>1. m \in Timeouts!RawMessages /\ Timeouts!validate(m)
    BY DEF Timeouts!Messages
  <2>2. m.extend \in Timeouts!Extends /\ m.round \in Nat
    BY ZenonT(30), <2>1 DEF Timeouts!RawMessages, Timed
  <2>3. m.extend.qc \in Nat
    BY <2>2 DEF Timeouts!Extends, Timed
  <2> QED BY <2>1, <2>2, <2>3 DEF Timeouts!validate
<1>3. Steady(s1, elapsed) /\ s1.round > m.extend.qc
  BY ZenonT(30), <1>2, CertificateSteady DEF TimeoutsInv
<1> HIDE DEF s1
<1>4. Steady(s2, elapsed) /\ s2.round >= s1.round
  BY <1>2, <1>3, VoteInTimeoutSteady
<1> HIDE DEF s2
<1>5. Steady(s3, elapsed) /\ s3.round >= s2.round /\ (m.certified => s3.round > m.round - 1)
  <2>1. CASE m.certified
    <3>1. m.round - 1 \in Nat
      BY <1>2, <2>1 DEF Timeouts!CertificateExists, Timed
    <3>2. s3 = Timeouts!process_certificate(s2, m.round - 1)
      BY ZenonT(30), <2>1 DEF Timeouts!process_last_certificate
    <3> HIDE DEF s3
    <3> QED BY <1>4, <3>1, <3>2, CertificateSteady
  <2>2. CASE ~ m.certified
    <3>1. s3 = s2
      BY <2>2 DEF Timeouts!process_last_certificate
    <3> HIDE DEF s3
    <3> QED BY <1>4, <2>2, <3>1 DEF Steady
  <2> QED BY <2>1, <2>2
<1> HIDE DEF s3
<1>6. s1.round \in Nat /\ s2.round \in Nat /\ s3.round \in Nat
  BY ZenonT(30), <1>3, <1>4, <1>5 DEF Steady
<1>7. s3.round >= m.round /\ s3.round > m.extend.qc
  BY <1>2, <1>3, <1>4, <1>5, <1>6 DEF Timeouts!well_formed_timeout
<1>8. Steady(s4, elapsed)
  <2>1. CASE m.round < s3.round
    <3>1. s4 = s3
      BY <2>1 DEF Timeouts!process_remote_timeout
    <3> QED BY <1>5, <3>1
  <2>2. CASE ~ (m.round < s3.round)
    <3>1. m.round = s3.round
      BY <1>2, <1>6, <1>7, <2>2
    <3>2. s4 = Timeouts!try_create_tc(Timeouts!join_timeout(Timeouts!insert(s3, m)))
      BY <2>2, <3>1 DEF Timeouts!process_remote_timeout
    <3>3. Processed(m, s3.round)
      BY <1>7, <3>1 DEF Processed
    <3> HIDE DEF s4
    <3> QED BY <1>5, <3>2, <3>3, RemoteTimeoutSteady
  <2> QED BY <2>1, <2>2
<1>9. Timeouts!State' = s4
  <2>1. IsState(s4)
    BY <1>8 DEF Steady
  <2> HIDE DEF s4
  <2> QED BY ZenonT(30), <1>1, <2>1, BecomeState
<1> QED BY <1>1, <1>8, <1>9 DEF TimeoutsInv

LEMMA CertificateStep ==
  ASSUME Timed, TimeoutsInv, NEW r \in Nat, Timeouts!ProcessCertificate(r)
  PROVE  TimeoutsInv'
<1> DEFINE s == Timeouts!process_certificate(Timeouts!State, r)
<1>1. Timeouts!Become(s) /\ elapsed' = elapsed
  BY DEF Timeouts!ProcessCertificate
<1>2. Steady(s, elapsed)
  BY CertificateSteady DEF TimeoutsInv
<1> HIDE DEF s
<1>3. Timeouts!State' = s
  BY <1>1, <1>2, BecomeState DEF Steady
<1> QED BY <1>1, <1>2, <1>3 DEF TimeoutsInv

\* The timer elapses.
LEMMA ElapseStep == ASSUME TimeoutsInv, Timeouts!Elapse PROVE TimeoutsInv'
<1> DEFINE s == Timeouts!State
           t == Timeouts!State'
<1>1. /\ IsState(t) /\ t.round = s.round /\ t.phase = s.phase /\ t.pending = s.pending
      /\ t.timed_out = s.timed_out /\ t.tcs = s.tcs /\ t.panicked = s.panicked /\ t.timer = {}
      /\ elapsed' = elapsed \cup s.timer
  BY StateFields DEF Timeouts!Elapse, Timeouts!State, IsState
<1> HIDE DEF s, t
<1>2. Steady(s, elapsed)
  BY ZenonT(30) DEF TimeoutsInv, s
<1>3. PendingTyped(t) /\ Joined(t) /\ Open(t) /\ Armed(t, elapsed')
  BY ZenonT(30), <1>1, <1>2 DEF Steady, PendingTyped, Joined, Open, Armed
<1>4. Steady(t, elapsed')
  BY <1>1, <1>2, <1>3 DEF Steady
<1> QED BY ZenonT(30), <1>4 DEF TimeoutsInv, t

\* handle_timeout_expiry: the node's own timeout, unless the round is over.
LEMMA ExpiryStep == ASSUME TimeoutsInv, Timeouts!handle_timeout_expiry PROVE TimeoutsInv'
<1> DEFINE s == Timeouts!State
<1>1. PICK r \in elapsed :
        /\ elapsed' = elapsed \ {r}
        /\ Timeouts!Become(IF r < current_round THEN s ELSE Timeouts!local_timeout_round(s))
  BY DEF Timeouts!handle_timeout_expiry
<1>2. Steady(s, elapsed) /\ s.round = current_round
  BY ZenonT(30), StateFields DEF TimeoutsInv
<1> HIDE DEF s
<1>3. r \in Nat /\ current_round \in Nat /\ r <= current_round
  BY <1>2 DEF Steady, Armed
<1>4. CASE r < current_round
  <2>1. Timeouts!State' = s
    BY <1>1, <1>2, <1>4, BecomeState DEF Steady
  <2>2. Armed(s, elapsed \ {r})
    BY <1>2, <1>3, <1>4 DEF Steady, Armed
  <2>3. Steady(s, elapsed \ {r})
    BY <1>2, <2>2 DEF Steady
  <2> QED BY ZenonT(30), <1>1, <2>1, <2>3 DEF TimeoutsInv
<1>5. CASE ~ (r < current_round)
  <2> DEFINE t == Timeouts!local_timeout_round(s)
  <2>1. Armed([s EXCEPT !.timer = {s.round}], elapsed \ {r})
    <3>1. [s EXCEPT !.timer = {s.round}].round = s.round
          /\ [s EXCEPT !.timer = {s.round}].timer = {s.round}
      BY <1>2 DEF Steady, IsState
    <3> QED BY <1>2, <1>3, <3>1 DEF Steady, Armed
  <2>2. Steady(t, elapsed \ {r})
    BY <1>2, <2>1, LocalTimeoutSteady
  <2>3. Timeouts!Become(t)
    BY <1>1, <1>5
  <2> HIDE DEF t
  <2>4. Timeouts!State' = t
    BY <2>2, <2>3, BecomeState DEF Steady
  <2> QED BY <1>1, <2>2, <2>4 DEF TimeoutsInv
<1> QED BY <1>4, <1>5

LEMMA TimeoutsStep == ASSUME Timed PROVE TimeoutsInv /\ [Timeouts!Next]_(Timeouts!vars) => TimeoutsInv'
<1> SUFFICES ASSUME TimeoutsInv, [Timeouts!Next]_(Timeouts!vars) PROVE TimeoutsInv'
  OBVIOUS
<1>1. CASE UNCHANGED Timeouts!vars
  BY <1>1 DEF TimeoutsInv, Timeouts!vars, Timeouts!State
<1>2. CASE \E m \in Timeouts!Messages : Timeouts!handle_timeout_message(m)
  BY <1>2, TimeoutMessageStep
<1>3. CASE Timeouts!Elapse
  BY <1>3, ElapseStep
<1>4. CASE Timeouts!handle_timeout_expiry
  BY <1>4, ExpiryStep
<1>5. CASE \E r \in QcRounds \cup TcRounds : Timeouts!ProcessCertificate(r)
  BY <1>5, CertificateStep DEF Timed
<1> QED BY <1>1, <1>2, <1>3, <1>4, <1>5 DEF Timeouts!Next

LEMMA TimeoutsInvariance == ASSUME Timed PROVE Timeouts!Spec => []TimeoutsInv
BY TimeoutsInit, TimeoutsStep, PTL DEF Timeouts!Spec

\* The assertion of process_remote_timeout, that the timeout is of the current
\* round, holds: the certificates a timeout carries are processed before it.
THEOREM TimeoutsAreOfTheRound == ASSUME Timed PROVE Timeouts!Spec => []Timeouts!RoundsMatch
<1>1. TimeoutsInv => Timeouts!RoundsMatch
  BY ZenonT(30), StateFields DEF TimeoutsInv, Steady, Timeouts!RoundsMatch
<1> QED BY <1>1, TimeoutsInvariance, PTL

\* Every TC that a node builds passes the verification of every other node, for
\* any stakes, tips and messages that validate, unless faulty signers have
\* claimed a QC of its round or a later one for a tip of a later round.
THEOREM BuiltTcsVerify == ASSUME Timed PROVE Timeouts!Spec => []Timeouts!BuiltTcVerifies
<1>1. TimeoutsInv => Timeouts!BuiltTcVerifies
  BY StateFields DEF TimeoutsInv, Steady, Accepted, Timeouts!BuiltTcVerifies
<1> QED BY <1>1, TimeoutsInvariance, PTL

\* Invalid signatures do not prevent a TC: the round is over once the valid
\* timeouts of a supermajority have been received.
THEOREM TcsAreNotMissed == ASSUME Timed PROVE Timeouts!Spec => []Timeouts!NoTcMissed
<1>1. TimeoutsInv => Timeouts!NoTcMissed
  BY ZenonT(30), StateFields, TimeoutsThresholds DEF TimeoutsInv, Steady, Open, Timeouts!NoTcMissed
<1> QED BY <1>1, TimeoutsInvariance, PTL

\* A node that has timeouts of more than a third of the stake has timed out.
THEOREM NodesJoinTimeouts == ASSUME Timed PROVE Timeouts!Spec => []Timeouts!JoinsTimeout
<1>1. TimeoutsInv => Timeouts!JoinsTimeout
  BY ZenonT(30), StateFields, TimeoutsThresholds DEF TimeoutsInv, Steady, Joined, Timeouts!JoinsTimeout
<1> QED BY <1>1, TimeoutsInvariance, PTL

\* The current round has a timer or a timer event that is not handled yet.
THEOREM RoundsHaveTimers == ASSUME Timed PROVE Timeouts!Spec => []Timeouts!TimerIsArmed
<1>1. TimeoutsInv => Timeouts!TimerIsArmed
  BY StateFields DEF TimeoutsInv, Steady, Armed, Timeouts!TimerIsArmed
<1> QED BY <1>1, TimeoutsInvariance, PTL

\* All of it together: Pacemaker's CertificatesBuilt.
THEOREM TimeoutsAreCertified == ASSUME Timed PROVE Timeouts!Spec => []Timeouts!CertificatesBuilt
<1>1. /\ Timeouts!Spec => []Timeouts!RoundsMatch /\ []Timeouts!BuiltTcVerifies
      /\ Timeouts!Spec => []Timeouts!NoTcMissed
      /\ Timeouts!Spec => []Timeouts!JoinsTimeout /\ []Timeouts!TimerIsArmed
  BY TimeoutsAreOfTheRound, BuiltTcsVerify, TcsAreNotMissed, NodesJoinTimeouts, RoundsHaveTimers
<1> QED BY <1>1, PTL DEF Timeouts!CertificatesBuilt

-----------------------------------------------------------------------------
(* The circuit breaker of the archive readers: CircuitBreaker *)

CONSTANTS Callers, Kinds, FailureThreshold, RecoveryTimeout, MaxOutages
VARIABLES breaker, caller, up, outages, streak

Breaker == INSTANCE CircuitBreaker

Breakable == Kinds # {} /\ FailureThreshold \in Nat \ {0} /\ RecoveryTimeout \in Nat

\* A breaker and the failures recorded since the last success: it counts them.
Counts(b, n) ==
  /\ b \in Breaker!States /\ n \in 0..FailureThreshold /\ b.failures = n
  /\ b.state = "Closed" => b.failures < FailureThreshold

Pcs == {"free", "promote", "primary", "succeeded", "failed", "fallback"}

BreakerInv ==
  /\ breaker \in [Kinds -> Breaker!States] /\ streak \in [Kinds -> 0..FailureThreshold]
  /\ \A k \in Kinds : Counts(breaker[k], streak[k])
  /\ caller \in [Callers -> [pc : Pcs, kind : Kinds]]

LEMMA BreakerEffects ==
  ASSUME Breakable, NEW b, NEW n, Counts(b, n)
  PROVE  /\ Counts(Breaker!HalfOpen(b), n)
         /\ Counts(Breaker!record_success(b), 0) /\ (Breaker!record_success(b).state # "Open" \/ b.state = "Open")
         /\ Counts(Breaker!record_failure(b), IF n < FailureThreshold THEN n + 1 ELSE n)
         /\ b.state = "Closed" /\ Breaker!record_failure(b).state = "Open" => n + 1 = FailureThreshold
<1> USE DEF Breakable
<1>1. /\ b \in [state : {"Closed", "Open", "HalfOpen"}, failures : 0..FailureThreshold, age : 0..RecoveryTimeout]
      /\ n = b.failures /\ (b.state = "Closed" => b.failures < FailureThreshold)
  BY DEF Counts, Breaker!States
<1>2. Counts(Breaker!HalfOpen(b), n)
  BY <1>1 DEF Counts, Breaker!States, Breaker!HalfOpen
<1>3. Counts(Breaker!record_success(b), 0) /\ (Breaker!record_success(b).state # "Open" \/ b.state = "Open")
  BY <1>1 DEF Counts, Breaker!States, Breaker!record_success, Breaker!NewBreaker
<1>4. Counts(Breaker!record_failure(b), IF n < FailureThreshold THEN n + 1 ELSE n)
  <2> DEFINE c == Breaker!Counted(b)
  <2>1. c \in Breaker!States /\ c.state = b.state /\ c.failures = IF n < FailureThreshold THEN n + 1 ELSE n
    BY <1>1 DEF Breaker!States, Breaker!Counted
  <2> HIDE DEF c
  <2>2. /\ Breaker!Opened(c) \in Breaker!States /\ Breaker!Opened(c).state = "Open"
        /\ Breaker!Opened(c).failures = c.failures
    <3>1. c \in Breaker!States
      BY <2>1
    <3> DEFINE d == [c EXCEPT !.state = "Open"]
    <3>2. d \in Breaker!States
      BY <3>1 DEF Breaker!States
    <3> HIDE DEF d
    <3>3. [d EXCEPT !.age = 0] \in Breaker!States
      BY <3>2 DEF Breaker!States
    <3>4. Breaker!Opened(c) \in Breaker!States
      BY <3>1, <3>3 DEF d, Breaker!Opened, Breaker!States
    <3> QED BY <3>1, <3>4 DEF Breaker!Opened, Breaker!States
  <2>3. Breaker!record_failure(b) = IF b.state = "HalfOpen" \/ (b.state = "Closed" /\ b.failures + 1 >= FailureThreshold)
                                    THEN Breaker!Opened(c) ELSE c
    BY DEF Breaker!record_failure, c
  <2> QED BY <1>1, <2>1, <2>2, <2>3 DEF Counts
<1>5. b.state = "Closed" /\ Breaker!record_failure(b).state = "Open" => n + 1 = FailureThreshold
  BY <1>1 DEF Breaker!record_failure, Breaker!Opened, Breaker!Counted
<1> QED BY <1>2, <1>3, <1>4, <1>5

LEMMA BreakerStep ==
  ASSUME Breakable, BreakerInv, [Breaker!Next]_(Breaker!vars)
  PROVE  BreakerInv' /\ (Breaker!OpensOnStreak \/ UNCHANGED Breaker!vars)
<1>1. ASSUME NEW k \in Kinds PROVE Counts(breaker[k], streak[k])
  BY DEF BreakerInv
<1>2. ASSUME UNCHANGED <<breaker, streak>>, caller' \in [Callers -> [pc : Pcs, kind : Kinds]]
      PROVE  BreakerInv' /\ Breaker!OpensOnStreak
  BY <1>2 DEF BreakerInv, Counts, Breaker!OpensOnStreak, Breaker!States
<1>3. ASSUME NEW c \in Callers, NEW p \in Pcs, caller' = [caller EXCEPT ![c].pc = p]
      PROVE  caller' \in [Callers -> [pc : Pcs, kind : Kinds]]
  BY <1>3 DEF BreakerInv
<1>4. Breaker!Free \in [pc : Pcs, kind : Kinds]
  BY DEF Breaker!Free, Pcs, Breakable
<1>5. ASSUME NEW k \in Kinds, NEW b, NEW n, Counts(b, n), breaker' = [breaker EXCEPT ![k] = b],
             streak' = [streak EXCEPT ![k] = n], caller' \in [Callers -> [pc : Pcs, kind : Kinds]],
             breaker[k].state = "Closed" /\ b.state = "Open" => n = FailureThreshold
      PROVE  BreakerInv' /\ Breaker!OpensOnStreak
  <2>1. b \in Breaker!States /\ n \in 0..FailureThreshold
    BY <1>5 DEF Counts
  <2>2. /\ breaker'[k] = b /\ streak'[k] = n
        /\ \A j \in Kinds \ {k} : breaker'[j] = breaker[j] /\ streak'[j] = streak[j]
    BY <1>5 DEF BreakerInv
  <2>3. \A j \in Kinds : Counts(breaker'[j], streak'[j])
    BY <1>1, <1>5, <2>2
  <2>4. breaker' \in [Kinds -> Breaker!States] /\ streak' \in [Kinds -> 0..FailureThreshold]
    BY <1>5, <2>1 DEF BreakerInv
  <2>5. Breaker!OpensOnStreak
    BY <1>5, <2>2 DEF Breaker!OpensOnStreak
  <2> QED BY <1>5, <2>3, <2>4, <2>5 DEF BreakerInv, Counts, Breaker!States
<1>6. ASSUME NEW c \in Callers, Breaker!CallBlockData(c) \/ Breaker!CallIndex(c)
      PROVE  BreakerInv' /\ Breaker!OpensOnStreak
  <2>1. PICK k \in Kinds : Breaker!Call(c, k)
    BY <1>6 DEF Breaker!CallBlockData, Breaker!CallIndex
  <2>2. Breaker!ShouldUseFallback(breaker[k]) \in Pcs
    BY DEF Breaker!ShouldUseFallback, Pcs
  <2>3. caller' \in [Callers -> [pc : Pcs, kind : Kinds]]
    BY <2>1, <2>2 DEF Breaker!Call, BreakerInv
  <2> QED BY <1>2, <2>1, <2>3 DEF Breaker!Call
<1>7. ASSUME NEW c \in Callers, Breaker!Promote(c)
      PROVE  BreakerInv' /\ Breaker!OpensOnStreak
  <2> DEFINE k == caller[c].kind
             b == Breaker!HalfOpen(breaker[k])
  <2>1. k \in Kinds
    BY DEF BreakerInv
  <2>2. /\ breaker' = [breaker EXCEPT ![k] = b] /\ streak' = [streak EXCEPT ![k] = streak[k]]
        /\ caller' = [caller EXCEPT ![c].pc = "primary"]
    BY <1>7, <2>1 DEF Breaker!Promote, BreakerInv
  <2>3. Counts(b, streak[k]) /\ (breaker[k].state = "Closed" => b.state = "Closed")
    BY <1>1, <2>1, BreakerEffects DEF Breaker!HalfOpen
  <2>4. "primary" \in Pcs
    BY DEF Pcs
  <2> HIDE DEF b, k
  <2> QED BY <1>3, <1>5, <2>1, <2>2, <2>3, <2>4
<1>8. ASSUME NEW c \in Callers, Breaker!PrimaryAnswers(c) \/ Breaker!FallbackAnswers(c)
      PROVE  BreakerInv' /\ Breaker!OpensOnStreak
  <2>1. caller' \in [Callers -> [pc : Pcs, kind : Kinds]]
    BY <1>3, <1>4, <1>8 DEF Breaker!PrimaryAnswers, Breaker!FallbackAnswers, Pcs, BreakerInv
  <2> QED BY <1>2, <1>8, <2>1 DEF Breaker!PrimaryAnswers, Breaker!FallbackAnswers
<1>9. ASSUME NEW c \in Callers, Breaker!RecordSuccess(c)
      PROVE  BreakerInv' /\ Breaker!OpensOnStreak
  <2> DEFINE k == caller[c].kind
             b == Breaker!record_success(breaker[k])
  <2>1. k \in Kinds
    BY DEF BreakerInv
  <2>2. /\ breaker' = [breaker EXCEPT ![k] = b] /\ streak' = [streak EXCEPT ![k] = 0]
        /\ caller' = [caller EXCEPT ![c] = Breaker!Free]
    BY <1>9 DEF Breaker!RecordSuccess
  <2>3. Counts(b, 0) /\ (breaker[k].state = "Closed" => b.state # "Open")
    BY <1>1, <2>1, BreakerEffects
  <2>4. caller' \in [Callers -> [pc : Pcs, kind : Kinds]]
    BY <1>4, <2>2 DEF BreakerInv
  <2> HIDE DEF b, k
  <2> QED BY <1>5, <2>1, <2>2, <2>3, <2>4
<1>10. ASSUME NEW c \in Callers, Breaker!RecordFailure(c)
       PROVE  BreakerInv' /\ Breaker!OpensOnStreak
  <2> DEFINE k == caller[c].kind
             b == Breaker!record_failure(breaker[k])
             n == IF streak[k] < FailureThreshold THEN streak[k] + 1 ELSE streak[k]
  <2>1. k \in Kinds
    BY DEF BreakerInv
  <2>2. /\ breaker' = [breaker EXCEPT ![k] = b] /\ streak' = [streak EXCEPT ![k] = n]
        /\ caller' = [caller EXCEPT ![c].pc = "fallback"]
    BY <1>10 DEF Breaker!RecordFailure
  <2>3. Counts(b, n) /\ (breaker[k].state = "Closed" /\ b.state = "Open" => streak[k] + 1 = FailureThreshold)
    BY <1>1, <2>1, BreakerEffects
  <2>4. "fallback" \in Pcs
    BY DEF Pcs
  <2>5. breaker[k].state = "Closed" /\ b.state = "Open" => n = FailureThreshold
    BY <1>1, <2>1, <2>3 DEF Counts, Breakable
  <2> HIDE DEF b, k, n
  <2> QED BY <1>3, <1>5, <2>1, <2>2, <2>3, <2>4, <2>5
<1>11. CASE Breaker!GoDown \/ Breaker!ComeUp
  BY <1>2, <1>11 DEF Breaker!GoDown, Breaker!ComeUp, BreakerInv
<1>12. CASE Breaker!Tick
  <2>1. ASSUME NEW k \in Kinds
        PROVE  /\ breaker'[k] \in Breaker!States /\ breaker'[k].state = breaker[k].state
               /\ breaker'[k].failures = breaker[k].failures
    <3>1. breaker[k] \in [state : {"Closed", "Open", "HalfOpen"}, failures : 0..FailureThreshold, age : 0..RecoveryTimeout]
      BY DEF BreakerInv, Breaker!States
    <3>2. breaker'[k] = IF breaker[k].state = "Open" /\ breaker[k].age < RecoveryTimeout
                        THEN [breaker[k] EXCEPT !.age = @ + 1] ELSE breaker[k]
      BY <1>12 DEF Breaker!Tick
    <3> QED BY <3>1, <3>2 DEF Breaker!States, Breakable
  <2>2. /\ UNCHANGED <<caller, streak>> /\ breaker' = [k \in Kinds |-> breaker'[k]]
    BY <1>12 DEF Breaker!Tick
  <2>3. breaker' \in [Kinds -> Breaker!States]
    BY <2>1, <2>2
  <2>4. BreakerInv'
    BY <2>1, <2>2, <2>3 DEF BreakerInv, Counts, Breaker!States
  <2> QED BY <2>1, <2>4 DEF Breaker!OpensOnStreak
<1>13. CASE UNCHANGED Breaker!vars
  BY <1>2, <1>13 DEF Breaker!vars, BreakerInv
<1> QED
  BY <1>6, <1>7, <1>8, <1>9, <1>10, <1>11, <1>12, <1>13 DEF Breaker!Next, Breaker!Step

\* A closed breaker is below its threshold, and opens only on FailureThreshold
\* failures in a row, however the calls that share it overlap.
THEOREM BreakersOpenOnStreak ==
  ASSUME Breakable PROVE Breaker!Spec => []Breaker!TypeOK /\ [][Breaker!OpensOnStreak]_(Breaker!vars)
<1>1. Breaker!Init => BreakerInv
  BY DEF Breaker!Init, BreakerInv, Counts, Breaker!NewBreaker, Breaker!States, Breaker!Free, Breakable, Pcs
<1>2. BreakerInv /\ [Breaker!Next]_(Breaker!vars) => BreakerInv' /\ [Breaker!OpensOnStreak]_(Breaker!vars)
  BY BreakerStep
<1>3. BreakerInv => Breaker!TypeOK
  BY DEF BreakerInv, Counts, Breaker!TypeOK, Breaker!States, Pcs
<1> QED BY <1>1, <1>2, <1>3, PTL DEF Breaker!Spec
=============================================================================
