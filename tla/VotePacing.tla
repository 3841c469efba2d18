----------------------------- MODULE VotePacing -----------------------------
(***************************************************************************)
(* When a validator sends the votes it has decided on                      *)
(* (monad-consensus-state/src/lib.rs: try_vote, handle_vote_timer and      *)
(* send_vote_and_reset_timer; monad-updaters/src/timer.rs).                *)
(*                                                                         *)
(* A vote waits in scheduled_vote for a timer, so that consecutive votes   *)
(* are vote_pace apart.  The timer is armed for the next round when a vote *)
(* is sent; its event carries that round.  A timer that has elapsed cannot *)
(* be aborted any more: its event is in `elapsed` until it is handled.     *)
(*                                                                         *)
(* One node is modelled.  Votes are identified by their rounds, of which   *)
(* there is one each (MonadBFT!VoteOnce).                                  *)
(***************************************************************************)
EXTENDS Naturals

CONSTANTS
  MaxRound,     \* bound: no round above MaxRound is entered
  MaxRestarts   \* bound: number of restarts

ASSUME PacingAssumption == MaxRound \in Nat \ {0} /\ MaxRestarts \in Nat

VARIABLES
  current_round,    \* Pacemaker::get_current_round
  highest_vote,     \* Safety::highest_vote
  scheduled_vote,   \* Option<OutgoingVoteStatus>
  timer,            \* rounds of the SendVote timer: none or one
  elapsed,          \* rounds of the SendVote events to be handled
  sent,             \* the votes sent, each with the round that chose the receivers
  restarts,         \* number of restarts so far
  panicked          \* try_vote has panicked

vars == <<current_round, highest_vote, scheduled_vote, timer, elapsed, sent, restarts, panicked>>

Round == 1..MaxRound

\* OutgoingVoteStatus
NoVote       == [status |-> "None", round |-> 0]
TimerFired   == [status |-> "TimerFired", round |-> 0]
VoteReady(r) == [status |-> "VoteReady", round |-> r]

IsReady == scheduled_vote.status = "VoteReady"

\* A vote of round `vote` goes to the leaders of rounds `round` and
\* `round` + 1; `run` tells the restarts apart.
SentVote == [vote: Round, round: Round, run: 0..MaxRestarts]

Receivers(s) == {s.round, s.round + 1}

-----------------------------------------------------------------------------
\* ConsensusState::new in a node that starts in round r: the round it starts
\* in is barred, and no timer is armed.
Started(r) ==
  /\ highest_vote' = r
  /\ scheduled_vote' = NoVote
  /\ timer' = {}
  /\ elapsed' = {}

Init ==
  /\ current_round = 1
  /\ highest_vote = 1
  /\ scheduled_vote = NoVote
  /\ timer = {}
  /\ elapsed = {}
  /\ sent = {}
  /\ restarts = 0
  /\ panicked = FALSE

\* A certificate takes the node to a later round.
EnterRound ==
  /\ ~ panicked
  /\ \E r \in Round : r > current_round /\ current_round' = r
  /\ UNCHANGED <<highest_vote, scheduled_vote, timer, elapsed, sent, restarts, panicked>>

\* Safety::timeout, when the round timer fires.
LocalTimeout ==
  /\ ~ panicked
  /\ highest_vote' = current_round
  /\ UNCHANGED <<current_round, scheduled_vote, timer, elapsed, sent, restarts, panicked>>

\* send_vote_and_reset_timer: the timer of the round before, if it is still
\* running, is aborted.
send_vote_and_reset_timer(round, vote) ==
  /\ sent' = sent \cup {[vote |-> vote, round |-> round, run |-> restarts]}
  /\ timer' = {round + 1}
  /\ scheduled_vote' = NoVote

\* Safety::is_safe_to_vote and Safety::vote, what matters here.
Bad_is_safe_to_vote(r) == r >= highest_vote

is_safe_to_vote(r) == r > highest_vote

\* try_vote on a proposal of the current round whose block's parent is of
\* round `parent`: sent at once if the timer has fired or if the parent is not
\* of the previous round, else kept for the timer, in place of an older vote.
TryVote ==
  /\ ~ panicked
  /\ is_safe_to_vote(current_round)
  /\ highest_vote' = current_round
  /\ \E parent \in 0..(current_round - 1) :
       LET now == scheduled_vote.status = "TimerFired" \/ parent + 1 # current_round IN
       IF IsReady /\ scheduled_vote.round >= current_round
       THEN panicked' = TRUE /\ UNCHANGED <<sent, timer, scheduled_vote>>
       ELSE /\ UNCHANGED panicked
            /\ IF now
               THEN send_vote_and_reset_timer(current_round, current_round)
               ELSE scheduled_vote' = VoteReady(current_round) /\ UNCHANGED <<sent, timer>>
  /\ UNCHANGED <<current_round, elapsed, restarts>>

\* TokioTimer: the timer runs out, its event waits to be handled.
TimerElapses ==
  /\ timer # {}
  /\ timer' = {}
  /\ elapsed' = elapsed \cup timer
  /\ UNCHANGED <<current_round, highest_vote, scheduled_vote, sent, restarts, panicked>>

\* Fault: the event of a timer for another round than the vote's is dropped.
Bad_handle_vote_timer(round) ==
  IF IsReady
  THEN IF scheduled_vote.round = round
       THEN send_vote_and_reset_timer(round, round)
       ELSE UNCHANGED <<scheduled_vote, sent, timer>>
  ELSE scheduled_vote' = TimerFired /\ UNCHANGED <<sent, timer>>

\* handle_vote_timer
handle_vote_timer(round) ==
  IF IsReady
  THEN send_vote_and_reset_timer(round, scheduled_vote.round)
  ELSE scheduled_vote' = TimerFired /\ UNCHANGED <<sent, timer>>

HandleVoteTimer ==
  /\ ~ panicked
  /\ \E round \in elapsed :
       /\ handle_vote_timer(round)
       /\ elapsed' = elapsed \ {round}
  /\ UNCHANGED <<current_round, highest_vote, restarts, panicked>>

Restart ==
  /\ restarts < MaxRestarts
  /\ Started(current_round)
  /\ restarts' = restarts + 1
  /\ UNCHANGED <<current_round, sent, panicked>>

Next ==
  \/ EnterRound
  \/ LocalTimeout
  \/ TryVote
  \/ TimerElapses
  \/ HandleVoteTimer
  \/ Restart

Spec == Init /\ [][Next]_vars

\* What is weakly fair, by number: a timer runs out and its event is handled in
\* the end.
Fair(i) ==
  \/ i = 1 /\ TimerElapses
  \/ i = 2 /\ HandleVoteTimer

-----------------------------------------------------------------------------
(* Properties *)

\* The node, its votes and its receivers are in rounds up to the bound, and a
\* timer is at most one round beyond.
TypeOK ==
  /\ current_round \in Round
  /\ highest_vote \in Round
  /\ scheduled_vote \in {NoVote, TimerFired} \cup {VoteReady(r) : r \in Round}
  /\ timer \subseteq 1..(MaxRound + 1)
  /\ elapsed \subseteq 1..(MaxRound + 1)
  /\ sent \subseteq SentVote
  /\ restarts \in 0..MaxRestarts
  /\ panicked \in BOOLEAN

\* A vote is never scheduled on top of one of the same or a later round: the
\* panic of try_vote (lib.rs:1565) is unreachable, whatever timers are stale.
NeverReschedules == ~ panicked

\* A vote message is sent once, although the timer event, a later proposal
\* and a restart each can find the vote still scheduled.
SentOnce == \A s, t \in sent : s.vote = t.vote => s = t

\* The round of a timer never runs ahead of the vote it sends: the leaders
\* that send_vote_and_reset_timer looks up (lib.rs:1131) are those of rounds
\* up to the one after the vote's, which are known.
TimerNotAhead ==
  /\ \A s \in sent : s.round <= s.vote
  /\ \A r \in timer \cup elapsed : r <= highest_vote + 1

\* Once a vote was sent since the node started, a waiting vote always has a
\* timer, running or elapsed, that will send it.
PacedOnceSent ==
  (\E s \in sent : s.run = restarts) /\ IsReady => timer \cup elapsed # {}

\* ... so that the vote is sent, or makes way for a later one.
WaitingVoteLeaves ==
  \A r \in Round :
    (timer \cup elapsed # {} /\ scheduled_vote = VoteReady(r)) ~> (scheduled_vote # VoteReady(r))

=============================================================================
