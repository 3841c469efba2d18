--------------------------- MODULE ConsensusState ---------------------------
(***************************************************************************)
(* The event handlers of one validator                                     *)
(* (monad-consensus-state/src/lib.rs on top of                             *)
(* monad-consensus/src/pacemaker.rs), as operators that map the state of   *)
(* the node before an event to the SET of states it may be in after it.    *)
(* The set has more than one element where the handler depends on what     *)
(* this module does not hold: the block tree and execution decide whether  *)
(* a block is valid, coherent and timely, and the vote and timeout         *)
(* collections decide when a supermajority is complete.                    *)
(*                                                                         *)
(* A node remembers everything it has signed (votes, timeouts,             *)
(* no_endorsements, proposals, recoveries): the network may deliver any of *)
(* it, at any later time, any number of times or never.  A vote counts as  *)
(* sent when it is signed; the vote-pacing timer only delays it.           *)
(***************************************************************************)
EXTENDS Safety

CONSTANT Leader         \* election.get_leader, as a function of the round

Vote == [round: Nat, id: Block]

TimeoutMessage ==
  [round: Nat, high_extend: HighExtend, last_round_certificate: RoundCertificate \cup {None}]

NoEndorsement == [round: Nat, tip_qc_round: Nat]

ProposalMessage == [proposal_round: Nat, tip: Block, last_round_tc: RoundCertificate \cup {None}]

\* NoEndorsementState: the certificates built and not yet cleaned up.
NoEndorsementState == [earliest_round: Nat, certificates: SUBSET NoEndorsement]

\* ConsensusState, with the pacemaker's high_certificate; `panicked` is set
\* where an assertion of the code fails.
NodeState ==
  [high_certificate:     RoundCertificate,
   safety:               SafetyState,
   no_endorsement_state: NoEndorsementState,
   votes:                SUBSET Vote,
   timeouts:             SUBSET TimeoutMessage,
   no_endorsements:      SUBSET NoEndorsement,
   proposals:            SUBSET ProposalMessage,
   recoveries:           SUBSET RoundCertificate,
   panicked:             BOOLEAN]

\* Pacemaker::get_current_round
get_current_round(ns) == ns.high_certificate.round + 1

\* phase == PhaseHonest::One: the node has timed out its current round.
TimedOut(ns) == \E m \in ns.timeouts : m.round = get_current_round(ns)

Panic(ns) == [ns EXCEPT !.panicked = TRUE]

-----------------------------------------------------------------------------
(* Pacemaker *)

\* Pacemaker::process_certificate
PacemakerProcessCertificate(ns, cert) ==
  IF cert.round <= ns.high_certificate.round
  THEN ns
  ELSE [ns EXCEPT !.safety = SafetyProcessCertificate(@, cert),
                  !.high_certificate = cert]

Bad_timeout_no_certificate(ns) ==
  LET tip == ns.safety.maybe_high_tip IN
  [round                  |-> get_current_round(ns),
   high_extend            |-> IF tip = None THEN ExtendQc(ns.high_certificate.high_extend.qc)
                                            ELSE ExtendTip(tip),
   last_round_certificate |-> None]

\* The timeout of the current round: Pacemaker::local_timeout_round and
\* Timeout::new.
TimeoutOf(ns) ==
  LET tip == ns.safety.maybe_high_tip
      he  == IF tip = None THEN ExtendQc(ns.high_certificate.high_extend.qc)
                           ELSE ExtendTip(tip)
  IN  [round                  |-> get_current_round(ns),
       high_extend            |-> he,
       last_round_certificate |->
          IF he.qc.round + 1 = get_current_round(ns) THEN None ELSE ns.high_certificate]

\* Pacemaker::local_timeout_round: a timeout that carries a tip also carries
\* a vote for it in the round that times out.
LocalTimeout(ns) ==
  LET m == TimeoutOf(ns) IN
  IF ~ is_safe_to_timeout(ns.safety, m.round)
  THEN Panic(ns)
  ELSE [ns EXCEPT
          !.safety   = SafetyTimeout(@, m.round),
          !.timeouts = @ \cup {m},
          !.votes    = IF m.high_extend.tip = None THEN @
                       ELSE @ \cup {[round |-> m.round, id |-> m.high_extend.tip]}]

\* Pacemaker::process_remote_timeout for the timeout t.  `honest`: the pending
\* timeouts may include one of an honest node; `tcs`: what TimeoutCertificate
\* ::new may return for a supermajority of them.
RemoteTimeout(ns, t, honest, tcs) ==
  CASE t.round < get_current_round(ns) -> {ns}
    [] t.round > get_current_round(ns) -> {Panic(ns)}
    [] OTHER ->
       LET amplified == {ns} \cup (IF honest /\ ~ TimedOut(ns) THEN {LocalTimeout(ns)} ELSE {})
           certified(x) == {PacemakerProcessCertificate(x, tc) : tc \in tcs}
       IN  amplified \cup UNION {certified(x) : x \in {y \in amplified : TimedOut(y)}}

-----------------------------------------------------------------------------
(* Proposing *)

Propose(ns, tip, tc) ==
  LET r == get_current_round(ns) IN
  [ns EXCEPT !.safety = SafetyPropose(@, r),
             !.proposals = @ \cup {[proposal_round |-> r, tip |-> tip, last_round_tc |-> tc]}]

RequestRecovery(ns, tc) ==
  [ns EXCEPT !.safety = SafetyRecoveryRequest(@, get_current_round(ns)),
             !.recoveries = @ \cup {tc}]

\* ConsensusState::try_propose: repropose the tip of a TC, or ask for
\* no-endorsements of it while it is not coherent; propose a fresh block on
\* the QC otherwise, once the block tree and execution are ready.
try_propose(n, ns) ==
  LET r    == get_current_round(ns)
      cert == ns.high_certificate
      nec  == \E c \in ns.no_endorsement_state.certificates : c.round = r
      tc   == IF cert.kind = "Tc" THEN cert ELSE None
  IN  IF Leader[r] # n \/ ~ is_safe_to_propose(ns.safety, r) THEN {ns}
      ELSE IF cert.high_extend.tip # None /\ ~ nec
      THEN {Propose(ns, cert.high_extend.tip, tc),
            IF is_safe_to_recovery_request(ns.safety, r) THEN RequestRecovery(ns, tc) ELSE ns}
      ELSE {ns} \cup {Propose(ns, b, tc) :
                        b \in {x \in Block : BlockRound[x] = r /\ BlockQc[x] = cert.high_extend.qc}}

-----------------------------------------------------------------------------
(* Certificates *)

\* NoEndorsementState::start_new_round
start_new_round(nes, r) ==
  [earliest_round |-> r, certificates |-> {c \in nes.certificates : c.round >= r}]

\* ConsensusState::process_qc
process_qc(n, ns, qc) ==
  IF qc.round < get_current_round(ns) THEN {ns}
  ELSE LET x == PacemakerProcessCertificate(ns, QcCert(qc)) IN
       try_propose(n, [x EXCEPT !.no_endorsement_state = start_new_round(@, get_current_round(x))])

\* ConsensusState::process_tc
process_tc(n, ns, tc) ==
  IF tc.round < get_current_round(ns) THEN {ns}
  ELSE try_propose(n, PacemakerProcessCertificate(ns, tc))

\* An optional certificate of the previous round.
process_optional(n, ns, cert) ==
  IF cert = None THEN {ns}
  ELSE IF cert.kind = "Qc" THEN process_qc(n, ns, cert.high_extend.qc)
  ELSE process_tc(n, ns, cert)

-----------------------------------------------------------------------------
(* Handlers *)

\* handle_timeout_expiry
handle_timeout_expiry(ns) == {LocalTimeout(ns)}

\* last_round_tc_tip of try_vote
TcTip(tc) == IF tc = None THEN None ELSE tc.high_extend.tip

\* try_vote for the proposal p, whose block is coherent and timely
try_vote(ns, p) ==
  LET r == get_current_round(ns) IN
  IF ~ is_safe_to_vote(ns.safety, r, TcTip(p.last_round_tc)) THEN ns
  ELSE [ns EXCEPT !.safety = SafetyVote(@, r, p.tip),
                  !.votes  = @ \cup {[round |-> r, id |-> p.tip]}]

\* try_add_and_commit_blocktree for the proposal p: the vote is taken only in
\* the proposal's own round, and only if the block is coherent.
try_add_and_vote(n, ns, p) ==
  LET voted == IF p.proposal_round = get_current_round(ns) THEN {try_vote(ns, p)} ELSE {}
  IN  UNION {try_propose(n, x) : x \in {ns} \cup voted}

\* handle_proposal_message, once its certificates are processed: ns itself
\* is the outcome when validate_block rejects the block.
accept_proposal(n, ns, author, p) ==
  LET handled == [ns EXCEPT !.safety = SafetyHandleProposal(@, p.proposal_round)] IN
  IF \/ p.proposal_round > get_current_round(ns)
     \/ author # Leader[p.proposal_round]
     \/ ~ is_safe_to_handle_proposal(ns.safety, p.proposal_round)
  THEN {ns}
  ELSE {handled} \cup try_add_and_vote(n, handled, p)

\* handle_proposal_message
handle_proposal_message(n, ns, author, p) ==
  LET afterQc == process_qc(n, ns, BlockQc[p.tip])
      afterTc == UNION {process_optional(n, x, p.last_round_tc) : x \in afterQc}
  IN  UNION {accept_proposal(n, x, author, p) : x \in afterTc}

\* handle_vote_message for a vote of `round`; `qcs` are the certificates the
\* collected votes may complete.
handle_vote_message(n, ns, round, qcs) ==
  IF round < get_current_round(ns) THEN {ns}
  ELSE {ns} \cup UNION {UNION {try_propose(n, x) : x \in process_qc(n, ns, qc)} : qc \in qcs}

\* Fault: the certificate of the previous round is not processed.
Bad_handle_timeout_message(n, ns, t, qcs, honest, tcs) ==
  IF t.round < get_current_round(ns) THEN {ns}
  ELSE UNION {try_propose(n, x) :
                x \in UNION {RemoteTimeout(y, t, honest, tcs) : y \in process_qc(n, ns, t.high_extend.qc)}}

\* handle_timeout_message for the timeout t of another node.
handle_timeout_message(n, ns, t, qcs, honest, tcs) ==
  LET afterQc   == process_qc(n, ns, t.high_extend.qc)
      afterVote == IF t.high_extend.tip = None THEN afterQc
                   ELSE UNION {handle_vote_message(n, x, t.round, qcs) : x \in afterQc}
      afterRc   == UNION {process_optional(n, x, t.last_round_certificate) : x \in afterVote}
      collected == UNION {RemoteTimeout(x, t, honest, tcs) : x \in afterRc}
  IN  IF t.round < get_current_round(ns) THEN {ns}
      ELSE UNION {try_propose(n, x) : x \in collected}

no_endorse(ns, tip) ==
  LET r == get_current_round(ns) IN
  [ns EXCEPT !.safety = SafetyNoEndorse(@, r, tip),
             !.no_endorsements = @ \cup {[round |-> r, tip_qc_round |-> BlockQc[tip].round]}]

\* handle_round_recovery_message: the tip of the TC is no-endorsed unless it
\* is coherent and timely, in which case the request is ignored.
handle_round_recovery_message(n, ns, author, tc) ==
  LET Respond(x) ==
        IF /\ tc.round + 1 = get_current_round(x)
           /\ author = Leader[get_current_round(x)]
           /\ is_safe_to_no_endorse(x.safety, tc.round + 1)
        THEN {x, no_endorse(x, tc.high_extend.tip)}
        ELSE {x}
  IN  UNION {Respond(x) : x \in process_tc(n, ns, tc)}

\* handle_no_endorsement_message for the no-endorsement ne that completes a
\* supermajority.
handle_no_endorsement_message(n, ns, ne) ==
  LET nes == ns.no_endorsement_state
      built == [ns EXCEPT !.no_endorsement_state =
                  [earliest_round |-> ne.round + 1, certificates |-> @.certificates \cup {ne}]]
  IN  IF ne.round < get_current_round(ns) \/ ne.round < nes.earliest_round THEN {ns}
      ELSE IF \E c \in nes.certificates : c.round = ne.round THEN {Panic(ns)}
      ELSE try_propose(n, built)

\* handle_advance_round_message
handle_advance_round_message(n, ns, cert) == process_optional(n, ns, cert)

-----------------------------------------------------------------------------
\* MonadState::maybe_start_consensus: ConsensusState::new from the certificate
\* of the forkpoint, followed by a timeout of the current round.
StartConsensus(ns, cert) ==
  LocalTimeout(
    [ns EXCEPT !.high_certificate = cert,
               !.safety = NewSafety(cert),
               !.no_endorsement_state =
                  [earliest_round |-> cert.round + 1, certificates |-> {}]])

\* A node that has never signed anything.
Unstarted ==
  [high_certificate     |-> QcCert(genesis_qc),
   safety               |-> NewSafety(QcCert(genesis_qc)),
   no_endorsement_state |-> [earliest_round |-> 1, certificates |-> {}],
   votes |-> {}, timeouts |-> {}, no_endorsements |-> {}, proposals |-> {},
   recoveries |-> {}, panicked |-> FALSE]
-----------------------------------------------------------------------------
(* What every handler preserves of the state of its node.  The properties  *)
(* of MonadBFT follow from it, and its proof looks at one node at a time.   *)

\* A vote is never in the genesis round or above highest_vote, there is one
\* per round, and the tip that a timeout of the current round would vote for is
\* what was voted for.
VoteInv(ns) ==
  LET r == get_current_round(ns)
      tip == ns.safety.maybe_high_tip
  IN  /\ ns.safety.highest_vote <= r
      /\ \A v \in ns.votes : GENESIS_ROUND < v.round /\ v.round <= ns.safety.highest_vote
      /\ \A v, w \in ns.votes : v.round = w.round => v = w
      /\ \A v \in ns.votes : v.round = r /\ tip # None => v.id = tip

\* A timeout ends voting in its round, but for the vote it carries.
TimeoutInv(ns) ==
  LET r == get_current_round(ns)
      tip == ns.safety.maybe_high_tip
  IN  \A t \in ns.timeouts :
        /\ t.round <= ns.safety.highest_vote
        /\ t.round = r /\ tip # None => [round |-> r, id |-> tip] \in ns.votes

\* One proposal per round, none above highest_propose.
ProposeInv(ns) ==
  /\ ns.safety.highest_propose <= get_current_round(ns)
  /\ \A p \in ns.proposals : p.proposal_round <= ns.safety.highest_propose
  /\ \A p, q \in ns.proposals : p.proposal_round = q.proposal_round => p = q

\* A no-endorsement certificate of the current round is below earliest_round,
\* and recovery is requested for rounds that were entered.
RecoveryInv(ns) ==
  /\ \A c \in ns.no_endorsement_state.certificates :
       /\ c.round <= get_current_round(ns)
       /\ c.round = get_current_round(ns) => c.round < ns.no_endorsement_state.earliest_round
  /\ \A tc \in ns.recoveries : tc.round < get_current_round(ns)

\* A certificate built by QcCert or by TcCert.
WellFormed(cert) == cert.kind = "Qc" => cert = QcCert(cert.high_extend.qc)

NodeInv(ns) ==
  /\ ns \in NodeState
  /\ WellFormed(ns.high_certificate)
  /\ VoteInv(ns)
  /\ TimeoutInv(ns)
  /\ ProposeInv(ns)
  /\ RecoveryInv(ns)
  /\ ~ ns.panicked

\* x comes after ns: the round does not fall, what was signed stays signed,
\* no vote is added to a round that was timed out, and no-endorsements are
\* added for rounds in R only.
Grows(ns, x, R) ==
  /\ get_current_round(ns) <= get_current_round(x)
  /\ ns.votes \subseteq x.votes
  /\ ns.timeouts \subseteq x.timeouts
  /\ \A v \in x.votes \ ns.votes : \A t \in ns.timeouts : t.round # v.round
  /\ \A ne \in x.no_endorsements \ ns.no_endorsements : ne.round \in R
=============================================================================
