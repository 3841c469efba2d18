----------------------------- MODULE MockLedger -----------------------------
(***************************************************************************)
(* The in-memory ledgers of the simulators, MockEthLedger and MockLedger:  *)
(* the blocks consensus proposed, the ones it finalized, and the queue of  *)
(* answers to block-sync's fetches.  They say what a ledger promises; the  *)
(* module Ledger, the one of a node, is shown to implement it.             *)
(***************************************************************************)
EXTENDS Integers, Sequences, FiniteSets

CONSTANTS
  Ids,                \* block ids
  ParentOf, SeqNumOf, \* their parents (ids, or "genesis") and sequence numbers
  BodyOf,             \* their body ids; two blocks may share a body
  Ranges,             \* the header ranges that are asked for: [last, num]
  FinalizationDelay,  \* finalization_delay of MockLedger, 0 in MockEthLedger
  MaxEvents           \* bound: fetches that wait for their answer

VARIABLES blocks,     \* the ids of the proposed blocks
          finalized,  \* the finalized blocks, as pairs [seq, id]
          events      \* answers not yet polled

mockvars == <<blocks, finalized, events>>

Bodies == {BodyOf[b] : b \in Ids}

MockInit == blocks = {} /\ finalized = {} /\ events = <<>>

(* the n-th ancestor of a block *)
Ancestor(b, n) == LET f[i \in 0 .. n] == IF i = 0 THEN b
                                         ELSE IF f[i - 1] = "genesis" THEN "genesis" ELSE ParentOf[f[i - 1]]
                  IN f[n]

(* get_headers: the headers from the oldest to the last, or none *)
get_headers(have, r) ==
  IF \A i \in 0 .. r.num - 1 : Ancestor(r.last, i) \in have
    THEN [found |-> TRUE, ask |-> r, answer |-> [i \in 1 .. r.num |-> Ancestor(r.last, r.num - i)]]
    ELSE [found |-> FALSE, ask |-> r, answer |-> <<>>]

get_payload(have, p) == [found |-> p \in {BodyOf[b] : b \in have}, ask |-> p]

MockPropose(b) ==
  /\ blocks' = blocks \cup {b}
  /\ UNCHANGED <<finalized, events>>

(* Finalized: the ancestor FinalizationDelay blocks back is committed, if  *)
(* all the blocks down to it are there                                     *)
MockFinalize(b) ==
  /\ finalized' =
       IF /\ SeqNumOf[b] > FinalizationDelay
          /\ \A i \in 1 .. FinalizationDelay : Ancestor(b, i) \in blocks
         THEN {f \in finalized : f.seq # SeqNumOf[b] - FinalizationDelay}
                \cup {[seq |-> SeqNumOf[b] - FinalizationDelay, id |-> Ancestor(b, FinalizationDelay)]}
         ELSE finalized
  /\ UNCHANGED <<blocks, events>>

MockFetchHeaders(r) ==
  /\ Len(events) < MaxEvents
  /\ events' = Append(events, get_headers(blocks, r))
  /\ UNCHANGED <<blocks, finalized>>

MockFetchPayload(p) ==
  /\ Len(events) < MaxEvents
  /\ events' = Append(events, get_payload(blocks, p))
  /\ UNCHANGED <<blocks, finalized>>

MockPoll ==
  /\ events # <<>>
  /\ events' = Tail(events)
  /\ UNCHANGED <<blocks, finalized>>

MockNext ==
  \/ \E b \in Ids : MockPropose(b) \/ MockFinalize(b)
  \/ \E r \in Ranges : MockFetchHeaders(r)
  \/ \E p \in Bodies : MockFetchPayload(p)
  \/ MockPoll

MockSpec == MockInit /\ [][MockNext]_mockvars
=============================================================================
