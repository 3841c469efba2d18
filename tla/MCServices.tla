----------------------------- MODULE MCServices -----------------------------
(***************************************************************************)
(* What blocks are read from, for TLC, part by part: the ledger of a node  *)
(* that does not stop, beside the one of the simulators, and the archive   *)
(* with its readers.                                                       *)
(***************************************************************************)
EXTENDS Ledger, Parts

CONSTANT RunParts   \* the parts of the run

TxCounts == [b \in 0..9 |-> IF b = 2 THEN 2 ELSE 1]

Archive == INSTANCE ArchiveWorkers WITH
  MaxBlock <- 2, NumTxs <- TxCounts, GroupSize <- 2, Concurrency <- 2, Retention <- 9,
  HasFallback <- FALSE, SkipBad <- FALSE, StartOverride <- {}, StopOverride <- 16,
  U64 <- 16, MaxFaults <- 2,
  Faults <- {"put", "checkpoint", "kill", "read", "logs", "index_put", "read_latest"},
  source <- v1, sink <- v2, aw <- v3, iw <- v4, faults <- v5

Fallback == INSTANCE ArchiveWorkers WITH
  MaxBlock <- 2, NumTxs <- TxCounts, GroupSize <- 2, Concurrency <- 2, Retention <- 1,
  HasFallback <- TRUE, SkipBad <- TRUE, StartOverride <- {0}, StopOverride <- 1, U64 <- 16,
  Faults <- {"put", "kill"}, MaxFaults <- 1,
  source <- v1, sink <- v2, aw <- v3, iw <- v4, faults <- v5

Breaker == INSTANCE CircuitBreaker WITH
  Callers <- {"c1", "c2", "c3"}, Kinds <- {"block", "index"}, FailureThreshold <- 2,
  RecoveryTimeout <- 1, MaxOutages <- 1,
  breaker <- v1, caller <- v2, up <- v3, outages <- v4, streak <- v5

everything == <<all, vars>>

AllInit ==
  /\ part \in RunParts
  /\ Init
  /\ \/ part = "ledger" /\ v1 = 0 /\ idle2
     \/ part = "archive" /\ Archive!Init /\ idle6
     \/ part = "archive_fallback" /\ Fallback!Init /\ idle6
     \/ part = "breaker" /\ Breaker!Init /\ idle6

AllNext ==
  \/ part = "ledger" /\ Next /\ UNCHANGED all
  \/ part = "archive" /\ Archive!Next /\ UNCHANGED <<part, rest6, vars>>
  \/ part = "archive_fallback" /\ Fallback!Next /\ UNCHANGED <<part, rest6, vars>>
  \/ part = "breaker" /\ Breaker!Next /\ UNCHANGED <<part, rest6, vars>>
  \/ Rest({"archive", "archive_fallback", "breaker"}) /\ UNCHANGED vars

AllSpec == AllInit /\ [][AllNext]_everything

(* Whatever was killed or failed, every block up to the "latest" marker is in
   the archive with its hash entry and receipts, and with its traces unless
   archiving them failed, which is only logged; every transaction up to the
   "latest_indexed" marker, where it names a block, is in the index with its
   logs unless bulk_put lost it, which answers Ok; and the archive never holds a block its source has
   not finalized, even where the fallback has it. *)
ArchiveComplete ==
  /\ part = "archive" => Archive!TypeOK /\ Archive!UploadedComplete /\ Archive!IndexedComplete
  /\ part = "archive_fallback" => Fallback!NeverAheadOfSource
  /\ part = "breaker" => Breaker!TypeOK

(* What no step may do: move the "latest" marker of the archive back ("it only
   processes blocks sequentially from its latest marker", README of
   monad-archive), unless the archiver could not read the marker when it
   started and began at block 0 again (block_archive_worker.rs:54); or open a closed breaker without FailureThreshold
   failures recorded in a row. *)
ServiceSteps == [][
  /\ part = "archive" => Archive!MarkerAdvances
  /\ part = "breaker" => Breaker!OpensOnStreak]_all
=============================================================================
