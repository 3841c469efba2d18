--------------------------- MODULE ArchiveWorkers ---------------------------
(***************************************************************************)
(* The two long-running processes of monad-archive on one archive          *)
(* replica.  The archiver copies blocks, receipts and traces from a source *)
(* (the execution database, which forgets old blocks) into a key-value     *)
(* store, with a fallback source for what the first one lacks.  The        *)
(* indexer reads the store back and writes the transaction index and the   *)
(* logs index.  Each keeps its progress only in a marker of the store, may *)
(* be killed at any point, and runs several blocks at a time.              *)
(*                                                                         *)
(* A block is its number, a transaction <<block, position>>.  Every call   *)
(* of the store may fail, with or without its effect, as long as the       *)
(* budget of faults lasts.                                                 *)
(***************************************************************************)
EXTENDS Integers, FiniteSets, FiniteSetsExt

CONSTANTS
  MaxBlock,      \* the last block the chain reaches
  NumTxs,        \* NumTxs[b]: the number of transactions of block b
  GroupSize,     \* max_blocks_per_iteration
  Concurrency,   \* max_concurrent_blocks
  Retention,     \* how many of its latest blocks the source still has
  HasFallback,   \* is a fallback source, which has every block, configured
  SkipBad,       \* unsafe_skip_bad_blocks
  StartOverride, \* the start_block_override of the archiver: a set of at most one block
  StopOverride,  \* stop_block_override of both, or U64 for none
  U64,           \* the modulus of u64: index_worker computes err_block - 1
  Faults,        \* the kinds of fault that may happen
  MaxFaults      \* how many may happen in a run

VARIABLES source,  \* the source's latest finalized block
          sink,    \* the key-value store
          aw,      \* the archiver
          iw,      \* the indexer
          faults   \* faults left

vars == <<source, sink, aw, iw, faults>>

None == -1
Blocks == 0 .. MaxBlock
Parts == {"block", "receipts", "traces"}
Txs(b) == {<<b, i>> : i \in 1 .. NumTxs[b]}

(* archive_block writes two keys, the other parts one each *)
KeysOf(p) == IF p = "block" THEN {"block", "hash"} ELSE {p}

Idle == [b \in Blocks |-> [p \in Parts |-> "todo"]]
Unhandled == [b \in Blocks |-> "todo"]

StartedArchiver == [pc |-> "start", start |-> 0, end |-> 0, next |-> 0, done |-> 0, part |-> Idle,
                    blind |-> FALSE]  \* a ghost: the marker could not be read
StartedIndexer == [pc |-> "start", start |-> 0, end |-> 0, next |-> 0, done |-> 0, block |-> Unhandled]

Init ==
  /\ source = 0
  /\ sink = [stored |-> [k \in {"block", "hash", "receipts", "traces"} |-> {}],
             latest |-> None, latest_indexed |-> None, index |-> {}, logs |-> {},
             \* ghosts: blocks whose traces failed, transactions that bulk_put lost
             untraced |-> {}, lost |-> {}]
  /\ aw = StartedArchiver
  /\ iw = StartedIndexer
  /\ faults = MaxFaults

(* a fault of kind f happens, if it can and one is left *)
Fault(f) == f \in Faults /\ faults > 0 /\ faults' = faults - 1
NoFault == UNCHANGED faults

(* The source finalizes its next block *)
Finalize ==
  /\ source < MaxBlock
  /\ source' = source + 1
  /\ UNCHANGED <<sink, aw, iw, faults>>

SourceHas(b) == b <= source /\ b > source - Retention
Bad_Readable(b) == SourceHas(b)
Readable(b) == SourceHas(b) \/ HasFallback

-----------------------------------------------------------------------------
(* The archiver *)

(* where a worker that finds the marker m resumes: None and 0 both mean 0  *)
ResumeAt(m) == IF m \in {None, 0} THEN 0 ELSE m + 1

(* archive_worker, up to its loop: a marker that cannot be read counts as  *)
(* no marker                                                               *)
ArchiverStart ==
  /\ aw.pc = "start"
  /\ \E failed \in BOOLEAN :
       /\ IF failed THEN Fault("read_latest") /\ StartOverride = {} ELSE NoFault
       /\ \E at \in IF StartOverride # {} THEN StartOverride
                    ELSE {IF failed THEN 0 ELSE ResumeAt(sink.latest)} :
            aw' = [aw EXCEPT !.pc = "query", !.start = at, !.blind = failed]
  /\ UNCHANGED <<source, sink, iw>>

end_block(start, latest) == Min({latest, start + GroupSize - 1})

(* One turn of archive_worker's loop, up to archive_blocks *)
ArchiverQuery ==
  /\ aw.pc = "query"
  /\ aw.start <= StopOverride
  /\ aw' = IF end_block(aw.start, source) < aw.start THEN aw
           ELSE [aw EXCEPT !.pc = "group", !.next = aw.start,
                           !.end = end_block(aw.start, source), !.part = Idle]
  /\ UNCHANGED <<source, sink, iw, faults>>

(* ... it returns once it is past its stop block *)
ArchiverStop ==
  /\ aw.pc = "query" /\ aw.start > StopOverride
  /\ aw' = [aw EXCEPT !.pc = "stopped"]
  /\ UNCHANGED <<source, sink, iw, faults>>

(* the blocks a buffered stream works on *)
Window(r) == r.next .. Min({r.end, r.next + Concurrency - 1})

Put(s, ks, b) ==
  [s EXCEPT !.stored = [k \in DOMAIN @ |-> IF k \in ks THEN @[k] \cup {b} ELSE @[k]]]
Failed(s, p, b) == IF p = "traces" THEN [s EXCEPT !.untraced = @ \cup {b}] ELSE s

(* One of the three futures of archive_block finishes: it reads its part   *)
(* from the source or the fallback and puts its keys                       *)
ArchivePart(b, p) ==
  /\ aw.pc = "group" /\ b \in Window(aw) /\ aw.part[b][p] = "todo"
  /\ \/ /\ Readable(b) /\ NoFault
        /\ sink' = Put(sink, KeysOf(p), b)
        /\ aw' = [aw EXCEPT !.part[b][p] = "ok"]
     \/ /\ Readable(b) /\ Fault("put")
        /\ \E ks \in SUBSET KeysOf(p) : sink' = Failed(Put(sink, ks, b), p, b)
        /\ aw' = [aw EXCEPT !.part[b][p] = "err"]
     \/ /\ ~Readable(b) /\ NoFault
        /\ sink' = Failed(sink, p, b)
        /\ aw' = [aw EXCEPT !.part[b][p] = "err"]
  /\ UNCHANGED <<source, iw>>

(* What archive_block returns: the traces may fail *)
Bad_BlockOk(part) == part["block"] = "ok"
BlockOk(part) == part["block"] = "ok" /\ part["receipts"] = "ok"

(* what archive_blocks makes of the block that failed *)
new_latest_uploaded(e) == IF e = 0 THEN 0 ELSE e - 1

(* archive_blocks takes the next result of its stream; the first error     *)
(* drops the futures still running                                         *)
ArchiveYield ==
  /\ aw.pc = "group"
  /\ \A p \in Parts : aw.part[aw.next][p] # "todo"
  /\ aw' = IF ~BlockOk(aw.part[aw.next]) /\ ~SkipBad
             THEN [aw EXCEPT !.pc = "checkpoint", !.done = new_latest_uploaded(aw.next), !.part = Idle]
           ELSE IF aw.next = aw.end
             THEN [aw EXCEPT !.pc = "checkpoint", !.done = aw.end, !.part = Idle]
           ELSE [aw EXCEPT !.next = @ + 1, !.part[aw.next] = Idle[0]]
  /\ UNCHANGED <<source, sink, iw, faults>>

(* checkpoint_latest, whose failure is only logged, and the end of the turn *)
ArchiveCheckpoint ==
  /\ aw.pc = "checkpoint"
  /\ \/ /\ NoFault
        /\ sink' = IF aw.done = 0 THEN sink ELSE [sink EXCEPT !.latest = aw.done]
     \/ aw.done # 0 /\ Fault("checkpoint") /\ UNCHANGED sink
  /\ aw' = [aw EXCEPT !.pc = "query", !.start = ResumeAt(aw.done)]
  /\ UNCHANGED <<source, iw>>

(* The process is killed and started again *)
ArchiverKill ==
  /\ aw.pc # "start" /\ Fault("kill")
  /\ aw' = StartedArchiver
  /\ UNCHANGED <<source, sink, iw>>

-----------------------------------------------------------------------------
(* The indexer *)

IndexerStart ==
  /\ iw.pc = "start"
  /\ \E failed \in BOOLEAN :
       /\ IF failed THEN Fault("read_latest") ELSE NoFault
       /\ iw' = [iw EXCEPT !.pc = "query",
                           !.start = (IF failed THEN 0 ELSE ResumeAt(sink.latest_indexed)) % U64]
  /\ UNCHANGED <<source, sink, aw>>

(* One turn of index_worker's loop: with no uploaded marker the unwrap     *)
(* panics, the process ends and is started again                           *)
IndexerQuery ==
  /\ iw.pc = "query"
  /\ iw.start <= StopOverride
  /\ iw' = IF sink.latest = None THEN StartedIndexer
           ELSE IF end_block(iw.start, sink.latest) < iw.start THEN iw
           ELSE [iw EXCEPT !.pc = "group", !.next = iw.start,
                           !.end = end_block(iw.start, sink.latest), !.block = Unhandled]
  /\ UNCHANGED <<source, sink, aw, faults>>

IndexerStop ==
  /\ iw.pc = "query" /\ sink.latest # None /\ iw.start > StopOverride
  /\ iw' = [iw EXCEPT !.pc = "stopped"]
  /\ UNCHANGED <<source, sink, aw, faults>>

(* get_block_data_with_offsets needs all three parts *)
Indexable(b) == \A k \in Parts : b \in sink.stored[k]

(* handle_block, up to the transaction index: bulk_put answers Ok          *)
(* whatever became of its puts                                             *)
IndexTxs(b) ==
  /\ iw.pc = "group" /\ b \in Window(iw) /\ iw.block[b] = "todo"
  /\ \/ /\ Indexable(b) /\ NoFault
        /\ sink' = [sink EXCEPT !.index = @ \cup Txs(b), !.lost = @ \ Txs(b)]
        /\ iw' = [iw EXCEPT !.block[b] = "indexed"]
     \/ /\ Indexable(b) /\ Fault("index_put")
        /\ \E lost \in SUBSET Txs(b) \ {{}} :
             sink' = [sink EXCEPT !.index = @ \cup (Txs(b) \ lost),
                                  !.lost = (@ \ Txs(b)) \cup (lost \ sink.index)]
        /\ iw' = [iw EXCEPT !.block[b] = "indexed"]
     \/ /\ IF Indexable(b) THEN Fault("read") ELSE NoFault
        /\ iw' = [iw EXCEPT !.block[b] = "err"]
        /\ UNCHANGED sink
  /\ UNCHANGED <<source, aw>>

(* ... and the logs: update_one sets the fields of a transaction that is   *)
(* in the index and does nothing for one that is not                       *)
IndexLogs(b) ==
  /\ iw.pc = "group" /\ b \in Window(iw) /\ iw.block[b] = "indexed"
  /\ \/ /\ NoFault
        /\ sink' = [sink EXCEPT !.logs = @ \cup (Txs(b) \cap sink.index)]
        /\ iw' = [iw EXCEPT !.block[b] = "ok"]
     \/ /\ Fault("logs")
        /\ \E written \in SUBSET (Txs(b) \cap sink.index) :
             sink' = [sink EXCEPT !.logs = @ \cup written]
        /\ iw' = [iw EXCEPT !.block[b] = "err"]
  /\ UNCHANGED <<source, aw>>

(* what index_blocks makes of the block that failed *)
new_latest_indexed(e) == (e - 1) % U64

IndexYield ==
  /\ iw.pc = "group" /\ iw.block[iw.next] \in {"ok", "err"}
  /\ iw' = IF iw.block[iw.next] = "err"
             THEN [iw EXCEPT !.pc = "checkpoint", !.done = new_latest_indexed(iw.next), !.block = Unhandled]
           ELSE IF iw.next = iw.end
             THEN [iw EXCEPT !.pc = "checkpoint", !.done = iw.end, !.block = Unhandled]
           ELSE [iw EXCEPT !.next = @ + 1, !.block[iw.next] = "todo"]
  /\ UNCHANGED <<source, sink, aw, faults>>

IndexCheckpoint ==
  /\ iw.pc = "checkpoint"
  /\ \/ /\ NoFault
        /\ sink' = IF iw.done = 0 THEN sink ELSE [sink EXCEPT !.latest_indexed = iw.done]
     \/ iw.done # 0 /\ Fault("checkpoint") /\ UNCHANGED sink
  /\ iw' = [iw EXCEPT !.pc = "query", !.start = ResumeAt(iw.done) % U64]
  /\ UNCHANGED <<source, aw>>

IndexerKill ==
  /\ iw.pc # "start" /\ Fault("kill")
  /\ iw' = StartedIndexer
  /\ UNCHANGED <<source, sink, aw>>

-----------------------------------------------------------------------------
Archiver == \/ ArchiverStart \/ ArchiverQuery \/ ArchiverStop
            \/ \E b \in Blocks, p \in Parts : ArchivePart(b, p)
            \/ ArchiveYield \/ ArchiveCheckpoint

Indexer == \/ IndexerStart \/ IndexerQuery \/ IndexerStop
           \/ \E b \in Blocks : IndexTxs(b) \/ IndexLogs(b)
           \/ IndexYield \/ IndexCheckpoint

Next == Finalize \/ Archiver \/ ArchiverKill \/ Indexer \/ IndexerKill

Spec == Init /\ [][Next]_vars

(* what is weakly fair, by number: both are tasks of a running process, and
   the chain goes on                                                       *)
Fair(i) == \/ i = 1 /\ Finalize
           \/ i = 2 /\ Archiver
           \/ i = 3 /\ Indexer

-----------------------------------------------------------------------------
Marker == {None} \cup 0 .. U64 - 1

TypeOK ==
  /\ source \in Blocks
  /\ sink.stored \in [{"block", "hash", "receipts", "traces"} -> SUBSET Blocks]
  /\ sink.latest \in Marker /\ sink.latest_indexed \in Marker
  /\ sink.logs \subseteq sink.index /\ sink.index \subseteq UNION {Txs(b) : b \in Blocks}
  /\ aw.end \in Blocks /\ iw.end \in Blocks
  /\ aw.pc \in {"start", "query", "group", "checkpoint", "stopped"}
  /\ iw.pc \in {"start", "query", "group", "checkpoint", "stopped"}
  /\ faults \in 0 .. MaxFaults

(* Whatever was killed or failed, every block up to the "latest" marker is *)
(* in the archive with its hash entry and its receipts (archive_blocks     *)
(* advances the marker to the block before the first failure in order).    *)
(* Its traces are there too, unless archiving them failed: that is only    *)
(* logged, and the marker goes on (block_archive_worker.rs:240).           *)
UploadedComplete ==
  \A b \in 0 .. sink.latest :
    /\ \A k \in {"block", "hash", "receipts"} : b \in sink.stored[k]
    /\ b \in sink.stored["traces"] \cup sink.untraced

(* The archive never holds a block its designated source has not finalized *)
(* (README of monad-archive: the archive never gets ahead of its source),  *)
(* even where the fallback has it.                                         *)
NeverAheadOfSource == \A k \in DOMAIN sink.stored : \A b \in sink.stored[k] : b <= source

(* The "latest" marker moves back only in one case: the archiver goes on   *)
(* from it ("it only processes blocks sequentially from its latest         *)
(* marker", README of monad-archive), but one that could not read it when  *)
(* it started begins at block 0 again (block_archive_worker.rs:54).        *)
MarkerAdvances == sink'.latest >= sink.latest \/ aw.blind

(* Where the "latest_indexed" marker names a block of the chain, every     *)
(* block up to that one has all its parts, and each of its transactions is *)
(* in the index with its logs, but for those that bulk_put lost, which     *)
(* answers Ok whatever became of its puts (dynamodb.rs:67).                *)
IndexedComplete ==
  sink.latest_indexed \in Blocks =>
    \A b \in 0 .. sink.latest_indexed :
      /\ Indexable(b)
      /\ Txs(b) \ sink.lost \subseteq sink.logs

=============================================================================
