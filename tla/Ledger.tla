------------------------------- MODULE Ledger -------------------------------
(***************************************************************************)
(* The ledger of a node, MonadBlockFileLedger: every proposed block is     *)
(* written as a body file and a header file (FileBlockPersist), kept in a  *)
(* bounded cache, and the symbolic links proposed_head and finalized_head  *)
(* follow consensus.  Block-sync fetches headers and bodies from the cache *)
(* or from disk.                                                           *)
(*                                                                         *)
(* A command is carried out in one go, but the process may stop between    *)
(* any two of its calls of the file system, and starts again with the      *)
(* files as they are.  A file is created empty and then filled.            *)
(***************************************************************************)
EXTENDS Integers, Sequences, FiniteSets, Functions

CONSTANTS
  Ids, ParentOf, SeqNumOf, BodyOf, Ranges, MaxEvents,  \* as in MockLedger
  RoundOf,         \* rounds; two proposals of one round are possible
  BlockCacheSize,  \* block_cache_size
  MaxNumHeaders,   \* BLOCKSYNC_MAX_NUM_HEADERS
  StopPoints,      \* the points of a command at which the process may stop
  MaxStops         \* how often it stops

ASSUME LedgerAssumption ==
  /\ "none" \notin Ids /\ "genesis" \notin Ids
  /\ RoundOf \in [Ids -> Nat]
  /\ SeqNumOf \in [Ids -> Nat \ {0}]
  /\ BlockCacheSize \in Nat \ {0}
  /\ MaxStops \in Nat

VARIABLES l  \* the ledger: files, links, caches, and the command under way

Files == {"none", "empty", "full"}
None == "none"

Init == l =
  [body |-> [p \in {BodyOf[b] : b \in Ids} |-> "none"],
   header |-> [b \in Ids |-> "none"],
   head |-> [h \in {"proposed", "finalized"} |-> None],
   wip |-> [h \in {"proposed", "finalized"} |-> None],
   cache |-> {}, payloads |-> {}, index |-> <<>>,
   events |-> <<>>, pc |-> "idle", cmd |-> None, failed |-> FALSE,
   done |-> {}, finalized |-> {}, stops |-> MaxStops]

Idle(r) == r.pc = "idle" /\ ~r.failed

-----------------------------------------------------------------------------
(* FileBlockPersist *)

(* write_bft_body, write_bft_header: an existing file is only touched;     *)
(* otherwise it is created, and filled by the next step                    *)
Create(f) == IF f = "none" THEN "empty" ELSE f
Fill(f, r) == IF r.cmd.fresh THEN "full" ELSE f

(* update_cache *)
Displaced(r, b) ==
  IF RoundOf[b] \in DOMAIN r.index THEN {r.index[RoundOf[b]]} ELSE {}

Dropped(r, out) == [r EXCEPT !.cache = @ \ out, !.payloads = @ \ {BodyOf[b] : b \in out}]

Indexed(r, b) == [r EXCEPT !.index = [i \in DOMAIN @ \cup {RoundOf[b]} |-> IF i = RoundOf[b] THEN b ELSE @[i]]]

Lowest(S) == CHOOSE i \in S : \A j \in S : i <= j

Evicted(r) ==
  IF Cardinality(DOMAIN r.index) > BlockCacheSize
    THEN Dropped([r EXCEPT !.index = Restrict(@, DOMAIN @ \ {Lowest(DOMAIN @)})],
                 {r.index[Lowest(DOMAIN r.index)]})
    ELSE r

Inserted(r, b) == [r EXCEPT !.payloads = @ \cup {BodyOf[b]}, !.cache = @ \cup {b}]

update_cache(r, b) == Inserted(Evicted(Indexed(Dropped(r, Displaced(r, b)), b)), b)

(* ledger_fetch_headers: NotAvailable for too long a range or a block that *)
(* is neither in the cache nor on disk                                     *)
Ancestor(b, n) == LET f[i \in 0 .. n] == IF i = 0 THEN b
                                         ELSE IF f[i - 1] = "genesis" THEN "genesis" ELSE ParentOf[f[i - 1]]
                  IN f[n]

Bad_HasHeader(r, b) == b \in r.cache
HasHeader(r, b) == b \in r.cache \/ (b \in Ids /\ r.header[b] = "full")

fetch_headers(r, q) ==
  IF q.num <= MaxNumHeaders /\ \A i \in 0 .. q.num - 1 : HasHeader(r, Ancestor(q.last, i))
    THEN [found |-> TRUE, ask |-> q, answer |-> [i \in 1 .. q.num |-> Ancestor(q.last, q.num - i)]]
    ELSE [found |-> FALSE, ask |-> q, answer |-> <<>>]

fetch_payload(r, p) == [found |-> p \in r.payloads \/ r.body[p] = "full", ask |-> p]

(* read_bft_header and read_bft_body decode what they find and expect it   *)
(* to be whole: a fetch that meets an empty file ends the process          *)
Unreadable(r, b) == b \in Ids \ r.cache /\ r.header[b] = "empty"
HeadersPanic(r, q) ==
  /\ q.num <= MaxNumHeaders
  /\ \E i \in 0 .. q.num - 1 : /\ Unreadable(r, Ancestor(q.last, i))
                               /\ \A j \in 0 .. i - 1 : HasHeader(r, Ancestor(q.last, j))

-----------------------------------------------------------------------------
(* The commands of consensus *)

(* Consensus proposes children of blocks it has not finalized past: a      *)
(* proposal is never older than every round of a full cache                *)
InReach(b) == Cardinality(DOMAIN l.index) = BlockCacheSize => RoundOf[b] >= Lowest(DOMAIN l.index)

(* LedgerCommit(Proposed): the steps of the command in order *)
Bad_Propose(b) ==
  /\ Idle(l) /\ InReach(b)
  /\ l' = [l EXCEPT !.pc = "link", !.cmd = [id |-> b, fresh |-> FALSE]]
Propose(b) ==
  /\ Idle(l) /\ InReach(b)
  /\ l' = [l EXCEPT !.pc = "body", !.cmd = [id |-> b, fresh |-> l.body[BodyOf[b]] = "none"],
                    !.body[BodyOf[b]] = Create(@)]

WriteBody ==
  /\ l.pc = "body"
  /\ l' = [l EXCEPT !.pc = "header", !.body[BodyOf[l.cmd.id]] = Fill(@, l)]

CreateHeader ==
  /\ l.pc = "header"
  /\ l' = [l EXCEPT !.pc = "header2", !.cmd.fresh = l.header[l.cmd.id] = "none",
                    !.header[l.cmd.id] = Create(@)]

WriteHeader ==
  /\ l.pc = "header2"
  /\ l' = [update_cache(l, l.cmd.id) EXCEPT !.pc = "link", !.header[l.cmd.id] = Fill(@, l),
                                            !.done = @ \cup {l.cmd.id}]

(* update_proposed_head, update_finalized_head: a link under another name, *)
(* which must not exist yet, is renamed over the old one                   *)
Link(h) == IF h = "finalized" THEN "flink" ELSE "link"
Rename(h) == IF h = "finalized" THEN "frename" ELSE "rename"

MakeLink(h) ==
  /\ l.pc = Link(h)
  /\ l' = IF l.wip[h] # None THEN [l EXCEPT !.failed = TRUE]
          ELSE [l EXCEPT !.pc = Rename(h), !.wip[h] = l.cmd.id]
  /\ ~l.failed

RenameLink(h) ==
  /\ l.pc = Rename(h)
  /\ l' = [l EXCEPT !.pc = "idle", !.cmd = None, !.head[h] = l.wip[h], !.wip[h] = None]

(* LedgerCommit(Finalized), for a block that was proposed before *)
Finalize(b) ==
  /\ Idle(l) /\ b \in l.done
  /\ l' = [l EXCEPT !.pc = "flink", !.cmd = [id |-> b, fresh |-> FALSE],
                    !.finalized = {f \in @ : f.seq # SeqNumOf[b]} \cup {[seq |-> SeqNumOf[b], id |-> b]}]

FetchHeaders(q) ==
  /\ Idle(l) /\ Len(l.events) < MaxEvents
  /\ l' = IF HeadersPanic(l, q) THEN [l EXCEPT !.failed = TRUE]
          ELSE [l EXCEPT !.events = Append(@, fetch_headers(l, q))]

FetchPayload(p) ==
  /\ Idle(l) /\ Len(l.events) < MaxEvents
  /\ l' = IF p \notin l.payloads /\ l.body[p] = "empty" THEN [l EXCEPT !.failed = TRUE]
          ELSE [l EXCEPT !.events = Append(@, fetch_payload(l, p))]

(* poll_next *)
Poll ==
  /\ Idle(l) /\ l.events # <<>>
  /\ l' = [l EXCEPT !.events = Tail(@)]

(* The process stops, from outside or by a panic, and starts: only the     *)
(* files are left                                                          *)
Started(r, n) ==
  [body |-> r.body, header |-> r.header, head |-> r.head, wip |-> r.wip,
   cache |-> {}, payloads |-> {}, index |-> <<>>,
   events |-> <<>>, pc |-> "idle", cmd |-> None, failed |-> FALSE,
   done |-> r.done, finalized |-> r.finalized, stops |-> n]

Stop == /\ ~l.failed /\ l.stops > 0 /\ l.pc \in StopPoints
        /\ l' = Started(l, l.stops - 1)

Restart == l.failed /\ l' = Started(l, l.stops)

Next ==
  \/ \E b \in Ids : Propose(b) \/ Finalize(b)
  \/ WriteBody \/ CreateHeader \/ WriteHeader
  \/ \E h \in {"proposed", "finalized"} : MakeLink(h) \/ RenameLink(h)
  \/ \E q \in Ranges : FetchHeaders(q)
  \/ \E p \in DOMAIN l.body : FetchPayload(p)
  \/ Poll \/ Stop \/ Restart

vars == l

Spec == Init /\ [][Next]_vars

-----------------------------------------------------------------------------
TypeOK ==
  /\ \A p \in DOMAIN l.body : l.body[p] \in Files
  /\ \A b \in Ids : l.header[b] \in Files
  /\ l.cache \subseteq Ids /\ Cardinality(DOMAIN l.index) <= BlockCacheSize
  /\ \A h \in DOMAIN l.head : l.head[h] \in Ids \cup {None}

(* What a stop may leave behind: a file that was created and never filled, *)
(* or a link under the other name.  None of it is ever repaired: the       *)
(* writers only touch a file that exists (lib.rs:163, 180), and symlink    *)
(* fails on a name that exists (lib.rs:195).                               *)
TornBodies(r) ==
  {p \in DOMAIN r.body : r.body[p] = "empty" /\ ~ (r.pc = "body" /\ r.cmd.fresh /\ p = BodyOf[r.cmd.id])}
TornHeaders(r) ==
  {b \in Ids : r.header[b] = "empty" /\ ~ (r.pc = "header2" /\ r.cmd.fresh /\ b = r.cmd.id)}
LeftLinks(r) == {h \in DOMAIN r.wip : r.wip[h] # None /\ r.pc # Rename(h)}

Damaged(r) == ({"body"} \X TornBodies(r)) \cup ({"header"} \X TornHeaders(r)) \cup ({"link"} \X LeftLinks(r))

(* A stop damages at most the one file or link that was being written,     *)
(* and nothing else is ever damaged, however commands touch, share and     *)
(* evict what is damaged later.                                            *)
DamageBounded == Cardinality(Damaged(l)) <= MaxStops - l.stops

(* A whole header file points to a body file that was written ("write      *)
(* payload first so that header always points to payload that exists"),    *)
(* whole unless a stop tore it.                                            *)
HeaderHasBody ==
  \A b \in Ids : l.header[b] = "full" => l.body[BodyOf[b]] = "full" \/ BodyOf[b] \in TornBodies(l)

(* The cache and its index agree: every cached block and body belongs to   *)
(* an indexed round, so that eviction by round bounds both maps, with      *)
(* bodies that several blocks share and two blocks of one round.           *)
CacheIndexed ==
  /\ l.cache = {l.index[i] : i \in DOMAIN l.index}
  /\ l.payloads \subseteq {BodyOf[l.index[i]] : i \in DOMAIN l.index}

(* What is cached is also on disk ("all reads are backed by disk"), unless *)
(* an earlier stop tore its file.                                          *)
CacheOnDisk ==
  /\ \A b \in l.cache : l.header[b] = "full" \/ b \in TornHeaders(l)
  /\ \A p \in l.payloads : l.body[p] = "full" \/ p \in TornBodies(l)

(* proposed_head and finalized_head always lead to a header that was       *)
(* written, whole unless a stop tore it.                                   *)
HeadsReadable ==
  \A h \in DOMAIN l.head :
    l.head[h] # None => l.header[l.head[h]] = "full" \/ l.head[h] \in TornHeaders(l)

(* No command of consensus fails: the links can always be moved            *)
(* (update_proposed_head(..).unwrap()) and what is read is whole.          *)
CommandsSucceed == ~l.failed

(* A command fails only on what a stop damaged.                            *)
FailsOnlyDamaged == l.failed => Damaged(l) # {}

(* All of this together, wherever and however often the process stops      *)
(* within a command.  A command that meets the damage of a stop fails; the *)
(* ledger_link run shows it for a link that was left.                      *)
LedgerSurvivesStop ==
  /\ TypeOK /\ HeaderHasBody /\ CacheIndexed /\ CacheOnDisk /\ HeadsReadable
  /\ FailsOnlyDamaged /\ DamageBounded

(* Without stops the ledger is the in-memory ledger of the simulators: it  *)
(* answers the same fetches with the same blocks.                          *)
Mock == INSTANCE MockLedger WITH
          blocks <- l.done, finalized <- l.finalized, events <- l.events, FinalizationDelay <- 0

ImplementsMock == Mock!MockSpec
=============================================================================
