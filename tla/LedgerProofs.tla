---------------------------- MODULE LedgerProofs ----------------------------
(***************************************************************************)
(* The ledger of a node for any blocks, bodies, rounds, size of the cache, *)
(* points at which the process stops and number of stops: the files, links *)
(* and caches agree but for what a stop damaged, a stop damages one file   *)
(* or link at most, and without stops the ledger implements the in-memory  *)
(* one of the simulators.                                                  *)
(***************************************************************************)
EXTENDS Ledger, FiniteSetTheorems, WellFoundedInduction, TLAPS

Bodies == {BodyOf[b] : b \in Ids}
Heads == {"proposed", "finalized"}
Command == [id: Ids, fresh: BOOLEAN]

\* The fields of a ledger and their types.
IsLedger(r) ==
  r = [body |-> r.body, header |-> r.header, head |-> r.head, wip |-> r.wip,
       cache |-> r.cache, payloads |-> r.payloads, index |-> r.index,
       events |-> r.events, pc |-> r.pc, cmd |-> r.cmd, failed |-> r.failed,
       done |-> r.done, finalized |-> r.finalized, stops |-> r.stops]

Typed(r) ==
  /\ IsLedger(r)
  /\ r.body \in [Bodies -> Files] /\ r.header \in [Ids -> Files]
  /\ r.head \in [Heads -> Ids \cup {None}] /\ r.wip \in [Heads -> Ids \cup {None}]
  /\ r.done \in SUBSET Ids
  /\ r.pc \in {"idle", "body", "header", "header2", "link", "rename", "flink", "frename"}
  /\ IF r.pc = "idle" THEN r.cmd = None ELSE r.cmd \in Command

\* A block whose command came past its header has both files, and only such
\* a block has a whole header.  A file the command under way has just created
\* belongs to no such block.
Whole(r) ==
  /\ \A b \in Ids : r.header[b] = "full" => b \in r.done
  /\ \A b \in r.done : r.header[b] # "none" /\ r.body[BodyOf[b]] # "none"
  /\ r.pc \in {"body", "header", "header2"} => r.body[BodyOf[r.cmd.id]] # "none"
  /\ r.pc = "body" /\ r.cmd.fresh => \A b \in r.done : BodyOf[b] # BodyOf[r.cmd.id]
  /\ r.pc = "header2" => r.header[r.cmd.id] # "none"
  /\ r.pc = "header2" /\ r.cmd.fresh => r.cmd.id \notin r.done
  /\ r.pc \in {"link", "rename", "flink", "frename"} => r.cmd.id \in r.done

\* The links lead to blocks that were written.
Linked(r) ==
  /\ \A h \in Heads : r.head[h] \in r.done \cup {None} /\ r.wip[h] \in r.done \cup {None}
  /\ \A h \in Heads : r.pc = Rename(h) => r.wip[h] = r.cmd.id

DiskInv(r) == Typed(r) /\ Whole(r) /\ Linked(r)

LEMMA InitDisk == Init => DiskInv(l)
BY DEF Init, DiskInv, Typed, IsLedger, Whole, Linked, Bodies, Heads, Files, None, Rename

\* Everything but the caches and their index.
SameDisk(r, s) ==
  /\ IsLedger(s)
  /\ s.body = r.body /\ s.header = r.header /\ s.head = r.head /\ s.wip = r.wip
  /\ s.events = r.events /\ s.pc = r.pc /\ s.cmd = r.cmd /\ s.failed = r.failed
  /\ s.done = r.done /\ s.finalized = r.finalized /\ s.stops = r.stops

\* The steps of update_cache change the caches and the index only.
LEMMA DroppedFields ==
  ASSUME NEW r, IsLedger(r), NEW out
  PROVE  /\ SameDisk(r, Dropped(r, out))
         /\ Dropped(r, out).index = r.index
         /\ Dropped(r, out).cache = r.cache \ out
         /\ Dropped(r, out).payloads = r.payloads \ {BodyOf[b] : b \in out}
<1> DEFINE c == r.cache \ out
           p == r.payloads \ {BodyOf[b] : b \in out}
<1>1. Dropped(r, out) = [r EXCEPT !.cache = c, !.payloads = p]
  BY DEF Dropped
<1> HIDE DEF c, p
<1> QED BY ZenonT(30), <1>1 DEF IsLedger, SameDisk, c, p

LEMMA IndexedFields ==
  ASSUME NEW r, IsLedger(r), NEW b
  PROVE  /\ SameDisk(r, Indexed(r, b))
         /\ Indexed(r, b).index = [i \in DOMAIN r.index \cup {RoundOf[b]} |->
                                     IF i = RoundOf[b] THEN b ELSE r.index[i]]
         /\ Indexed(r, b).cache = r.cache /\ Indexed(r, b).payloads = r.payloads
BY DEF Indexed, IsLedger, SameDisk

LEMMA InsertedFields ==
  ASSUME NEW r, IsLedger(r), NEW b
  PROVE  /\ SameDisk(r, Inserted(r, b))
         /\ Inserted(r, b).index = r.index
         /\ Inserted(r, b).cache = r.cache \cup {b}
         /\ Inserted(r, b).payloads = r.payloads \cup {BodyOf[b]}
<1> DEFINE c == r.cache \cup {b}
           p == r.payloads \cup {BodyOf[b]}
<1>1. Inserted(r, b) = [r EXCEPT !.payloads = p, !.cache = c]
  BY DEF Inserted
<1> HIDE DEF c, p
<1> QED BY ZenonT(30), <1>1 DEF IsLedger, SameDisk, c, p

LEMMA EvictedFields ==
  ASSUME NEW r, IsLedger(r), Cardinality(DOMAIN r.index) > BlockCacheSize
  PROVE  LET lo == Lowest(DOMAIN r.index)
             e == Evicted(r)
         IN  /\ SameDisk(r, e)
             /\ e.index = [i \in DOMAIN r.index \ {lo} |-> r.index[i]]
             /\ e.cache = r.cache \ {r.index[lo]}
             /\ e.payloads = r.payloads \ {BodyOf[r.index[lo]]}
<1> DEFINE lo == Lowest(DOMAIN r.index)
           s == [r EXCEPT !.index = Restrict(@, DOMAIN @ \ {lo})]
<1>1. /\ SameDisk(r, s) /\ s.index = [i \in DOMAIN r.index \ {lo} |-> r.index[i]]
      /\ s.cache = r.cache /\ s.payloads = r.payloads
  BY DEF IsLedger, SameDisk, Restrict
<1>2. Evicted(r) = Dropped(s, {r.index[lo]})
  BY DEF Evicted
<1>3. {BodyOf[c] : c \in {r.index[lo]}} = {BodyOf[r.index[lo]]}
  OBVIOUS
<1> HIDE DEF s, lo
<1>4. /\ SameDisk(s, Evicted(r)) /\ Evicted(r).index = s.index
      /\ Evicted(r).cache = s.cache \ {r.index[lo]}
      /\ Evicted(r).payloads = s.payloads \ {BodyOf[r.index[lo]]}
  BY <1>1, <1>2, <1>3, DroppedFields DEF SameDisk
<1> QED BY <1>1, <1>4 DEF SameDisk, lo

LEMMA UpdateCacheDisk ==
  ASSUME NEW r, IsLedger(r), NEW b
  PROVE  SameDisk(r, update_cache(r, b))
<1> DEFINE d == Dropped(r, Displaced(r, b))
           x == Indexed(d, b)
           e == Evicted(x)
<1>1. SameDisk(r, d)
  BY DroppedFields
<1>2. SameDisk(d, x)
  <2>1. IsLedger(d)
    BY <1>1 DEF SameDisk
  <2> HIDE DEF d
  <2> QED BY ZenonT(30), <2>1, IndexedFields
<1>3. SameDisk(x, e)
  <2> HIDE DEF x
  <2>1. CASE Cardinality(DOMAIN x.index) > BlockCacheSize
    BY ZenonT(30), <2>1, <1>2, EvictedFields DEF SameDisk
  <2>2. CASE ~ (Cardinality(DOMAIN x.index) > BlockCacheSize)
    BY <2>2, <1>2 DEF Evicted, SameDisk
  <2> QED BY <2>1, <2>2
<1>4. SameDisk(e, Inserted(e, b))
  <2> HIDE DEF e
  <2> QED BY <1>3, InsertedFields DEF SameDisk
<1>5. update_cache(r, b) = Inserted(e, b)
  BY DEF update_cache
<1> HIDE DEF d, x, e
<1> QED BY <1>1, <1>2, <1>3, <1>4, <1>5 DEF SameDisk

LEMMA ProposeDisk == ASSUME NEW b \in Ids, DiskInv(l), Propose(b) PROVE DiskInv(l')
<1> USE DEF DiskInv
<1>1. /\ l'.pc = "body" /\ l'.cmd = [id |-> b, fresh |-> l.body[BodyOf[b]] = "none"]
      /\ l'.body = [l.body EXCEPT ![BodyOf[b]] = Create(@)]
      /\ l'.header = l.header /\ l'.head = l.head /\ l'.wip = l.wip /\ l'.done = l.done
      /\ IsLedger(l')
  BY ZenonT(30) DEF Propose, Typed, IsLedger
<1>2. l.pc = "idle" /\ BodyOf[b] \in Bodies
  BY DEF Propose, Idle, Bodies
<1>3. Typed(l')
  BY <1>1, <1>2 DEF Typed, Command, Create, Files
<1>4. Whole(l')
  <2>1. l'.cmd.id = b /\ (l'.cmd.fresh <=> l.body[BodyOf[b]] = "none")
    <3> DEFINE f == l.body[BodyOf[b]] = "none"
    <3>1. l'.cmd = [id |-> b, fresh |-> f]
      BY <1>1
    <3>2. f \in BOOLEAN
      OBVIOUS
    <3>3. l'.cmd.id = b /\ (l'.cmd.fresh <=> f)
      <4> HIDE DEF f
      <4> QED BY <3>1, <3>2
    <3> QED BY <3>3
  <2>2. \A p \in Bodies : l'.body[p] = IF p = BodyOf[b] THEN Create(l.body[p]) ELSE l.body[p]
    BY <1>1 DEF Typed
  <2> HIDE DEF DiskInv
  <2>3. /\ \A p \in Bodies : l.body[p] # "none" => l'.body[p] # "none"
        /\ l'.body[BodyOf[b]] # "none"
    BY <2>2, <1>2 DEF Create
  <2>4. \A c \in l.done : BodyOf[c] \in Bodies
    BY DEF DiskInv, Typed, Bodies
  <2> QED BY <1>1, <1>2, <2>1, <2>3, <2>4 DEF DiskInv, Whole
<1>5. Linked(l')
  BY <1>1, <1>2 DEF Linked, Rename
<1> QED BY <1>3, <1>4, <1>5

LEMMA WriteBodyDisk == ASSUME DiskInv(l), WriteBody PROVE DiskInv(l')
<1> DEFINE c == l.cmd
<1>1. /\ l'.pc = "header" /\ l'.cmd = c
      /\ l'.body = [l.body EXCEPT ![BodyOf[c.id]] = Fill(@, l)]
      /\ l'.header = l.header /\ l'.head = l.head /\ l'.wip = l.wip /\ l'.done = l.done
      /\ IsLedger(l')
  BY ZenonT(30) DEF WriteBody, DiskInv, Typed, IsLedger
<1>2. l.pc = "body" /\ c \in Command /\ c.id \in Ids /\ BodyOf[c.id] \in Bodies
  BY DEF WriteBody, DiskInv, Typed, Command, Bodies
<1>3. \A p \in Bodies : l'.body[p] \in {l.body[p], "full"}
  BY <1>1, <1>2 DEF DiskInv, Typed, Fill
<1>4. l'.body \in [Bodies -> Files]
  BY <1>1, <1>2, <1>3 DEF DiskInv, Typed, Files
<1>5. Typed(l')
  BY ZenonT(30), <1>1, <1>2, <1>4 DEF DiskInv, Typed, Files
<1>6. Whole(l')
  <2>1. \A b \in l.done : BodyOf[b] \in Bodies
    BY DEF DiskInv, Typed, Bodies
  <2> QED BY <1>1, <1>2, <1>3, <2>1 DEF DiskInv, Whole
<1>7. Linked(l')
  BY <1>1, <1>2 DEF DiskInv, Linked, Rename
<1> QED BY <1>5, <1>6, <1>7 DEF DiskInv

LEMMA CreateHeaderDisk == ASSUME DiskInv(l), CreateHeader PROVE DiskInv(l')
<1> DEFINE c == l.cmd.id
           f == l.header[c] = "none"
<1>1. f \in BOOLEAN
  OBVIOUS
<1>2. /\ l'.pc = "header2" /\ l'.cmd = [l.cmd EXCEPT !.fresh = f]
      /\ l'.header = [l.header EXCEPT ![c] = Create(@)]
      /\ l'.body = l.body /\ l'.head = l.head /\ l'.wip = l.wip /\ l'.done = l.done
      /\ IsLedger(l')
  BY ZenonT(30) DEF CreateHeader, DiskInv, Typed, IsLedger
<1>3. l.pc = "header" /\ l.cmd \in Command /\ c \in Ids /\ BodyOf[c] \in Bodies
  BY DEF CreateHeader, DiskInv, Typed, Command, Bodies
<1>4. l'.cmd \in Command /\ l'.cmd.id = c /\ (l'.cmd.fresh <=> f)
  <2> HIDE DEF f
  <2> QED BY <1>1, <1>2, <1>3 DEF Command
<1>5. \A b \in Ids : l'.header[b] = IF b = c /\ f THEN "empty" ELSE l.header[b]
  BY <1>2, <1>3 DEF DiskInv, Typed, Create
<1>6. l'.header \in [Ids -> Files]
  BY <1>2, <1>3, <1>5 DEF DiskInv, Typed, Files
<1>7. Typed(l')
  BY ZenonT(30), <1>2, <1>3, <1>4, <1>6 DEF DiskInv, Typed
<1>8. Whole(l')
  <2>1. l.done \subseteq Ids
    BY DEF DiskInv, Typed
  <2> QED BY <1>2, <1>3, <1>4, <1>5, <2>1 DEF DiskInv, Whole
<1>9. Linked(l')
  BY <1>2, <1>3 DEF DiskInv, Linked, Rename
<1> QED BY <1>7, <1>8, <1>9 DEF DiskInv

LEMMA WriteHeaderDisk == ASSUME DiskInv(l), WriteHeader PROVE DiskInv(l')
<1> DEFINE c == l.cmd.id
           u == update_cache(l, c)
<1>1. SameDisk(l, u)
  BY UpdateCacheDisk DEF DiskInv, Typed
<1>2. /\ l'.pc = "link" /\ l'.cmd = l.cmd
      /\ l'.header = [l.header EXCEPT ![c] = Fill(@, l)] /\ l'.done = l.done \cup {c}
      /\ l'.body = l.body /\ l'.head = l.head /\ l'.wip = l.wip
      /\ IsLedger(l')
  <2>1. l' = [u EXCEPT !.pc = "link", !.header[c] = Fill(@, l), !.done = @ \cup {c}]
    BY DEF WriteHeader
  <2> HIDE DEF u
  <2> DEFINE d == l.done \cup {c}
             h == [l.header EXCEPT ![c] = Fill(@, l)]
  <2>2. l' = [u EXCEPT !.pc = "link", !.header = h, !.done = d]
    BY ZenonT(30), <2>1, <1>1 DEF SameDisk, IsLedger
  <2> HIDE DEF d, h
  <2>3. /\ l'.pc = "link" /\ l'.cmd = l.cmd /\ l'.header = h /\ l'.done = d
        /\ l'.body = l.body /\ l'.head = l.head /\ l'.wip = l.wip /\ IsLedger(l')
    BY ZenonT(30), <1>1, <2>2 DEF SameDisk, IsLedger
  <2> QED BY <2>3 DEF d, h
<1>3. l.pc = "header2" /\ l.cmd \in Command /\ c \in Ids /\ BodyOf[c] \in Bodies
  BY DEF WriteHeader, DiskInv, Typed, Command, Bodies
<1> HIDE DEF u
<1>4. \A b \in Ids : l'.header[b] = IF b = c /\ l.cmd.fresh THEN "full" ELSE l.header[b]
  BY <1>2, <1>3 DEF DiskInv, Typed, Fill
<1>5. l'.header \in [Ids -> Files]
  BY <1>2, <1>3, <1>4 DEF DiskInv, Typed, Files
<1>6. Typed(l')
  BY <1>2, <1>3, <1>5 DEF DiskInv, Typed, Files
<1>7. Whole(l')
  <2>1. l.done \subseteq Ids
    BY DEF DiskInv, Typed
  <2> QED BY <1>2, <1>3, <1>4, <2>1 DEF DiskInv, Whole
<1>8. Linked(l')
  BY <1>2, <1>3 DEF DiskInv, Linked, Rename
<1> QED BY <1>6, <1>7, <1>8 DEF DiskInv

LEMMA MakeLinkDisk ==
  ASSUME NEW h \in Heads, DiskInv(l), MakeLink(h) PROVE DiskInv(l')
<1>1. l.pc = Link(h) /\ l.cmd \in Command /\ l.cmd.id \in l.done
  BY DEF MakeLink, DiskInv, Typed, Whole, Link, Heads
<1>2. CASE l.wip[h] # None
  <2>1. l' = [l EXCEPT !.failed = TRUE]
    BY <1>2 DEF MakeLink
  <2> QED BY ZenonT(30), <2>1 DEF DiskInv, Typed, IsLedger, Whole, Linked
<1>3. CASE l.wip[h] = None
  <2>1. /\ l'.pc = Rename(h) /\ l'.cmd = l.cmd /\ l'.wip = [l.wip EXCEPT ![h] = l.cmd.id]
        /\ l'.body = l.body /\ l'.header = l.header /\ l'.head = l.head /\ l'.done = l.done
        /\ IsLedger(l')
    BY ZenonT(30), <1>3 DEF MakeLink, DiskInv, Typed, IsLedger
  <2>2. Typed(l')
    BY <1>1, <2>1 DEF DiskInv, Typed, Rename
  <2>3. Whole(l')
    BY <1>1, <2>1 DEF DiskInv, Typed, Whole, Rename, Link
  <2>4. Linked(l')
    BY <1>1, <2>1 DEF DiskInv, Typed, Linked, Rename, Heads
  <2> QED BY <2>2, <2>3, <2>4 DEF DiskInv
<1> QED BY <1>2, <1>3

LEMMA RenameLinkDisk ==
  ASSUME NEW h \in Heads, DiskInv(l), RenameLink(h) PROVE DiskInv(l')
<1>1. /\ l.pc = Rename(h) /\ l'.pc = "idle" /\ l'.cmd = None
      /\ l'.wip = [l.wip EXCEPT ![h] = None] /\ l'.head = [l.head EXCEPT ![h] = l.wip[h]]
      /\ l'.body = l.body /\ l'.header = l.header /\ l'.done = l.done
      /\ IsLedger(l')
  BY ZenonT(30) DEF RenameLink, DiskInv, Typed, IsLedger
<1>2. Typed(l')
  BY <1>1 DEF DiskInv, Typed
<1>3. Whole(l')
  BY <1>1 DEF DiskInv, Typed, Whole, Rename
<1>4. Linked(l')
  BY <1>1 DEF DiskInv, Typed, Linked, Rename
<1> QED BY <1>2, <1>3, <1>4 DEF DiskInv

LEMMA FinalizeDisk == ASSUME NEW b \in Ids, DiskInv(l), Finalize(b) PROVE DiskInv(l')
<1>1. /\ l.pc = "idle" /\ b \in l.done /\ l'.pc = "flink" /\ l'.cmd = [id |-> b, fresh |-> FALSE]
      /\ l'.wip = l.wip /\ l'.head = l.head
      /\ l'.body = l.body /\ l'.header = l.header /\ l'.done = l.done
      /\ IsLedger(l')
  BY ZenonT(30) DEF Finalize, Idle, DiskInv, Typed, IsLedger
<1>2. Typed(l')
  BY <1>1 DEF DiskInv, Typed, Command
<1>3. Whole(l')
  BY <1>1 DEF DiskInv, Typed, Whole
<1>4. Linked(l')
  BY <1>1 DEF DiskInv, Linked, Rename
<1> QED BY <1>2, <1>3, <1>4 DEF DiskInv

\* Fetches and polls leave everything on disk alone.
LEMMA FetchDisk ==
  ASSUME DiskInv(l),
         (\E q \in Ranges : FetchHeaders(q)) \/ (\E p \in DOMAIN l.body : FetchPayload(p)) \/ Poll
  PROVE  DiskInv(l')
<1>1. \/ l' = [l EXCEPT !.failed = TRUE]
      \/ \E e : l' = [l EXCEPT !.events = e]
  BY DEF FetchHeaders, FetchPayload, Poll
<1>2. /\ l'.pc = l.pc /\ l'.cmd = l.cmd /\ l'.wip = l.wip /\ l'.head = l.head
      /\ l'.body = l.body /\ l'.header = l.header /\ l'.done = l.done
      /\ IsLedger(l')
  BY <1>1 DEF DiskInv, Typed, IsLedger
<1> QED BY <1>2 DEF DiskInv, Typed, Whole, Linked

\* The fields of a ledger whose process was started anew.
LEMMA StartedFields ==
  ASSUME DiskInv(l), NEW n, l' = Started(l, n)
  PROVE  /\ l'.pc = "idle" /\ l'.cmd = None /\ l'.failed = FALSE /\ l'.stops = n
         /\ l'.index = <<>> /\ l'.cache = {} /\ l'.payloads = {}
         /\ l'.wip = l.wip /\ l'.head = l.head
         /\ l'.body = l.body /\ l'.header = l.header /\ l'.done = l.done
         /\ IsLedger(l')
BY DEF Started, IsLedger

LEMMA StartedDisk == ASSUME DiskInv(l), NEW n, l' = Started(l, n) PROVE DiskInv(l')
<1>1. Typed(l')
  BY ZenonT(30), StartedFields DEF DiskInv, Typed
<1>2. l'.pc = "idle" /\ l'.wip = l.wip /\ l'.head = l.head /\ l'.body = l.body
      /\ l'.header = l.header /\ l'.done = l.done
  BY ZenonT(30), StartedFields
<1>3. Whole(l') /\ Linked(l')
  BY <1>2 DEF DiskInv, Whole, Linked, Rename
<1> QED BY <1>1, <1>3 DEF DiskInv

-----------------------------------------------------------------------------
(* The cache and its index *)

LEMMA LeastNatural ==
  ASSUME NEW S \in SUBSET Nat, S # {}
  PROVE  \E m \in S : \A n \in S : m <= n
<1> DEFINE R == {ss \in Nat \X Nat : ss[1] < ss[2]}
<1>1. PICK m \in S : \A n \in S : ~ (<<n, m>> \in R)
  <2>1. IsWellFoundedOn(R, Nat)
    BY NatLessThanWellFounded DEF OpToRel
  <2> HIDE DEF R
  <2> QED BY ZenonT(30), <2>1, WFMin
<1>2. \A n \in S : ~ (n < m)
  BY ZenonT(30), <1>1
<1> QED BY <1>2

LEMMA LowestIsLeast ==
  ASSUME NEW S \in SUBSET Nat, S # {}
  PROVE  Lowest(S) \in S /\ \A n \in S : Lowest(S) <= n
BY ZenonT(30), LeastNatural DEF Lowest

\* The index maps rounds to blocks of these rounds; the cache is its range,
\* and a cached body is that of a cached block.
IndexTyped(x) ==
  /\ DOMAIN x \in SUBSET Nat /\ IsFiniteSet(DOMAIN x)
  /\ \A i \in DOMAIN x : x[i] \in Ids /\ RoundOf[x[i]] = i

CacheMatches(r) ==
  /\ r.cache = {r.index[i] : i \in DOMAIN r.index}
  /\ r.payloads \subseteq {BodyOf[b] : b \in r.cache}

Reached(r, b) ==
  Cardinality(DOMAIN r.index) = BlockCacheSize => RoundOf[b] >= Lowest(DOMAIN r.index)

LEMMA UpdateCacheMatches ==
  ASSUME NEW r, IsLedger(r), NEW b \in Ids, IndexTyped(r.index), CacheMatches(r),
         Cardinality(DOMAIN r.index) <= BlockCacheSize, Reached(r, b)
  PROVE  LET u == update_cache(r, b)
         IN  /\ IndexTyped(u.index) /\ CacheMatches(u)
             /\ Cardinality(DOMAIN u.index) <= BlockCacheSize
             /\ u.cache \subseteq r.cache \cup {b}
<1> DEFINE n == RoundOf[b]
           D == DOMAIN r.index
           d == Dropped(r, Displaced(r, b))
           x == Indexed(d, b)
           e == Evicted(x)
           u == Inserted(e, b)
<1>1. update_cache(r, b) = u
  BY DEF update_cache
<1>2. /\ n \in Nat /\ BlockCacheSize \in Nat \ {0} /\ D \in SUBSET Nat /\ IsFiniteSet(D)
      /\ Cardinality(D) \in Nat
  BY LedgerAssumption, FS_CardinalityType DEF IndexTyped
<1>3. /\ IsLedger(d) /\ d.index = r.index /\ d.cache = r.cache \ Displaced(r, b)
      /\ d.payloads = r.payloads \ {BodyOf[c] : c \in Displaced(r, b)}
  BY DroppedFields DEF SameDisk
<1>4. /\ IsLedger(x) /\ x.cache = d.cache /\ x.payloads = d.payloads
      /\ x.index = [i \in D \cup {n} |-> IF i = n THEN b ELSE r.index[i]]
  <2> HIDE DEF d
  <2> QED BY <1>3, IndexedFields DEF SameDisk
<1>5. DOMAIN x.index = D \cup {n} /\ x.index[n] = b /\ \A i \in D \ {n} : x.index[i] = r.index[i]
  BY <1>4
<1>6. /\ IsFiniteSet(D \cup {n})
      /\ Cardinality(D \cup {n}) = IF n \in D THEN Cardinality(D) ELSE Cardinality(D) + 1
  BY <1>2, FS_AddElement
<1>7. ASSUME IsLedger(e)
      PROVE  u.index = e.index /\ u.cache = e.cache \cup {b} /\ u.payloads = e.payloads \cup {BodyOf[b]}
  <2> HIDE DEF e
  <2> QED BY <1>7, InsertedFields
<1> HIDE DEF d, x, e, u
<1>8. CASE n \in D
  <2>1. Displaced(r, b) = {r.index[n]}
    BY <1>8 DEF Displaced
  <2>2. e = x
    BY <1>5, <1>6, <1>8, <1>2 DEF Evicted, e
  <2>3. u.index = x.index /\ u.cache = (r.cache \ {r.index[n]}) \cup {b}
    BY <1>3, <1>4, <1>7, <2>1, <2>2
  <2>4. u.payloads = (r.payloads \ {BodyOf[r.index[n]]}) \cup {BodyOf[b]}
    <3>1. {BodyOf[c] : c \in Displaced(r, b)} = {BodyOf[r.index[n]]}
      BY <2>1
    <3> QED BY <1>3, <1>4, <1>7, <3>1, <2>2
  <2>5. IndexTyped(u.index)
    <3>1. \A i \in D : r.index[i] \in Ids /\ RoundOf[r.index[i]] = i
      BY DEF IndexTyped
    <3>2. \A i \in D \cup {n} : u.index[i] \in Ids /\ RoundOf[u.index[i]] = i
      BY <1>5, <2>3, <3>1
    <3> QED BY <1>2, <1>5, <1>6, <2>3, <3>2 DEF IndexTyped
  <2>6. u.cache = {u.index[i] : i \in DOMAIN u.index}
    BY <1>5, <1>8, <2>3 DEF CacheMatches, IndexTyped
  <2>7. u.payloads \subseteq {BodyOf[c] : c \in u.cache}
    BY <2>3, <2>4 DEF CacheMatches
  <2>8. Cardinality(DOMAIN u.index) <= BlockCacheSize
    BY <1>5, <1>6, <1>8, <2>3
  <2> QED BY <1>1, <2>3, <2>5, <2>6, <2>7, <2>8 DEF CacheMatches
<1>9. CASE n \notin D
  <2>1. Displaced(r, b) = {}
    BY <1>9 DEF Displaced
  <2>2. {BodyOf[c] : c \in Displaced(r, b)} = {}
    BY <2>1
  <2>3. x.cache = r.cache /\ x.payloads = r.payloads
    BY <1>3, <1>4, <2>1, <2>2
  <2>4. CASE Cardinality(D) < BlockCacheSize
    <3>1. e = x
      BY <1>2, <1>5, <1>6, <1>9, <2>4 DEF Evicted, e
    <3>2. u.index = x.index /\ u.cache = r.cache \cup {b} /\ u.payloads = r.payloads \cup {BodyOf[b]}
      BY <1>4, <1>7, <2>3, <3>1
    <3>3. /\ DOMAIN u.index = D \cup {n} /\ u.index[n] = b
          /\ \A i \in D : u.index[i] = r.index[i]
      BY <1>5, <1>9, <3>2
    <3>4. Cardinality(D \cup {n}) <= BlockCacheSize
      BY <1>2, <1>6, <1>9, <2>4
    <3>5. IndexTyped(u.index)
      BY <1>2, <1>6, <3>3 DEF IndexTyped
    <3>6. u.cache = {u.index[i] : i \in DOMAIN u.index}
      BY <3>2, <3>3 DEF CacheMatches
    <3>7. u.payloads \subseteq {BodyOf[c] : c \in u.cache}
      BY <3>2 DEF CacheMatches
    <3>8. u.cache \subseteq r.cache \cup {b} /\ Cardinality(DOMAIN u.index) <= BlockCacheSize
      BY <3>2, <3>3, <3>4
    <3> QED BY <1>1, <3>5, <3>6, <3>7, <3>8 DEF CacheMatches
  <2>5. CASE ~ (Cardinality(D) < BlockCacheSize)
    <3> DEFINE lo == Lowest(DOMAIN x.index)
    <3>1. Cardinality(D) = BlockCacheSize /\ D # {}
      BY <1>2, <2>5, FS_EmptySet
    <3>2. lo \in D /\ lo # n
      <4>1. Lowest(D) \in D /\ n >= Lowest(D)
        BY <1>2, <3>1, LowestIsLeast DEF Reached
      <4>2. lo \in D \cup {n} /\ lo <= Lowest(D)
        <5>1. D \cup {n} \in SUBSET Nat /\ D \cup {n} # {} /\ Lowest(D) \in D \cup {n}
          BY <1>2, <4>1
        <5> QED BY <5>1, <1>5, LowestIsLeast
      <4> QED BY <4>1, <4>2, <1>2, <1>9
    <3>3. /\ IsLedger(e) /\ e.index = [i \in (D \cup {n}) \ {lo} |-> x.index[i]]
          /\ e.cache = x.cache \ {x.index[lo]} /\ e.payloads = x.payloads \ {BodyOf[x.index[lo]]}
      <4>1. Cardinality(DOMAIN x.index) > BlockCacheSize
        BY <1>2, <1>5, <1>6, <1>9, <3>1
      <4> QED BY ZenonT(30), <1>4, <1>5, <4>1, EvictedFields DEF SameDisk, e
    <3>4. x.index[lo] = r.index[lo]
      BY <1>5, <3>2
    <3> HIDE DEF lo
    <3>5. /\ u.index = e.index /\ u.cache = (r.cache \ {r.index[lo]}) \cup {b}
          /\ u.payloads = (r.payloads \ {BodyOf[r.index[lo]]}) \cup {BodyOf[b]}
      BY <1>7, <2>3, <3>3, <3>4
    <3>6. /\ DOMAIN u.index = (D \cup {n}) \ {lo} /\ u.index[n] = b
          /\ \A i \in D \ {lo} : u.index[i] = r.index[i]
      BY <1>5, <1>9, <3>2, <3>3, <3>5
    <3>7. /\ IsFiniteSet((D \cup {n}) \ {lo})
          /\ Cardinality((D \cup {n}) \ {lo}) = Cardinality(D)
      <4> DEFINE E == D \cup {n}
      <4>1. IsFiniteSet(E) /\ lo \in E /\ Cardinality(E) = Cardinality(D) + 1
        BY <1>6, <1>9, <3>2
      <4> HIDE DEF E
      <4>2. IsFiniteSet(E \ {lo}) /\ Cardinality(E \ {lo}) = Cardinality(E) - 1
        BY ZenonT(30), <4>1, FS_RemoveElement
      <4> QED BY <4>1, <4>2, <1>2 DEF E
    <3>8. IndexTyped(u.index)
      BY <1>2, <1>9, <3>6, <3>7 DEF IndexTyped
    <3>9. u.cache = {u.index[i] : i \in DOMAIN u.index}
      BY <1>9, <3>2, <3>5, <3>6 DEF CacheMatches, IndexTyped
    <3>10. u.payloads \subseteq {BodyOf[c] : c \in u.cache}
      <4> HIDE DEF D, n
      <4> QED BY <3>5 DEF CacheMatches
    <3>11. u.cache \subseteq r.cache \cup {b} /\ Cardinality(DOMAIN u.index) <= BlockCacheSize
      BY <1>2, <3>1, <3>5, <3>6, <3>7
    <3> QED BY <1>1, <3>8, <3>9, <3>10, <3>11 DEF CacheMatches
  <2> QED BY <2>4, <2>5
<1> QED BY <1>8, <1>9

\* Besides, what is cached was written, and while a block is being written it
\* is not older than every round of a full cache, so that it is not itself
\* the one to be evicted.
CacheInv(r) ==
  /\ IndexTyped(r.index) /\ CacheMatches(r) /\ Cardinality(DOMAIN r.index) <= BlockCacheSize
  /\ r.cache \subseteq r.done
  /\ r.pc \in {"body", "header", "header2"} => Reached(r, r.cmd.id)

LEMMA EmptyCache ==
  ASSUME NEW r, r.index = <<>>, r.cache = {}, r.payloads = {}, r.pc = "idle"
  PROVE  CacheInv(r)
<1>1. DOMAIN r.index = {}
  OBVIOUS
<1>2. IsFiniteSet({}) /\ Cardinality({}) = 0
  BY FS_EmptySet
<1>3. BlockCacheSize \in Nat \ {0}
  BY LedgerAssumption
<1> QED BY <1>1, <1>2, <1>3 DEF CacheInv, IndexTyped, CacheMatches

\* Every step but the last write of a block keeps the cache or empties it.
LEMMA CacheKept ==
  ASSUME CacheInv(l), l'.index = l.index, l'.cache = l.cache, l'.payloads = l.payloads,
         l'.done = l.done, l'.pc \in {"body", "header", "header2"} => Reached(l, l'.cmd.id)
  PROVE  CacheInv(l')
BY DEF CacheInv, CacheMatches, Reached

LEMMA WriteHeaderCache == ASSUME DiskInv(l), CacheInv(l), WriteHeader PROVE CacheInv(l')
<1> DEFINE c == l.cmd.id
           u == update_cache(l, c)
<1>1. IsLedger(l) /\ c \in Ids /\ Reached(l, c)
  BY DEF WriteHeader, DiskInv, Typed, Command, CacheInv
<1>2. SameDisk(l, u)
  BY <1>1, UpdateCacheDisk
<1>3. /\ IndexTyped(u.index) /\ CacheMatches(u) /\ Cardinality(DOMAIN u.index) <= BlockCacheSize
      /\ u.cache \subseteq l.cache \cup {c}
  BY <1>1, UpdateCacheMatches DEF CacheInv
<1>4. l' = [u EXCEPT !.pc = "link", !.header[c] = Fill(@, l), !.done = @ \cup {c}]
  BY DEF WriteHeader
<1> HIDE DEF u
<1>5. /\ l'.index = u.index /\ l'.cache = u.cache /\ l'.payloads = u.payloads /\ l'.pc = "link"
  BY <1>2, <1>4 DEF SameDisk, IsLedger
<1>6. l'.done = l.done \cup {c}
  <2> DEFINE d == l.done \cup {c}
             h == [l.header EXCEPT ![c] = Fill(@, l)]
  <2>1. l' = [u EXCEPT !.pc = "link", !.header = h, !.done = d]
    BY ZenonT(30), <1>2, <1>4 DEF SameDisk, IsLedger
  <2> HIDE DEF d, h
  <2>2. l'.done = d
    BY <1>2, <2>1 DEF SameDisk, IsLedger
  <2> QED BY <2>2 DEF d
<1> QED BY <1>3, <1>5, <1>6 DEF CacheInv, CacheMatches

LedgerInv == DiskInv(l) /\ CacheInv(l)

LEMMA LedgerInit == Init => LedgerInv
<1> SUFFICES ASSUME Init PROVE LedgerInv
  OBVIOUS
<1>1. l.index = <<>> /\ l.cache = {} /\ l.payloads = {} /\ l.pc = "idle"
  BY DEF Init
<1> QED BY <1>1, EmptyCache, InitDisk DEF LedgerInv

LEMMA LedgerStep ==
  ASSUME LedgerInv, [Next]_vars
  PROVE  LedgerInv'
<1> USE DEF LedgerInv
<1>1. IsLedger(l)
  BY SMTT(20) DEF DiskInv, Typed
<1>2. ASSUME NEW b \in Ids, Propose(b) PROVE LedgerInv'
  <2>1. /\ l'.index = l.index /\ l'.cache = l.cache /\ l'.payloads = l.payloads
        /\ l'.done = l.done /\ l'.cmd = [id |-> b, fresh |-> l.body[BodyOf[b]] = "none"]
    BY <1>1, <1>2 DEF Propose, IsLedger
  <2>2. l'.cmd.id = b /\ Reached(l, b)
    BY <1>2, <2>1 DEF Propose, InReach, Reached
  <2> QED BY <1>2, <2>1, <2>2, CacheKept, ProposeDisk
<1>3. CASE WriteBody
  <2>1. /\ l'.index = l.index /\ l'.cache = l.cache /\ l'.payloads = l.payloads
        /\ l'.done = l.done /\ l'.cmd = l.cmd /\ l.pc = "body"
    BY <1>1, <1>3 DEF WriteBody, IsLedger
  <2> QED BY <1>3, <2>1, CacheKept, WriteBodyDisk DEF CacheInv
<1>4. CASE CreateHeader
  <2>1. /\ l'.index = l.index /\ l'.cache = l.cache /\ l'.payloads = l.payloads
        /\ l'.done = l.done /\ l'.cmd = [l.cmd EXCEPT !.fresh = l.header[l.cmd.id] = "none"]
        /\ l.pc = "header"
    BY <1>1, <1>4 DEF CreateHeader, IsLedger
  <2>2. l.cmd \in Command
    BY <2>1 DEF DiskInv, Typed
  <2>3. l'.cmd.id = l.cmd.id
    BY <2>1, <2>2 DEF Command
  <2> QED BY <1>4, <2>1, <2>3, CacheKept, CreateHeaderDisk DEF CacheInv
<1>5. CASE WriteHeader
  BY <1>5, WriteHeaderDisk, WriteHeaderCache
<1>6. ASSUME NEW h \in {"proposed", "finalized"}, MakeLink(h) PROVE LedgerInv'
  <2>1. /\ l'.index = l.index /\ l'.cache = l.cache /\ l'.payloads = l.payloads
        /\ l'.done = l.done /\ l'.pc \in {"link", "flink", "rename", "frename"}
    <3>1. CASE l.wip[h] # None
      BY <1>1, <1>6, <3>1 DEF MakeLink, IsLedger, Link
    <3>2. CASE l.wip[h] = None
      BY <1>1, <1>6, <3>2 DEF MakeLink, IsLedger, Rename
    <3> QED BY <3>1, <3>2
  <2> QED BY <1>6, <2>1, CacheKept, MakeLinkDisk DEF Heads
<1>7. ASSUME NEW h \in {"proposed", "finalized"}, RenameLink(h) PROVE LedgerInv'
  <2>1. /\ l'.index = l.index /\ l'.cache = l.cache /\ l'.payloads = l.payloads
        /\ l'.done = l.done /\ l'.pc = "idle"
    BY <1>1, <1>7 DEF RenameLink, IsLedger
  <2> QED BY <1>7, <2>1, CacheKept, RenameLinkDisk DEF Heads
<1>8. ASSUME NEW b \in Ids, Finalize(b) PROVE LedgerInv'
  <2>1. /\ l'.index = l.index /\ l'.cache = l.cache /\ l'.payloads = l.payloads
        /\ l'.done = l.done /\ l'.pc = "flink"
    BY <1>1, <1>8 DEF Finalize, IsLedger
  <2> QED BY <1>8, <2>1, CacheKept, FinalizeDisk
<1>9. CASE (\E q \in Ranges : FetchHeaders(q)) \/ (\E p \in DOMAIN l.body : FetchPayload(p)) \/ Poll
  <2>1. \/ l' = [l EXCEPT !.failed = TRUE]
        \/ \E e : l' = [l EXCEPT !.events = e]
    BY <1>9 DEF FetchHeaders, FetchPayload, Poll
  <2>2. /\ l'.index = l.index /\ l'.cache = l.cache /\ l'.payloads = l.payloads
        /\ l'.done = l.done /\ l'.pc = l.pc /\ l'.cmd = l.cmd
    BY <1>1, <2>1 DEF IsLedger
  <2> QED BY <1>9, <2>2, CacheKept, FetchDisk DEF CacheInv
<1>10. CASE Stop \/ Restart
  <2>1. PICK n : l' = Started(l, n)
    BY ZenonT(30), <1>10 DEF Stop, Restart
  <2>2. l'.index = <<>> /\ l'.cache = {} /\ l'.payloads = {} /\ l'.pc = "idle"
    BY <2>1, StartedFields
  <2> QED BY <2>1, <2>2, EmptyCache, StartedDisk
<1>11. CASE UNCHANGED vars
  BY <1>11 DEF vars
<1> QED BY ZenonT(30), <1>2, <1>3, <1>4, <1>5, <1>6, <1>7, <1>8, <1>9, <1>10, <1>11 DEF Next

-----------------------------------------------------------------------------
(* What stops damage *)

NoNewDamage ==
  /\ TornBodies(l') \subseteq TornBodies(l)
  /\ TornHeaders(l') \subseteq TornHeaders(l)
  /\ LeftLinks(l') \subseteq LeftLinks(l)

\* A command fails at a point where nothing is half done, on something damaged.
FailInv(r) ==
  /\ r.failed \in BOOLEAN
  /\ r.failed = TRUE => r.pc \in {"idle", "link", "flink"} /\ Damaged(r) # {}

DamageInv == LedgerInv /\ FailInv(l)

LEMMA HeadPoints ==
  ASSUME NEW h \in Heads
  PROVE  /\ Link(h) \in {"link", "flink"} /\ Rename(h) \in {"rename", "frename"}
         /\ \A g \in Heads : Rename(g) = Rename(h) => g = h
BY DEF Link, Rename, Heads

\* Nothing is damaged by a step that leaves the disk alone and starts from a
\* point where nothing is half done.
LEMMA DamageKept ==
  ASSUME DiskInv(l), l'.body = l.body, l'.header = l.header, l'.wip = l.wip,
         l.pc \notin {"body", "header2", "rename", "frename"}
  PROVE  NoNewDamage
<1>1. TornBodies(l') \subseteq TornBodies(l) /\ TornHeaders(l') \subseteq TornHeaders(l)
  BY DEF TornBodies, TornHeaders
<1>2. LeftLinks(l') \subseteq LeftLinks(l)
  <2>1. DOMAIN l.wip = Heads
    BY DEF DiskInv, Typed
  <2> QED BY <2>1, HeadPoints DEF LeftLinks
<1> QED BY <1>1, <1>2 DEF NoNewDamage

\* The steps of a proposal, up to its header, keep the links and go from one
\* point where no link is half done to another.
LEMMA LeftLinksKept ==
  ASSUME DiskInv(l), l'.wip = l.wip, l.pc \notin {"rename", "frename"}
  PROVE  LeftLinks(l') \subseteq LeftLinks(l)
<1>1. DOMAIN l.wip = Heads
  BY DEF DiskInv, Typed
<1> QED BY <1>1, HeadPoints DEF LeftLinks

LEMMA ProposeDamage == ASSUME NEW b \in Ids, DiskInv(l), Propose(b) PROVE NoNewDamage
<1> DEFINE f == l.body[BodyOf[b]] = "none"
<1>1. /\ l.pc = "idle" /\ l'.pc = "body" /\ l'.cmd = [id |-> b, fresh |-> f]
      /\ l'.body = [l.body EXCEPT ![BodyOf[b]] = Create(@)]
      /\ l'.header = l.header /\ l'.wip = l.wip
  BY ZenonT(30) DEF Propose, Idle, DiskInv, Typed, IsLedger
<1>2. l'.cmd.id = b /\ (l'.cmd.fresh <=> f)
  <2>1. f \in BOOLEAN
    OBVIOUS
  <2> HIDE DEF f
  <2> QED BY <1>1, <2>1
<1>3. \A p \in Bodies : l'.body[p] = IF p = BodyOf[b] /\ f THEN "empty" ELSE l.body[p]
  BY <1>1 DEF DiskInv, Typed, Create
<1>4. DOMAIN l.body = Bodies /\ DOMAIN l'.body = Bodies
  BY <1>1 DEF DiskInv, Typed
<1>5. TornBodies(l') \subseteq TornBodies(l)
  <2> HIDE DEF f
  <2> QED BY <1>1, <1>2, <1>3, <1>4 DEF TornBodies
<1>6. TornHeaders(l') \subseteq TornHeaders(l)
  BY <1>1 DEF TornHeaders
<1> QED BY <1>1, <1>5, <1>6, LeftLinksKept DEF NoNewDamage

LEMMA WriteBodyDamage == ASSUME DiskInv(l), WriteBody PROVE NoNewDamage
<1> DEFINE p == BodyOf[l.cmd.id]
<1>1. /\ l.pc = "body" /\ l'.pc = "header" /\ l'.body = [l.body EXCEPT ![p] = Fill(@, l)]
      /\ l'.header = l.header /\ l'.wip = l.wip
  BY ZenonT(30) DEF WriteBody, DiskInv, Typed, IsLedger
<1>2. /\ DOMAIN l.body = Bodies /\ DOMAIN l'.body = Bodies
      /\ \A q \in Bodies : l'.body[q] = IF q = p /\ l.cmd.fresh THEN "full" ELSE l.body[q]
  BY <1>1 DEF DiskInv, Typed, Fill
<1>3. TornBodies(l') \subseteq TornBodies(l)
  <2> HIDE DEF p
  <2> QED BY <1>1, <1>2 DEF TornBodies, p
<1>4. TornHeaders(l') \subseteq TornHeaders(l)
  BY <1>1 DEF TornHeaders
<1> QED BY <1>1, <1>3, <1>4, LeftLinksKept DEF NoNewDamage

LEMMA CreateHeaderDamage == ASSUME DiskInv(l), CreateHeader PROVE NoNewDamage
<1> DEFINE c == l.cmd.id
           f == l.header[c] = "none"
<1>1. /\ l.pc = "header" /\ l'.pc = "header2" /\ l'.cmd = [l.cmd EXCEPT !.fresh = f]
      /\ l'.header = [l.header EXCEPT ![c] = Create(@)]
      /\ l'.body = l.body /\ l'.wip = l.wip
  BY ZenonT(30) DEF CreateHeader, DiskInv, Typed, IsLedger
<1>2. l.cmd \in Command
  BY <1>1 DEF DiskInv, Typed
<1>3. l'.cmd.id = c /\ (l'.cmd.fresh <=> f)
  <2>1. f \in BOOLEAN
    OBVIOUS
  <2> HIDE DEF f
  <2> QED BY <1>1, <1>2, <2>1 DEF Command
<1>4. \A b \in Ids : l'.header[b] = IF b = c /\ f THEN "empty" ELSE l.header[b]
  BY <1>1 DEF DiskInv, Typed, Create
<1>5. TornHeaders(l') \subseteq TornHeaders(l)
  <2> HIDE DEF f
  <2> QED BY <1>1, <1>3, <1>4 DEF TornHeaders
<1>6. TornBodies(l') \subseteq TornBodies(l)
  BY <1>1 DEF TornBodies
<1> QED BY <1>1, <1>5, <1>6, LeftLinksKept DEF NoNewDamage

\* The fields that the step to the end of the header writes.
LEMMA WriteHeaderFields ==
  ASSUME DiskInv(l), WriteHeader
  PROVE  /\ l.pc = "header2" /\ l'.pc = "link" /\ l'.header = [l.header EXCEPT ![l.cmd.id] = Fill(@, l)]
         /\ l'.body = l.body /\ l'.wip = l.wip /\ l'.failed = l.failed /\ l'.stops = l.stops
<1> DEFINE u == update_cache(l, l.cmd.id)
           d == l.done \cup {l.cmd.id}
           h == [l.header EXCEPT ![l.cmd.id] = Fill(@, l)]
<1>1. SameDisk(l, u)
  BY UpdateCacheDisk DEF DiskInv, Typed
<1>2. l' = [u EXCEPT !.pc = "link", !.header[l.cmd.id] = Fill(@, l), !.done = @ \cup {l.cmd.id}]
  BY DEF WriteHeader
<1> HIDE DEF u
<1>3. l' = [u EXCEPT !.pc = "link", !.header = h, !.done = d]
  BY ZenonT(30), <1>1, <1>2 DEF SameDisk, IsLedger
<1> HIDE DEF d, h
<1>4. /\ l'.pc = "link" /\ l'.header = h /\ l'.body = l.body /\ l'.wip = l.wip
      /\ l'.failed = l.failed /\ l'.stops = l.stops
  BY ZenonT(30), <1>1, <1>3 DEF SameDisk, IsLedger
<1> QED BY ZenonT(30), <1>4 DEF WriteHeader, h

LEMMA WriteHeaderDamage == ASSUME DiskInv(l), WriteHeader PROVE NoNewDamage
<1> DEFINE c == l.cmd.id
<1>1. /\ l.pc = "header2" /\ l'.pc = "link" /\ l'.header = [l.header EXCEPT ![c] = Fill(@, l)]
      /\ l'.body = l.body /\ l'.wip = l.wip
  BY WriteHeaderFields
<1>2. \A b \in Ids : l'.header[b] = IF b = c /\ l.cmd.fresh THEN "full" ELSE l.header[b]
  BY <1>1 DEF DiskInv, Typed, Fill
<1>3. TornHeaders(l') \subseteq TornHeaders(l)
  BY <1>1, <1>2 DEF TornHeaders
<1>4. TornBodies(l') \subseteq TornBodies(l)
  BY <1>1 DEF TornBodies
<1> QED BY <1>1, <1>3, <1>4, LeftLinksKept DEF NoNewDamage

LEMMA MakeLinkDamage ==
  ASSUME NEW h \in Heads, DiskInv(l), MakeLink(h), l.wip[h] = None PROVE NoNewDamage
<1>1. /\ l.pc = Link(h) /\ l'.pc = Rename(h) /\ l'.wip = [l.wip EXCEPT ![h] = l.cmd.id]
      /\ l'.body = l.body /\ l'.header = l.header
  BY ZenonT(30) DEF MakeLink, DiskInv, Typed, IsLedger
<1>2. TornBodies(l') \subseteq TornBodies(l) /\ TornHeaders(l') \subseteq TornHeaders(l)
  BY <1>1, HeadPoints DEF TornBodies, TornHeaders
<1>3. LeftLinks(l') \subseteq LeftLinks(l)
  <2>1. DOMAIN l.wip = Heads /\ DOMAIN l'.wip = Heads
    BY <1>1 DEF DiskInv, Typed
  <2>2. \A g \in Heads : l.pc # Rename(g)
    BY <1>1, HeadPoints
  <2>3. \A g \in Heads : g # h => l'.wip[g] = l.wip[g]
    BY <1>1, <2>1
  <2> QED BY <1>1, <2>1, <2>2, <2>3 DEF LeftLinks
<1> QED BY <1>2, <1>3 DEF NoNewDamage

LEMMA RenameLinkDamage ==
  ASSUME NEW h \in Heads, DiskInv(l), RenameLink(h) PROVE NoNewDamage
<1>1. /\ l.pc = Rename(h) /\ l'.pc = "idle" /\ l'.wip = [l.wip EXCEPT ![h] = None]
      /\ l'.body = l.body /\ l'.header = l.header
  BY ZenonT(30) DEF RenameLink, DiskInv, Typed, IsLedger
<1>2. TornBodies(l') \subseteq TornBodies(l) /\ TornHeaders(l') \subseteq TornHeaders(l)
  BY <1>1, HeadPoints DEF TornBodies, TornHeaders
<1>3. LeftLinks(l') \subseteq LeftLinks(l)
  <2>1. DOMAIN l.wip = Heads /\ DOMAIN l'.wip = Heads /\ l'.wip[h] = None
    BY <1>1 DEF DiskInv, Typed
  <2>2. \A g \in Heads : g # h => l'.wip[g] = l.wip[g] /\ l.pc # Rename(g)
    BY <1>1, <2>1, HeadPoints
  <2> QED BY <2>1, <2>2 DEF LeftLinks
<1> QED BY <1>2, <1>3 DEF NoNewDamage

\* Every step but a stop damages nothing, and a command fails only on what is
\* damaged.
LEMMA DamageStep ==
  ASSUME DamageInv, [Next]_vars, ~ Stop
  PROVE  NoNewDamage /\ l'.stops = l.stops /\ FailInv(l')
<1> DEFINE G == NoNewDamage /\ l'.stops = l.stops /\ FailInv(l')
<1>1. IsLedger(l) /\ DiskInv(l) /\ l.failed \in BOOLEAN
  BY DEF DamageInv, LedgerInv, DiskInv, Typed, FailInv
<1>2. l.pc \in {"body", "header", "header2", "rename", "frename"} => l.failed = FALSE
  BY <1>1 DEF DamageInv, FailInv
<1>3. ASSUME l'.failed = FALSE PROVE FailInv(l')
  BY <1>3 DEF FailInv
<1>4. ASSUME NEW b \in Ids, Propose(b) PROVE G
  <2>1. l'.stops = l.stops /\ l'.failed = l.failed
    BY ZenonT(30), <1>1, <1>4 DEF Propose, IsLedger
  <2>2. l.failed = FALSE
    BY ZenonT(30), <1>1, <1>4 DEF Propose, Idle
  <2> QED BY <1>1, <1>3, <1>4, <2>1, <2>2, ProposeDamage
<1>5. CASE WriteBody
  <2>1. l'.stops = l.stops /\ l'.failed = l.failed /\ l.pc = "body"
    BY ZenonT(30), <1>1, <1>5 DEF WriteBody, IsLedger
  <2> QED BY <1>1, <1>2, <1>3, <1>5, <2>1, WriteBodyDamage
<1>6. CASE CreateHeader
  <2>1. l'.stops = l.stops /\ l'.failed = l.failed /\ l.pc = "header"
    BY ZenonT(30), <1>1, <1>6 DEF CreateHeader, IsLedger
  <2> QED BY <1>1, <1>2, <1>3, <1>6, <2>1, CreateHeaderDamage
<1>7. CASE WriteHeader
  BY <1>1, <1>2, <1>3, <1>7, WriteHeaderFields, WriteHeaderDamage
<1>8. ASSUME NEW h \in Heads, MakeLink(h) PROVE G
  <2>1. l.pc = Link(h) /\ l.failed = FALSE
    BY ZenonT(30), <1>1, <1>8 DEF MakeLink
  <2>2. CASE l.wip[h] # None
    <3>1. l' = [l EXCEPT !.failed = TRUE]
      BY <1>8, <2>2 DEF MakeLink
    <3>2. /\ l'.stops = l.stops /\ l'.failed = TRUE /\ l'.pc = l.pc /\ l'.wip = l.wip
          /\ l'.body = l.body /\ l'.header = l.header
      BY ZenonT(30), <1>1, <3>1 DEF IsLedger
    <3>3. NoNewDamage
      BY <1>1, <2>1, <3>2, DamageKept, HeadPoints
    <3>4. h \in LeftLinks(l')
      BY <1>1, <2>1, <2>2, <3>2, HeadPoints DEF LeftLinks, DiskInv, Typed
    <3>5. <<"link", h>> \in Damaged(l')
      BY <3>4 DEF Damaged
    <3>6. l'.pc \in {"link", "flink"}
      BY <2>1, <3>2, HeadPoints
    <3> QED BY <3>2, <3>3, <3>5, <3>6 DEF FailInv
  <2>3. CASE l.wip[h] = None
    <3>1. l'.stops = l.stops /\ l'.failed = l.failed
      BY ZenonT(30), <1>1, <1>8, <2>3 DEF MakeLink, IsLedger
    <3> QED BY <1>1, <1>3, <1>8, <2>1, <2>3, <3>1, MakeLinkDamage
  <2> QED BY <2>2, <2>3
<1>9. ASSUME NEW h \in Heads, RenameLink(h) PROVE G
  <2>1. l'.stops = l.stops /\ l'.failed = l.failed /\ l.pc = Rename(h)
    BY ZenonT(30), <1>1, <1>9 DEF RenameLink, IsLedger
  <2> QED BY <1>1, <1>2, <1>3, <1>9, <2>1, RenameLinkDamage, HeadPoints
<1>10. ASSUME l.pc = "idle", l'.pc = "idle", l'.wip = l.wip, l'.body = l.body, l'.header = l.header,
              l'.stops = l.stops, FailInv(l')
       PROVE  G
  BY <1>1, <1>10, DamageKept
<1>11. ASSUME NEW b \in Ids, Finalize(b) PROVE G
  <2>1. /\ l.pc = "idle" /\ l'.stops = l.stops /\ l'.failed = l.failed /\ l'.wip = l.wip
        /\ l'.body = l.body /\ l'.header = l.header
    BY ZenonT(30), <1>1, <1>11 DEF Finalize, Idle, IsLedger
  <2>2. l.failed = FALSE
    BY ZenonT(30), <1>1, <1>11 DEF Finalize, Idle
  <2> QED BY <1>1, <1>3, <2>1, <2>2, DamageKept
<1>12. ASSUME NEW q \in Ranges, FetchHeaders(q) PROVE G
  <2>1. l.pc = "idle" /\ l.failed = FALSE
    BY ZenonT(30), <1>1, <1>12 DEF FetchHeaders, Idle
  <2>2. CASE HeadersPanic(l, q)
    <3>1. l' = [l EXCEPT !.failed = TRUE]
      BY <1>12, <2>2 DEF FetchHeaders
    <3>2. /\ l'.stops = l.stops /\ l'.failed = TRUE /\ l'.pc = l.pc /\ l'.wip = l.wip
          /\ l'.body = l.body /\ l'.header = l.header
      BY ZenonT(30), <1>1, <3>1 DEF IsLedger
    <3>3. PICK b \in Ids : l.header[b] = "empty"
      BY <2>2 DEF HeadersPanic, Unreadable
    <3>4. b \in TornHeaders(l')
      BY <2>1, <3>2, <3>3 DEF TornHeaders
    <3>5. <<"header", b>> \in Damaged(l')
      BY <3>4 DEF Damaged
    <3>6. FailInv(l')
      BY <2>1, <3>2, <3>5 DEF FailInv
    <3> QED BY <1>10, <2>1, <3>2, <3>6
  <2>3. CASE ~ HeadersPanic(l, q)
    <3>1. l' = [l EXCEPT !.events = Append(l.events, fetch_headers(l, q))]
      BY <1>12, <2>3 DEF FetchHeaders
    <3>2. /\ l'.stops = l.stops /\ l'.failed = l.failed /\ l'.pc = l.pc /\ l'.wip = l.wip
          /\ l'.body = l.body /\ l'.header = l.header
      BY ZenonT(30), <1>1, <3>1 DEF IsLedger
    <3> QED BY <1>3, <1>10, <2>1, <3>2
  <2> QED BY <2>2, <2>3
<1>13. ASSUME NEW p \in DOMAIN l.body, FetchPayload(p) PROVE G
  <2>1. l.pc = "idle" /\ l.failed = FALSE
    BY ZenonT(30), <1>1, <1>13 DEF FetchPayload, Idle
  <2>2. CASE p \notin l.payloads /\ l.body[p] = "empty"
    <3>1. l' = [l EXCEPT !.failed = TRUE]
      BY <1>13, <2>2 DEF FetchPayload
    <3>2. /\ l'.stops = l.stops /\ l'.failed = TRUE /\ l'.pc = l.pc /\ l'.wip = l.wip
          /\ l'.body = l.body /\ l'.header = l.header
      BY ZenonT(30), <1>1, <3>1 DEF IsLedger
    <3>3. p \in TornBodies(l')
      BY <2>1, <2>2, <3>2 DEF TornBodies
    <3>4. <<"body", p>> \in Damaged(l')
      BY <3>3 DEF Damaged
    <3>5. FailInv(l')
      BY <2>1, <3>2, <3>4 DEF FailInv
    <3> QED BY <1>10, <2>1, <3>2, <3>5
  <2>3. CASE ~ (p \notin l.payloads /\ l.body[p] = "empty")
    <3>1. l' = [l EXCEPT !.events = Append(l.events, fetch_payload(l, p))]
      BY <1>13, <2>3 DEF FetchPayload
    <3>2. /\ l'.stops = l.stops /\ l'.failed = l.failed /\ l'.pc = l.pc /\ l'.wip = l.wip
          /\ l'.body = l.body /\ l'.header = l.header
      BY ZenonT(30), <1>1, <3>1 DEF IsLedger
    <3> QED BY <1>3, <1>10, <2>1, <3>2
  <2> QED BY <2>2, <2>3
<1>14. CASE Poll
  <2>1. /\ l.pc = "idle" /\ l'.stops = l.stops /\ l'.failed = l.failed /\ l'.pc = l.pc
        /\ l'.wip = l.wip /\ l'.body = l.body /\ l'.header = l.header
    BY ZenonT(30), <1>1, <1>14 DEF Poll, Idle, IsLedger
  <2>2. l.failed = FALSE
    BY ZenonT(30), <1>1, <1>14 DEF Poll, Idle
  <2> QED BY <1>3, <1>10, <2>1, <2>2
<1>15. CASE Restart
  <2>1. l.pc \in {"idle", "link", "flink"}
    BY ZenonT(30), <1>1, <1>15 DEF Restart, DamageInv, FailInv
  <2>2. l' = Started(l, l.stops)
    BY <1>15 DEF Restart
  <2> QED BY <1>1, <1>3, <2>1, <2>2, StartedFields, DamageKept
<1>16. CASE UNCHANGED vars
  BY <1>16 DEF vars, NoNewDamage, DamageInv
<1>17. G => NoNewDamage /\ l'.stops = l.stops /\ FailInv(l')
  OBVIOUS
<1> HIDE DEF G
<1> QED
  BY ZenonT(30), <1>4, <1>5, <1>6, <1>7, <1>8, <1>9, <1>11, <1>12, <1>13, <1>14, <1>15, <1>16, <1>17 DEF Next, Heads

LEMMA NoMoreDamaged == NoNewDamage => Damaged(l') \subseteq Damaged(l)
BY ZenonT(30) DEF NoNewDamage, Damaged

\* A stop damages at most the file or link that is being written.
LEMMA StopDamage ==
  ASSUME DamageInv, Stop
  PROVE  /\ l'.stops = l.stops - 1 /\ l.stops > 0 /\ FailInv(l')
         /\ l.pc \notin {"body", "header2", "rename", "frename"} => NoNewDamage
         /\ \E x : Damaged(l') \subseteq Damaged(l) \cup {x}
<1>1. DiskInv(l)
  BY DEF DamageInv, LedgerInv
<1>2. l.stops > 0 /\ l' = Started(l, l.stops - 1)
  BY DEF Stop
<1>3. /\ l'.pc = "idle" /\ l'.failed = FALSE /\ l'.stops = l.stops - 1
      /\ l'.body = l.body /\ l'.header = l.header /\ l'.wip = l.wip
  BY ZenonT(30), <1>1, <1>2, StartedFields
<1>4. FailInv(l')
  BY <1>3 DEF FailInv
<1>5. l.pc \notin {"body", "header2", "rename", "frename"} => NoNewDamage
  BY <1>1, <1>3, DamageKept
<1>6. DOMAIN l.wip = Heads
  BY <1>1 DEF DiskInv, Typed
<1>7. \E x : Damaged(l') \subseteq Damaged(l) \cup {x}
  <2>1. CASE l.pc = "body"
    <3>1. TornHeaders(l') \subseteq TornHeaders(l)
      BY <1>3, <2>1 DEF TornHeaders
    <3>2. LeftLinks(l') \subseteq LeftLinks(l)
      BY <1>1, <1>3, <2>1, LeftLinksKept
    <3>3. TornBodies(l') \subseteq TornBodies(l) \cup {BodyOf[l.cmd.id]}
      BY <1>3, <2>1 DEF TornBodies
    <3>4. Damaged(l') \subseteq Damaged(l) \cup {<<"body", BodyOf[l.cmd.id]>>}
      BY <3>1, <3>2, <3>3 DEF Damaged
    <3> QED BY <3>4
  <2>2. CASE l.pc = "header2"
    <3>1. TornBodies(l') \subseteq TornBodies(l)
      BY <1>3, <2>2 DEF TornBodies
    <3>2. LeftLinks(l') \subseteq LeftLinks(l)
      BY <1>1, <1>3, <2>2, LeftLinksKept
    <3>3. TornHeaders(l') \subseteq TornHeaders(l) \cup {l.cmd.id}
      BY <1>3, <2>2 DEF TornHeaders
    <3>4. Damaged(l') \subseteq Damaged(l) \cup {<<"header", l.cmd.id>>}
      BY <3>1, <3>2, <3>3 DEF Damaged
    <3> QED BY <3>4
  <2>3. ASSUME NEW h \in Heads, l.pc = Rename(h)
        PROVE  \E x : Damaged(l') \subseteq Damaged(l) \cup {x}
    <3>1. TornBodies(l') \subseteq TornBodies(l) /\ TornHeaders(l') \subseteq TornHeaders(l)
      BY <1>3, <2>3, HeadPoints DEF TornBodies, TornHeaders
    <3>2. LeftLinks(l') \subseteq LeftLinks(l) \cup {h}
      BY <1>3, <1>6, <2>3, HeadPoints DEF LeftLinks
    <3>3. Damaged(l') \subseteq Damaged(l) \cup {<<"link", h>>}
      BY <3>1, <3>2 DEF Damaged
    <3> QED BY <3>3
  <2>4. CASE l.pc \notin {"body", "header2", "rename", "frename"}
    <3>1. Damaged(l') \subseteq Damaged(l)
      BY <1>5, <2>4, NoMoreDamaged
    <3> QED BY <3>1
  <2>5. l.pc \in {"rename", "frename"} => \E h \in Heads : l.pc = Rename(h)
    BY DEF Rename, Heads
  <2> QED BY ZenonT(30), <2>1, <2>2, <2>3, <2>4, <2>5
<1> QED BY <1>2, <1>3, <1>4, <1>5, <1>7

\* As many files and links are damaged, at most, as the process has stopped.
CountInv ==
  /\ IsFiniteSet(Damaged(l)) /\ l.stops \in Nat
  /\ Cardinality(Damaged(l)) <= MaxStops - l.stops

LEMMA CountStep == ASSUME DamageInv, CountInv, [Next]_vars PROVE CountInv'
<1> DEFINE D == Damaged(l)
           E == Damaged(l')
<1>1. MaxStops \in Nat /\ IsFiniteSet(D) /\ l.stops \in Nat /\ Cardinality(D) <= MaxStops - l.stops
  BY LedgerAssumption DEF CountInv
<1>2. Cardinality(D) \in Nat
  BY <1>1, FS_CardinalityType
<1>3. CASE ~ Stop
  <2>1. E \subseteq D /\ l'.stops = l.stops
    BY <1>3, DamageStep, NoMoreDamaged
  <2> HIDE DEF D, E
  <2>2. IsFiniteSet(E) /\ Cardinality(E) <= Cardinality(D) /\ Cardinality(E) \in Nat
    BY <1>1, <2>1, FS_Subset, FS_CardinalityType
  <2>3. IsFiniteSet(E) /\ l'.stops \in Nat /\ Cardinality(E) <= MaxStops - l'.stops
    BY <1>1, <1>2, <2>1, <2>2
  <2> QED BY <2>3 DEF CountInv, E
<1>4. CASE Stop
  <2>1. /\ l'.stops = l.stops - 1 /\ l.stops > 0
        /\ \E x : E \subseteq D \cup {x}
    BY <1>4, StopDamage
  <2>2. PICK x : E \subseteq D \cup {x}
    BY <2>1
  <2> HIDE DEF D, E
  <2> DEFINE F == D \cup {x}
  <2>3. IsFiniteSet(F) /\ Cardinality(F) \in Nat /\ Cardinality(F) <= Cardinality(D) + 1
    <3>1. IsFiniteSet(F) /\ Cardinality(F) = IF x \in D THEN Cardinality(D) ELSE Cardinality(D) + 1
      BY <1>1, FS_AddElement
    <3> QED BY <1>2, <3>1
  <2>4. E \subseteq F
    BY <2>2
  <2> HIDE DEF F
  <2>5. IsFiniteSet(E) /\ Cardinality(E) <= Cardinality(F) /\ Cardinality(E) \in Nat
    BY <2>3, <2>4, FS_Subset, FS_CardinalityType
  <2>6. IsFiniteSet(E) /\ l'.stops \in Nat /\ Cardinality(E) <= MaxStops - l'.stops
    BY <1>1, <1>2, <2>1, <2>3, <2>5
  <2> QED BY <2>6 DEF CountInv, E
<1> QED BY <1>3, <1>4

LEMMA DamageInit == Init => DamageInv /\ CountInv /\ Damaged(l) = {}
<1> SUFFICES ASSUME Init PROVE DamageInv /\ CountInv /\ Damaged(l) = {}
  OBVIOUS
<1>1. /\ l.failed = FALSE /\ l.stops = MaxStops /\ l.pc = "idle"
      /\ l.body = [p \in Bodies |-> "none"] /\ l.header = [b \in Ids |-> "none"]
      /\ l.wip = [h \in Heads |-> None]
  BY DEF Init, Bodies, Heads
<1>2. TornBodies(l) = {} /\ TornHeaders(l) = {} /\ LeftLinks(l) = {}
  BY <1>1 DEF TornBodies, TornHeaders, LeftLinks
<1>3. Damaged(l) = {}
  BY <1>2 DEF Damaged
<1>4. CountInv
  BY <1>1, <1>3, FS_EmptySet, LedgerAssumption DEF CountInv
<1>5. FailInv(l)
  BY <1>1 DEF FailInv
<1> QED BY <1>3, <1>4, <1>5, LedgerInit DEF DamageInv

LEMMA DamageInvStep == ASSUME DamageInv, [Next]_vars PROVE DamageInv'
<1>1. LedgerInv'
  BY LedgerStep DEF DamageInv
<1>2. FailInv(l')
  BY DamageStep, StopDamage
<1> QED BY <1>1, <1>2 DEF DamageInv

LEMMA InvariantsSuffice == ASSUME DamageInv, CountInv PROVE LedgerSurvivesStop
<1> USE DEF DamageInv, LedgerInv, DiskInv, CacheInv
<1>1. TypeOK
  BY DEF Typed, TypeOK
<1>2. ASSUME NEW b \in l.done
      PROVE  /\ l.header[b] = "full" \/ b \in TornHeaders(l)
             /\ l.body[BodyOf[b]] = "full" \/ BodyOf[b] \in TornBodies(l)
  <2>1. b \in Ids /\ BodyOf[b] \in Bodies /\ DOMAIN l.body = Bodies
    BY DEF Typed, Bodies
  <2>2. l.header[b] \in {"empty", "full"} /\ l.body[BodyOf[b]] \in {"empty", "full"}
    BY <2>1 DEF Typed, Whole, Files
  <2>3. ~ (l.pc = "header2" /\ l.cmd.fresh /\ b = l.cmd.id)
    BY DEF Whole
  <2>4. ~ (l.pc = "body" /\ l.cmd.fresh /\ BodyOf[b] = BodyOf[l.cmd.id])
    BY DEF Whole
  <2> QED BY <2>1, <2>2, <2>3, <2>4 DEF TornHeaders, TornBodies
<1>3. HeaderHasBody
  BY <1>2 DEF Whole, HeaderHasBody
<1>4. CacheIndexed
  BY DEF CacheMatches, CacheIndexed
<1>5. CacheOnDisk
  BY <1>2 DEF CacheMatches, CacheOnDisk
<1>6. HeadsReadable
  BY <1>2 DEF Typed, Linked, HeadsReadable
<1>7. FailsOnlyDamaged
  BY ZenonT(30) DEF FailInv, FailsOnlyDamaged
<1>8. DamageBounded
  BY DEF CountInv, DamageBounded
<1> QED BY <1>1, <1>3, <1>4, <1>5, <1>6, <1>7, <1>8 DEF LedgerSurvivesStop

\* Wherever and however often the process stops: the files, the links, the
\* cache and its index agree but for what was damaged, every stop damages one
\* file or link at most, and only what is damaged makes a command fail.
THEOREM LedgerSurvives == Spec => []LedgerSurvivesStop
<1>1. Init => DamageInv /\ CountInv
  BY DamageInit
<1>2. DamageInv /\ CountInv /\ [Next]_vars => DamageInv' /\ CountInv'
  BY DamageInvStep, CountStep
<1>3. DamageInv /\ CountInv => LedgerSurvivesStop
  BY InvariantsSuffice
<1> QED BY <1>1, <1>2, <1>3, PTL DEF Spec

Undamaged == DamageInv /\ Damaged(l) = {}

LEMMA UndamagedStep ==
  ASSUME StopPoints \cap {"body", "header2", "rename", "frename"} = {}, Undamaged, [Next]_vars
  PROVE  Undamaged'
<1>1. NoNewDamage
  <2>1. CASE Stop
    <3>1. l.pc \notin {"body", "header2", "rename", "frename"}
      BY <2>1 DEF Stop
    <3> QED BY <2>1, <3>1, StopDamage DEF Undamaged
  <2>2. CASE ~ Stop
    BY <2>2, DamageStep DEF Undamaged
  <2> QED BY <2>1, <2>2
<1>2. Damaged(l') = {}
  BY <1>1, NoMoreDamaged DEF Undamaged
<1> QED BY <1>2, DamageInvStep DEF Undamaged

\* A process that never stops between the creation and the last write of a
\* file, nor between the two calls that move a link, damages nothing, and no
\* command of consensus ever fails.
THEOREM CommandsAlwaysSucceed ==
  ASSUME StopPoints \cap {"body", "header2", "rename", "frename"} = {}
  PROVE  Spec => [](CommandsSucceed /\ Damaged(l) = {})
<1>1. Init => Undamaged
  BY DamageInit DEF Undamaged
<1>2. Undamaged /\ [Next]_vars => Undamaged'
  BY UndamagedStep
<1>3. Undamaged => CommandsSucceed /\ Damaged(l) = {}
  BY ZenonT(30) DEF Undamaged, DamageInv, FailInv, CommandsSucceed
<1> QED BY <1>1, <1>2, <1>3, PTL DEF Spec

-----------------------------------------------------------------------------
(* Without stops, the ledger implements the in-memory one.  A block is      *)
(* proposed there by the step that completes its header here.               *)

LEMMA SameAncestor ==
  ASSUME NEW b, NEW n PROVE Mock!Ancestor(b, n) = Ancestor(b, n)
BY DEF Mock!Ancestor, Ancestor

LEMMA AncestorZero == ASSUME NEW b PROVE Ancestor(b, 0) = b
<1> DEFINE G(g) == [i \in 0 .. 0 |-> IF i = 0 THEN b
                                     ELSE IF g[i - 1] = "genesis" THEN "genesis" ELSE ParentOf[g[i - 1]]]
           f == CHOOSE g : g = G(g)
<1>1. Ancestor(b, 0) = f[0]
  BY DEF Ancestor
<1>2. \E g : g = G(g)
  <2>1. [i \in 0 .. 0 |-> b] = G([i \in 0 .. 0 |-> b])
    OBVIOUS
  <2> HIDE DEF G
  <2> QED BY <2>1
<1>3. f = G(f)
  <2> HIDE DEF G
  <2> QED BY <1>2
<1> HIDE DEF f
<1> QED BY <1>1, <1>3

\* A whole body belongs to a block whose header is written, or is being.
BodiesUsed ==
  \A p \in Bodies :
    l.body[p] = "full" => \/ \E b \in l.done : BodyOf[b] = p
                          \/ l.pc \in {"header", "header2"} /\ p = BodyOf[l.cmd.id]

MockInv == Undamaged /\ BodiesUsed

LEMMA NothingStops == ASSUME StopPoints = {}, MockInv PROVE ~ Stop /\ ~ Restart
<1>1. l.failed = FALSE
  BY ZenonT(30) DEF MockInv, Undamaged, DamageInv, FailInv
<1>2. ~ Restart
  BY ZenonT(30), <1>1 DEF Restart
<1>3. ~ Stop
  BY DEF Stop
<1> QED BY <1>2, <1>3

LEMMA BodiesUsedStep ==
  ASSUME StopPoints = {}, MockInv, [Next]_vars
  PROVE  BodiesUsed'
<1>1. IsLedger(l) /\ DiskInv(l) /\ l.body \in [Bodies -> Files] /\ l.done \subseteq Ids
  BY DEF MockInv, Undamaged, DamageInv, LedgerInv, DiskInv, Typed
<1>2. ASSUME l'.body = l.body, l'.done = l.done, l.pc \notin {"header", "header2"}
      PROVE  BodiesUsed'
  BY <1>2 DEF MockInv, BodiesUsed
<1>3. ASSUME NEW b \in Ids, Propose(b) PROVE BodiesUsed'
  <2>1. /\ l.pc = "idle" /\ l'.done = l.done
        /\ l'.body = [l.body EXCEPT ![BodyOf[b]] = Create(@)]
    BY <1>1, <1>3 DEF Propose, Idle, IsLedger
  <2>2. \A p \in Bodies : l'.body[p] = "full" => l.body[p] = "full"
    BY <1>1, <2>1 DEF Create
  <2> QED BY <2>1, <2>2 DEF MockInv, BodiesUsed
<1>4. CASE WriteBody
  <2>1. /\ l.pc = "body" /\ l'.done = l.done /\ l'.pc = "header" /\ l'.cmd = l.cmd
        /\ l'.body = [l.body EXCEPT ![BodyOf[l.cmd.id]] = Fill(@, l)]
    BY <1>1, <1>4 DEF WriteBody, IsLedger
  <2>2. \A p \in Bodies : p # BodyOf[l.cmd.id] => l'.body[p] = l.body[p]
    BY <1>1, <2>1
  <2> QED BY <2>1, <2>2 DEF MockInv, BodiesUsed
<1>5. CASE CreateHeader
  <2>1. /\ l.pc = "header" /\ l'.done = l.done /\ l'.pc = "header2" /\ l'.body = l.body
        /\ l'.cmd = [l.cmd EXCEPT !.fresh = l.header[l.cmd.id] = "none"]
    BY <1>1, <1>5 DEF CreateHeader, IsLedger
  <2>2. l.cmd \in Command
    BY <1>1, <2>1 DEF DiskInv, Typed
  <2>3. l'.cmd.id = l.cmd.id
    BY <2>1, <2>2 DEF Command
  <2> QED BY <2>1, <2>3 DEF MockInv, BodiesUsed
<1>6. CASE WriteHeader
  <2> DEFINE c == l.cmd.id
             u == update_cache(l, c)
             d == l.done \cup {c}
             h == [l.header EXCEPT ![c] = Fill(@, l)]
  <2>1. SameDisk(l, u)
    BY <1>1, UpdateCacheDisk
  <2>2. l' = [u EXCEPT !.pc = "link", !.header[c] = Fill(@, l), !.done = @ \cup {c}]
    BY <1>6 DEF WriteHeader
  <2> HIDE DEF u
  <2>3. l' = [u EXCEPT !.pc = "link", !.header = h, !.done = d]
    BY ZenonT(30), <2>1, <2>2 DEF SameDisk, IsLedger
  <2> HIDE DEF d, h
  <2>4. l'.body = l.body /\ l'.done = d
    BY <2>1, <2>3 DEF SameDisk, IsLedger
  <2> QED BY <2>4 DEF MockInv, BodiesUsed, d
<1>7. ASSUME NEW h \in {"proposed", "finalized"}, MakeLink(h) \/ RenameLink(h) PROVE BodiesUsed'
  <2>1. l.pc \in {"link", "rename", "flink", "frename"}
    BY <1>7 DEF MakeLink, RenameLink, Link, Rename
  <2>2. l'.body = l.body /\ l'.done = l.done
    <3>1. CASE MakeLink(h) /\ l.wip[h] # None
      BY <1>1, <3>1 DEF MakeLink, IsLedger
    <3>2. CASE MakeLink(h) /\ l.wip[h] = None
      BY <1>1, <3>2 DEF MakeLink, IsLedger
    <3>3. CASE RenameLink(h)
      BY <1>1, <3>3 DEF RenameLink, IsLedger
    <3> QED BY <1>7, <3>1, <3>2, <3>3
  <2> QED BY <1>2, <2>1, <2>2
<1>8. ASSUME NEW b \in Ids, Finalize(b) PROVE BodiesUsed'
  <2>1. l.pc = "idle" /\ l'.body = l.body /\ l'.done = l.done
    BY <1>1, <1>8 DEF Finalize, Idle, IsLedger
  <2> QED BY <1>2, <2>1
<1>9. CASE (\E q \in Ranges : FetchHeaders(q)) \/ (\E p \in DOMAIN l.body : FetchPayload(p)) \/ Poll
  <2>1. \/ l' = [l EXCEPT !.failed = TRUE]
        \/ \E e : l' = [l EXCEPT !.events = e]
    BY <1>9 DEF FetchHeaders, FetchPayload, Poll
  <2>2. l.pc = "idle" /\ l'.body = l.body /\ l'.done = l.done
    BY <1>1, <1>9, <2>1 DEF FetchHeaders, FetchPayload, Poll, Idle, IsLedger
  <2> QED BY <1>2, <2>2
<1>10. ~ Stop /\ ~ Restart
  BY ZenonT(30), NothingStops
<1>11. CASE UNCHANGED vars
  BY <1>11 DEF vars, MockInv, BodiesUsed
<1> QED BY ZenonT(30), <1>3, <1>4, <1>5, <1>6, <1>7, <1>8, <1>9, <1>10, <1>11 DEF Next

\* What is found is what the in-memory ledger has.
LEMMA SameAnswers ==
  ASSUME MockInv, l.pc = "idle"
  PROVE  /\ \A q \in Ranges : q.num <= MaxNumHeaders => fetch_headers(l, q) = Mock!get_headers(l.done, q)
         /\ \A p \in Bodies : fetch_payload(l, p) = Mock!get_payload(l.done, p)
<1>0. DiskInv(l) /\ CacheInv(l) /\ TornHeaders(l) = {} /\ TornBodies(l) = {}
  <2>1. \A b : b \in TornHeaders(l) => <<"header", b>> \in Damaged(l)
    BY DEF Damaged
  <2>2. \A p : p \in TornBodies(l) => <<"body", p>> \in Damaged(l)
    BY DEF Damaged
  <2> QED BY <2>1, <2>2 DEF MockInv, Undamaged, DamageInv, LedgerInv
<1>1. \A b : HasHeader(l, b) <=> b \in l.done
  <2>1. \A b \in Ids : l.header[b] # "empty"
    BY <1>0 DEF TornHeaders
  <2>2. \A b \in Ids : l.header[b] = "full" <=> b \in l.done
    BY <1>0, <2>1 DEF DiskInv, Typed, Whole, Files
  <2> QED BY <1>0, <2>2 DEF DiskInv, Typed, CacheInv, HasHeader
<1>2. ASSUME NEW q \in Ranges, q.num <= MaxNumHeaders
      PROVE  fetch_headers(l, q) = Mock!get_headers(l.done, q)
  <2>1. (\A i \in 0 .. q.num - 1 : HasHeader(l, Ancestor(q.last, i)))
          <=> \A i \in 0 .. q.num - 1 : Mock!Ancestor(q.last, i) \in l.done
    BY <1>1, SameAncestor
  <2>2. [i \in 1 .. q.num |-> Ancestor(q.last, q.num - i)]
          = [i \in 1 .. q.num |-> Mock!Ancestor(q.last, q.num - i)]
    BY SameAncestor
  <2> QED BY ZenonT(30), <1>2, <2>1, <2>2 DEF fetch_headers, Mock!get_headers
<1>3. ASSUME NEW p \in Bodies PROVE fetch_payload(l, p) = Mock!get_payload(l.done, p)
  <2>1. p \in l.payloads \/ l.body[p] = "full" <=> p \in {BodyOf[b] : b \in l.done}
    <3>1. ASSUME NEW b \in l.done PROVE l.body[BodyOf[b]] = "full"
      <4>1. BodyOf[b] \in Bodies /\ DOMAIN l.body = Bodies
        BY <1>0 DEF DiskInv, Typed, Bodies
      <4>2. l.body[BodyOf[b]] # "empty"
        BY <1>0, <4>1 DEF TornBodies
      <4> QED BY <1>0, <4>1, <4>2 DEF DiskInv, Typed, Whole, Files
    <3>2. p \in l.payloads => p \in {BodyOf[b] : b \in l.done}
      BY <1>0 DEF CacheInv, CacheMatches
    <3>3. l.body[p] = "full" => p \in {BodyOf[b] : b \in l.done}
      BY DEF MockInv, BodiesUsed
    <3> QED BY <3>1, <3>2, <3>3
  <2> QED BY <2>1 DEF fetch_payload, Mock!get_payload
<1> QED BY <1>2, <1>3

LEMMA MockStep ==
  ASSUME StopPoints = {}, \A q \in Ranges : q.num <= MaxNumHeaders, MockInv, [Next]_vars
  PROVE  [Mock!MockNext]_(Mock!mockvars)
<1> DEFINE Same == l'.done = l.done /\ l'.finalized = l.finalized /\ l'.events = l.events
<1>1. IsLedger(l) /\ DiskInv(l)
  BY DEF MockInv, Undamaged, DamageInv, LedgerInv, DiskInv, Typed
<1>2. Same => [Mock!MockNext]_(Mock!mockvars)
  BY DEF Mock!mockvars
<1>3. ASSUME NEW b \in Ids, Propose(b) PROVE Same
  BY <1>1, <1>3 DEF Propose, IsLedger
<1>4. CASE WriteBody \/ CreateHeader
  BY ZenonT(30), <1>1, <1>2, <1>4 DEF WriteBody, CreateHeader, IsLedger
<1>5. CASE WriteHeader
  <2> DEFINE c == l.cmd.id
             u == update_cache(l, c)
             d == l.done \cup {c}
             h == [l.header EXCEPT ![c] = Fill(@, l)]
  <2>1. SameDisk(l, u)
    BY <1>1, UpdateCacheDisk
  <2>2. l' = [u EXCEPT !.pc = "link", !.header[c] = Fill(@, l), !.done = @ \cup {c}]
    BY <1>5 DEF WriteHeader
  <2>3. c \in Ids
    BY <1>1, <1>5 DEF WriteHeader, DiskInv, Typed, Command
  <2> HIDE DEF u
  <2>4. l' = [u EXCEPT !.pc = "link", !.header = h, !.done = d]
    BY ZenonT(30), <2>1, <2>2 DEF SameDisk, IsLedger
  <2> HIDE DEF d, h
  <2>5. l'.done = d /\ l'.finalized = l.finalized /\ l'.events = l.events
    BY <2>1, <2>4 DEF SameDisk, IsLedger
  <2> HIDE DEF c
  <2>6. Mock!MockPropose(c)
    BY <2>5 DEF Mock!MockPropose, d
  <2> QED BY <2>3, <2>6 DEF Mock!MockNext
<1>6. ASSUME NEW h \in {"proposed", "finalized"}, MakeLink(h) \/ RenameLink(h) PROVE Same
  <2>1. CASE MakeLink(h) /\ l.wip[h] # None
    BY <1>1, <2>1 DEF MakeLink, IsLedger
  <2>2. CASE MakeLink(h) /\ l.wip[h] = None
    BY <1>1, <2>2 DEF MakeLink, IsLedger
  <2>3. CASE RenameLink(h)
    BY <1>1, <2>3 DEF RenameLink, IsLedger
  <2> QED BY <1>6, <2>1, <2>2, <2>3
<1>7. ASSUME NEW b \in Ids, Finalize(b) PROVE Mock!MockFinalize(b)
  <2> DEFINE f == {g \in l.finalized : g.seq # SeqNumOf[b]} \cup {[seq |-> SeqNumOf[b], id |-> b]}
  <2>1. l' = [l EXCEPT !.pc = "flink", !.cmd = [id |-> b, fresh |-> FALSE], !.finalized = f]
    BY <1>7 DEF Finalize
  <2> HIDE DEF f
  <2>2. l'.finalized = f /\ l'.done = l.done /\ l'.events = l.events
    BY <1>1, <2>1 DEF IsLedger
  <2>3. SeqNumOf[b] > 0 /\ SeqNumOf[b] - 0 = SeqNumOf[b] /\ 1 .. 0 = {}
    BY LedgerAssumption
  <2>4. Mock!Ancestor(b, 0) = b
    BY SameAncestor, AncestorZero
  <2> QED BY <2>2, <2>3, <2>4 DEF Mock!MockFinalize, f
<1>8. ASSUME NEW q \in Ranges, FetchHeaders(q) PROVE [Mock!MockNext]_(Mock!mockvars)
  <2>1. CASE HeadersPanic(l, q)
    BY <1>1, <1>2, <1>8, <2>1 DEF FetchHeaders, IsLedger
  <2>2. CASE ~ HeadersPanic(l, q)
    <3>1. /\ l'.events = Append(l.events, fetch_headers(l, q)) /\ Len(l.events) < MaxEvents
          /\ l'.done = l.done /\ l'.finalized = l.finalized /\ l.pc = "idle"
      BY <1>1, <1>8, <2>2 DEF FetchHeaders, Idle, IsLedger
    <3>2. Mock!MockFetchHeaders(q)
      BY <3>1, SameAnswers DEF Mock!MockFetchHeaders
    <3> QED BY <3>2 DEF Mock!MockNext
  <2> QED BY <2>1, <2>2
<1>9. ASSUME NEW p \in DOMAIN l.body, FetchPayload(p) PROVE [Mock!MockNext]_(Mock!mockvars)
  <2>0. p \in Bodies /\ p \in Mock!Bodies
    BY <1>1 DEF DiskInv, Typed, Bodies, Mock!Bodies
  <2>1. CASE p \notin l.payloads /\ l.body[p] = "empty"
    BY <1>1, <1>2, <1>9, <2>1 DEF FetchPayload, IsLedger
  <2>2. CASE ~ (p \notin l.payloads /\ l.body[p] = "empty")
    <3>1. /\ l'.events = Append(l.events, fetch_payload(l, p)) /\ Len(l.events) < MaxEvents
          /\ l'.done = l.done /\ l'.finalized = l.finalized /\ l.pc = "idle"
      BY <1>1, <1>9, <2>2 DEF FetchPayload, Idle, IsLedger
    <3>2. Mock!MockFetchPayload(p)
      BY <2>0, <3>1, SameAnswers DEF Mock!MockFetchPayload
    <3> QED BY <2>0, <3>2 DEF Mock!MockNext
  <2> QED BY <2>1, <2>2
<1>10. CASE Poll
  <2>1. /\ l.events # <<>> /\ l'.events = Tail(l.events)
        /\ l'.done = l.done /\ l'.finalized = l.finalized
    BY <1>1, <1>10 DEF Poll, IsLedger
  <2> QED BY <2>1 DEF Mock!MockNext, Mock!MockPoll
<1>11. ~ Stop /\ ~ Restart
  BY ZenonT(30), NothingStops
<1>12. CASE UNCHANGED vars
  BY <1>2, <1>12 DEF vars
<1> QED
  <2>1. \A b \in Ids : Mock!MockFinalize(b) => Mock!MockNext
    BY DEF Mock!MockNext
  <2> HIDE DEF Same
  <2> QED BY ZenonT(30), <1>2, <1>3, <1>4, <1>5, <1>6, <1>7, <1>8, <1>9, <1>10, <1>11, <1>12, <2>1 DEF Next

\* Without stops, and when no more headers are asked for than may be, the
\* ledger of a node answers what the in-memory ledger would answer.
THEOREM LedgerImplementsMock ==
  ASSUME StopPoints = {}, \A q \in Ranges : q.num <= MaxNumHeaders
  PROVE  Spec => ImplementsMock
<1>1. Init => MockInv /\ Mock!MockInit
  <2> SUFFICES ASSUME Init PROVE MockInv /\ Mock!MockInit
    OBVIOUS
  <2>1. BodiesUsed
    BY DEF Init, BodiesUsed, Bodies
  <2>2. Mock!MockInit
    BY DEF Init, Mock!MockInit
  <2> QED BY <2>1, <2>2, DamageInit DEF MockInv, Undamaged
<1>2. MockInv /\ [Next]_vars => MockInv'
  <2>1. StopPoints \cap {"body", "header2", "rename", "frename"} = {}
    OBVIOUS
  <2> QED BY <2>1, UndamagedStep, BodiesUsedStep DEF MockInv
<1>3. MockInv /\ [Next]_vars => [Mock!MockNext]_(Mock!mockvars)
  BY MockStep
<1> QED BY <1>1, <1>2, <1>3, PTL DEF Spec, ImplementsMock, Mock!MockSpec
====
