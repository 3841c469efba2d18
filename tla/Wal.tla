-------------------------------- MODULE Wal ---------------------------------
(***************************************************************************)
(* The write-ahead log of a node: events are pushed before they are        *)
(* handled, into files that rotate at a maximal size, and the process or   *)
(* the machine may stop between any two writes.                            *)
(*                                                                         *)
(* A file is a sequence of cells: the header of an event (its length),     *)
(* then as many body cells as the event is long.                           *)
(***************************************************************************)
EXTENDS Naturals, SequencesExt

CONSTANTS
    MaxFileSize,    \* MAX_FILE_SIZE, in cells
    Sizes,          \* the body lengths of events
    MaxEvents,      \* bound on the number of events
    MaxStarts,      \* bound on the number of starts
    sync            \* whether every push is followed by an fsync

VARIABLES
    files,      \* the files of the log, by index + 1
    curr_file_index,
    curr_file_offset,
    synced,     \* how much of the current file is known to be on disk
    unwritten,  \* the cells of a push that are not written yet
    pushed,     \* the sizes of the events whose push has begun, in order
    handled,    \* how many of them the state machine has handled
    starts,
    status      \* "up", "crashed" (the process ended), "off" (the machine did)

vars == <<files, curr_file_index, curr_file_offset, synced, unwritten, pushed, handled, starts, status>>

EVENT_HEADER_LEN == 1

(* The cells of event number e.                                            *)
Header(e, len) == [event |-> e, part |-> 0, len |-> len]
Body(e, len) == [i \in 1 .. len |-> [event |-> e, part |-> i, len |-> len]]

Cur == curr_file_index + 1

-----------------------------------------------------------------------------
Init ==
    /\ files = << <<>> >> /\ curr_file_index = 0 /\ curr_file_offset = 0 /\ synced = 0
    /\ unwritten = <<>> /\ pushed = <<>> /\ handled = 0 /\ starts = 1 /\ status = "up"

(* The check before the first write: begin the next file when the event
   does not fit, cutting the current one at the offset and syncing it.     *)
Rotated(len) ==
    IF curr_file_offset + EVENT_HEADER_LEN + len > MaxFileSize
    THEN /\ files' = [files EXCEPT ![Cur] = SubSeq(@, 1, curr_file_offset)]
                     \o (IF Len(files) > Cur THEN <<>> ELSE << <<>> >>)
         /\ curr_file_index' = curr_file_index + 1
         /\ curr_file_offset' = 0
         /\ synced' = IF Len(files) > Cur THEN Len(files[Cur + 1]) ELSE 0
    ELSE UNCHANGED <<files, curr_file_index, curr_file_offset, synced>>

Bad_PushBegin ==
    /\ status = "up" /\ unwritten = <<>> /\ handled = Len(pushed) /\ handled < MaxEvents
    /\ \E len \in Sizes :
          /\ Rotated(len)
          /\ pushed' = Append(pushed, len)
          /\ unwritten' = Append(Body(Len(pushed) + 1, len), Header(Len(pushed) + 1, len))
    /\ UNCHANGED <<handled, starts, status>>

PushBegin ==
    /\ status = "up" /\ unwritten = <<>> /\ handled = Len(pushed) /\ handled < MaxEvents
    /\ \E len \in Sizes :
          /\ Rotated(len)
          /\ pushed' = Append(pushed, len)
          /\ unwritten' = <<Header(Len(pushed) + 1, len)>> \o Body(Len(pushed) + 1, len)
    /\ UNCHANGED <<handled, starts, status>>

(* write_all appends; a crash may come between any two cells.              *)
PushWrite ==
    /\ status = "up" /\ unwritten # <<>>
    /\ files' = [files EXCEPT ![Cur] = Append(@, Head(unwritten))]
    /\ unwritten' = Tail(unwritten)
    /\ curr_file_offset' = IF Len(unwritten) = 1
                           THEN curr_file_offset + EVENT_HEADER_LEN + Head(unwritten).len
                           ELSE curr_file_offset
    /\ synced' = IF sync /\ Len(unwritten) = 1 THEN Len(files'[Cur]) ELSE synced
    /\ UNCHANGED <<curr_file_index, pushed, handled, starts, status>>

(* state.update, once push has returned.                                   *)
Handle ==
    /\ status = "up" /\ unwritten = <<>> /\ handled < Len(pushed)
    /\ handled' = handled + 1
    /\ UNCHANGED <<files, curr_file_index, curr_file_offset, synced, unwritten, pushed, starts, status>>

(* The process ends: what was written stays.                               *)
Crash ==
    /\ status = "up" /\ status' = "crashed" /\ unwritten' = <<>>
    /\ UNCHANGED <<files, curr_file_index, curr_file_offset, synced, pushed, handled, starts>>

(* The machine ends: the tail of the current file that was not synced may
   be lost.                                                                *)
PowerLoss ==
    /\ status = "up" /\ status' = "off" /\ unwritten' = <<>>
    /\ \E n \in synced .. Len(files[Cur]) : files' = [files EXCEPT ![Cur] = SubSeq(@, 1, n)]
    /\ UNCHANGED <<curr_file_index, curr_file_offset, synced, pushed, handled, starts>>

(* build: file 0, opened for appending, with the offset at 0.  The node
   names the log of each start after the time of the start.                *)
build ==
    /\ status # "up" /\ starts < MaxStarts
    /\ status' = "up" /\ starts' = starts + 1
    /\ curr_file_index' = 0 /\ curr_file_offset' = 0
    /\ files' = << <<>> >> /\ synced' = 0 /\ pushed' = <<>> /\ handled' = 0
    /\ UNCHANGED unwritten

Next == PushBegin \/ PushWrite \/ Handle \/ Crash \/ PowerLoss \/ build

Spec == Init /\ [][Next]_vars

-----------------------------------------------------------------------------
(* Reading: load_one until the file ends.  A header that is followed by
   other cells than the body of its event, or cells in the place of a
   header, are bytes that deserialize to an error: events() panics.        *)

Panic == <<0>>

RECURSIVE load_from(_, _)
load_from(f, at) ==
    IF at > Len(f) \/ at + f[at].len > Len(f) THEN <<>>     \* UnexpectedEof
    ELSE IF f[at].part # 0 \/ SubSeq(f, at + 1, at + f[at].len) # Body(f[at].event, f[at].len)
         THEN Panic
         ELSE <<f[at].event>> \o load_from(f, at + EVENT_HEADER_LEN + f[at].len)

events(f) == load_from(f, 1)

(* What a reader finds in the whole log.                                   *)
Logged == FoldLeft(LAMBDA acc, f : acc \o events(f), <<>>, files)

-----------------------------------------------------------------------------
(* Properties.                                                             *)

TypeOK ==
    /\ curr_file_index < Len(files)
    /\ handled \in 0 .. Len(pushed) /\ status \in {"up", "crashed", "off"} /\ starts \in 1 .. MaxStarts
    /\ curr_file_offset \in Nat /\ synced \in 0 .. Len(files[Cur])

(* Whatever stops the node, the log can be read, and what is read is the
   beginning of what was pushed, in order and without a gap: a rotation
   cuts no event and an event torn by the crash ends the log cleanly.      *)
LogIsPrefix == IsPrefix(Logged, [i \in DOMAIN pushed |-> i])

(* An event that the state machine has handled is in the log, unless the
   machine lost what was not synced: pushed first, handled afterwards.     *)
HandledIsLogged == status # "off" \/ sync => Len(Logged) >= handled

=============================================================================
