----------------------------- MODULE Dataplane -----------------------------
(***************************************************************************)
(* The data plane (monad-dataplane): the threads that receive and send     *)
(* over TCP and send over UDP, one section each.                           *)
(***************************************************************************)
EXTENDS Integers, Sequences, FiniteSets, SequencesExt

-----------------------------------------------------------------------------
(***************************************************************************)
(* The receiving half of the TCP data plane and its address list:          *)
(* accept loop and connection limits, one task per connection, the control *)
(* map another thread disconnects through, bans and their expiry.          *)
(*                                                                         *)
(* The tasks (accept, connections, ban expiry) share one thread and        *)
(* interleave at their awaits; the writer (ban, disconnect, trust) is      *)
(* another thread, so a ban is three steps, and the expiry task, which     *)
(* takes the lock of the address list once to look and once to unban, may  *)
(* be overtaken in between.  Time is kept as the age of each ban, which    *)
(* stops growing at BanDuration.                                           *)
(***************************************************************************)

CONSTANTS Ips,              \* remote addresses
          Conns,            \* connection identifiers, used once each
          BanDuration,      \* ticks a ban lasts
          Limit, PerIpLimit,\* tcp_connections_limit, tcp_per_ip_connections_limit
          IngressSize,      \* TCP_INGRESS_CHANNEL_SIZE
          MaxBans, MaxTrust \* bounds: calls of ban, changes of trust


VARIABLES entries,      \* ip -> [trusted, age]; age = Never when not banned
          expiry,       \* notify_ban_expiry: bans on their way to the expiry task
          queue,        \* the expiry task's queue of [ip, age]
          ticker,       \* whether its ticker is set
          expiring,     \* the bans made when it found the front of its queue due to be unbanned
          writer,       \* the ban in progress: [pc, ip, age]
          conn,         \* connection tasks: [ip, pc, token, ctl, late]
          total, perIp, \* num_connections, num_connections_per_ip
          ingress,      \* tcp_ingress channel: connection of each message
          bans, trusts  \* calls made so far

tcp == <<conn, total, perIp, ingress>>
task_state == <<queue, ticker, expiring>>
ban == <<expiry, task_state, writer, bans>>
rxVars == <<entries, ban, tcp, trusts>>

Never == -1
Older(age) == IF age = Never \/ age = BanDuration THEN age ELSE age + 1
Idle == [pc |-> "idle", ip |-> CHOOSE ip \in Ips : TRUE, age |-> Never]
NotExpiring == -1
Free == [ip |-> CHOOSE ip \in Ips : TRUE, pc |-> "free", token |-> "none", ctl |-> FALSE, late |-> 0]

RxTypeOK ==
    /\ entries \in [Ips -> [trusted : BOOLEAN, age : Never..BanDuration]]
    /\ expiry \in Seq([ip : Ips, age : 0..BanDuration])
    /\ queue \in Seq([ip : Ips, age : 0..BanDuration])
    /\ ticker \in BOOLEAN
    /\ expiring \in NotExpiring..MaxBans
    /\ writer \in [pc : {"idle", "notify", "disconnect"}, ip : Ips, age : Never..BanDuration]
    /\ conn \in [Conns -> [ip : Ips, pc : {"free", "spawned", "reading", "sending", "ended", "refused"},
                           token : {"none", "trusted", "unknown"}, ctl : BOOLEAN, late : 0..2]]
    /\ total \in 0..Cardinality(Conns) /\ perIp \in [Ips -> 0..Cardinality(Conns)]
    /\ Len(ingress) <= IngressSize

RxInit ==
    /\ entries \in [Ips -> [trusted : BOOLEAN, age : {Never}]]
    /\ expiry = <<>> /\ queue = <<>> /\ ticker = FALSE /\ expiring = NotExpiring /\ writer = Idle
    /\ conn = [c \in Conns |-> Free] /\ total = 0 /\ perIp = [ip \in Ips |-> 0]
    /\ ingress = <<>> /\ bans = 0 /\ trusts = 0

---------------------------------------------------------------------------
(* The address list *)

status(ip) == IF entries[ip].age # Never THEN "banned"
              ELSE IF entries[ip].trusted THEN "trusted" ELSE "unknown"

SetTrusted(ip, t) ==
    /\ trusts < MaxTrust /\ trusts' = trusts + 1 /\ entries[ip].trusted # t
    /\ entries' = [entries EXCEPT ![ip].trusted = t]
    /\ UNCHANGED <<ban, tcp>>

unban(ip) == [entries EXCEPT ![ip].age = Never]

---------------------------------------------------------------------------
(* DataplaneWriter::ban: list the address, tell the expiry task, disconnect *)

Ban(ip) ==
    /\ writer.pc = "idle" /\ bans < MaxBans
    /\ bans' = bans + 1
    /\ entries' = [entries EXCEPT ![ip].age = 0]
    /\ writer' = [pc |-> "notify", ip |-> ip, age |-> 0]
    /\ UNCHANGED <<expiry, task_state, tcp, trusts>>

BanNotify ==
    /\ writer.pc = "notify"
    /\ expiry' = Append(expiry, [ip |-> writer.ip, age |-> writer.age])
    /\ writer' = [writer EXCEPT !.pc = "disconnect", !.age = Never]
    /\ UNCHANGED <<entries, task_state, bans, tcp, trusts>>

registered(c) == conn[c].pc \in {"reading", "sending"}
disconnect_ip(ip) == [c \in Conns |-> IF registered(c) /\ conn[c].ip = ip
                                      THEN [conn[c] EXCEPT !.ctl = TRUE] ELSE conn[c]]

BanDisconnect ==
    /\ writer.pc = "disconnect"
    /\ conn' = disconnect_ip(writer.ip)
    /\ writer' = Idle
    /\ UNCHANGED <<entries, expiry, task_state, bans, total, perIp, ingress, trusts>>

---------------------------------------------------------------------------
(* The ban expiry task *)

BanReceived ==
    /\ expiry # <<>>
    /\ queue' = Append(queue, Head(expiry)) /\ expiry' = Tail(expiry)
    /\ ticker' = TRUE
    /\ UNCHANGED <<entries, expiring, writer, bans, tcp, trusts>>

\* Fault: a renewed ban is not looked for.
BadRenewed_Over(addrs, ip) == TRUE
Over(addrs, ip) == addrs[ip].age = BanDuration

\* the loop over the queue, to its end or to the next address to unban; banned_at is read
\* under the lock, and released with it
Expire(addrs, q) ==
    LET dropped == {i \in DOMAIN q : \A j \in 1..i : q[j].age = BanDuration /\ ~ Over(addrs, q[j].ip)}
        left == SubSeq(q, Cardinality(dropped) + 1, Len(q))
        found == left # <<>> /\ Head(left).age = BanDuration
    IN /\ queue' = left
       /\ expiring' = IF found THEN bans ELSE NotExpiring
       /\ ticker' = IF found THEN ticker ELSE left # <<>>

\* a tick comes at any time once the ticker is set: an interval's first tick is immediate
ExpiryTick ==
    /\ ticker /\ expiring = NotExpiring
    /\ Expire(entries, queue)
    /\ UNCHANGED <<entries, expiry, writer, bans, tcp, trusts>>

\* unban, under the lock taken again, whatever has happened to the address since
ExpiryUnban ==
    /\ expiring # NotExpiring
    /\ entries' = unban(Head(queue).ip)
    /\ Expire(entries', Tail(queue))
    /\ UNCHANGED <<expiry, writer, bans, tcp, trusts>>

Aged(seq) == [i \in DOMAIN seq |-> [seq[i] EXCEPT !.age = Older(@)]]
RxTick ==
    /\ entries' = [ip \in Ips |-> [entries[ip] EXCEPT !.age = Older(@)]]
    /\ expiry' = Aged(expiry) /\ queue' = Aged(queue)
    /\ writer' = [writer EXCEPT !.age = Older(@)]
    /\ <<entries', expiry', queue', writer'>> # <<entries, expiry, queue, writer>>
    /\ UNCHANGED <<ticker, expiring, bans, tcp, trusts>>

---------------------------------------------------------------------------
(* The accept loop *)

Admits(ip) == \/ status(ip) = "trusted"
              \/ status(ip) = "unknown" /\ total < Limit /\ perIp[ip] < PerIpLimit

Accept(c, ip) ==
    /\ conn[c].pc = "free"
    /\ IF Admits(ip)
       THEN /\ conn' = [conn EXCEPT ![c] = [Free EXCEPT !.ip = ip, !.pc = "spawned", !.token = status(ip)]]
            /\ total' = IF status(ip) = "unknown" THEN total + 1 ELSE total
            /\ perIp' = IF status(ip) = "unknown" THEN [perIp EXCEPT ![ip] = @ + 1] ELSE perIp
       ELSE conn' = [conn EXCEPT ![c].pc = "refused"] /\ UNCHANGED <<total, perIp>>
    /\ UNCHANGED <<entries, ban, ingress, trusts>>

---------------------------------------------------------------------------
(* A connection task; it becomes visible to disconnect when it first runs *)

Register(c) ==
    /\ conn[c].pc = "spawned"
    /\ conn' = [conn EXCEPT ![c].pc = "reading"]
    /\ UNCHANGED <<entries, ban, total, perIp, ingress, trusts>>

\* unregister, then the token goes out of scope with the task
End(c) ==
    /\ conn' = [conn EXCEPT ![c] = [@ EXCEPT !.pc = "ended", !.token = "none", !.ctl = FALSE]]
    /\ total' = IF conn[c].token = "unknown" THEN total - 1 ELSE total
    /\ perIp' = IF conn[c].token = "unknown" THEN [perIp EXCEPT ![conn[c].ip] = @ - 1] ELSE perIp
    /\ UNCHANGED <<entries, ban, ingress, trusts>>

Disconnected(c) == conn[c].pc = "reading" /\ conn[c].ctl /\ End(c)

\* header or body refused, timed out or cut off, or the rate limiter says no
ReadFails(c) == conn[c].pc = "reading" /\ ~conn[c].ctl /\ End(c)

\* a whole message was read; the send waits for room in the channel, deaf to control
ReadMessage(c) ==
    /\ conn[c].pc = "reading" /\ ~conn[c].ctl
    /\ conn' = [conn EXCEPT ![c].pc = "sending"]
    /\ UNCHANGED <<entries, ban, total, perIp, ingress, trusts>>

Enqueue(c) ==
    /\ conn[c].pc = "sending" /\ Len(ingress) < IngressSize
    /\ ingress' = Append(ingress, c)
    /\ conn' = [conn EXCEPT ![c].pc = "reading", ![c].late = IF conn[c].ctl /\ @ < 2 THEN @ + 1 ELSE @]
    /\ UNCHANGED <<entries, ban, total, perIp, trusts>>

tcp_read ==
    /\ ingress # <<>>
    /\ ingress' = Tail(ingress)
    /\ UNCHANGED <<entries, ban, conn, total, perIp, trusts>>

RxNext ==
    \/ \E ip \in Ips : Ban(ip) \/ \E t \in BOOLEAN : SetTrusted(ip, t)
    \/ BanNotify \/ BanDisconnect \/ RxTick \/ tcp_read
    \/ ExpiryTick \/ ExpiryUnban
    \/ expiring = NotExpiring /\ BanReceived
    \/ /\ expiring = NotExpiring
       /\ \E c \in Conns : \/ \E ip \in Ips : Accept(c, ip)
                           \/ Register(c) \/ Disconnected(c) \/ ReadFails(c) \/ ReadMessage(c) \/ Enqueue(c)

RxSpec == RxInit /\ [][RxNext]_rxVars

\* what is weakly fair, by number: the writer finishes its call, the runtime polls ready tasks,
\* time passes and the node reads
RxFair(i) ==
    \/ i = 1 /\ (BanNotify \/ BanDisconnect)
    \/ i = 2 /\ expiring = NotExpiring /\ BanReceived
    \/ i = 3 /\ (ExpiryTick \/ ExpiryUnban)
    \/ i = 4 /\ RxTick
    \/ i = 5 /\ tcp_read
    \/ i = 6 /\ expiring = NotExpiring /\ \E c \in Conns : Register(c)
    \/ i = 7 /\ expiring = NotExpiring /\ \E c \in Conns : Disconnected(c)
    \/ i = 8 /\ expiring = NotExpiring /\ \E c \in Conns : Enqueue(c)

---------------------------------------------------------------------------
(* Properties *)

Tokens(kind) == {c \in Conns : conn[c].token = kind}

\* The connection counters are exactly the live connections that were admitted as unknown,
\* whatever happened to the trust or the ban of their address since they were accepted.
CountersExact ==
    /\ total = Cardinality(Tokens("unknown"))
    /\ \A ip \in Ips : perIp[ip] = Cardinality({c \in Tokens("unknown") : conn[c].ip = ip})

\* After a disconnect was sent to a connection, the most it still delivers is the one message
\* it had already read.
AtMostOneLate == \A c \in Conns : conn[c].late <= 1

\* An address that the expiry task frees has gone a full ban duration since its LAST ban, but for
\* a ban made between the task's look and its unban (ban_expiry.rs:49-53), which ends at once.
BanLasts == \A ip \in Ips : entries[ip].age # Never /\ entries'[ip].age = Never
                             => entries[ip].age = BanDuration \/ expiring < bans

\* Expiry never touches trust: only the trust calls change it.
TrustSurvivesBan == \A ip \in Ips : entries'[ip].trusted # entries[ip].trusted => trusts' # trusts

-----------------------------------------------------------------------------
(***************************************************************************)
(* The sending half of the TCP data plane: the bounded egress channel the  *)
(* node writes to, the task that sorts messages into one channel per peer  *)
(* and one task per peer that connects, sends, waits for more and lingers  *)
(* after an error.  Message n is the n-th call of tcp_write.               *)
(***************************************************************************)

CONSTANTS Peers,           \* socket addresses
          EgressSize,      \* TCP_EGRESS_CHANNEL_SIZE
          QueueLimit,      \* QUEUED_MESSAGE_LIMIT
          MaxMsgs, MaxTasks\* bounds: messages written, connection tasks spawned


VARIABLES egress,        \* tcp_egress channel of [to, n, fits]
          written,       \* number of tcp_write calls
          peer_channels, \* peer -> task that owns its channel, or NoTask
          task,          \* tasks: [to, pc, ch, msg]
          wire,          \* peer -> messages the peer's sockets took whole, in order
          fate           \* n -> what became of message n

txVars == <<egress, written, peer_channels, task, wire, fate>>

NoTask == 0
Ids == 1..MaxTasks
NoMsg == [to |-> CHOOSE p \in Peers : TRUE, n |-> 0, fits |-> TRUE]
Unused == [to |-> CHOOSE p \in Peers : TRUE, pc |-> "unused", ch |-> <<>>, msg |-> NoMsg]
Fates == {"none", "queued", "full", "oversized", "sent", "cut", "failed"}

TxInit ==
    /\ egress = <<>> /\ written = 0
    /\ peer_channels = [p \in Peers |-> NoTask]
    /\ task = [t \in Ids |-> Unused]
    /\ wire = [p \in Peers |-> <<>>]
    /\ fate = [n \in 1..MaxMsgs |-> "none"]

TxTypeOK ==
    /\ Len(egress) <= EgressSize /\ written \in 0..MaxMsgs
    /\ peer_channels \in [Peers -> Ids \cup {NoTask}]
    /\ \A t \in Ids : /\ task[t].pc \in {"unused", "connect", "idle", "send", "linger", "exited"}
                      /\ Len(task[t].ch) <= QueueLimit
    /\ fate \in [1..MaxMsgs -> Fates]

Settle(msgs, f) == [n \in DOMAIN fate |-> IF \E m \in msgs : m.n = n THEN f ELSE fate[n]]

---------------------------------------------------------------------------
(* DataplaneWriter::tcp_write *)

tcp_write(p, fits) ==
    /\ written < MaxMsgs
    /\ written' = written + 1
    /\ IF Len(egress) < EgressSize
       THEN /\ egress' = Append(egress, [to |-> p, n |-> written + 1, fits |-> fits])
            /\ fate' = [fate EXCEPT ![written + 1] = "queued"]
       ELSE /\ fate' = [fate EXCEPT ![written + 1] = "full"]
            /\ UNCHANGED egress
    /\ UNCHANGED <<peer_channels, task, wire>>

---------------------------------------------------------------------------
(* The sorting task: TxState::push, spawning a task for a peer that has none *)

push ==
    /\ egress # <<>>
    /\ egress' = Tail(egress)
    /\ LET m == Head(egress)  own == peer_channels[m.to]
       IN \/ /\ own # NoTask
             /\ IF Len(task[own].ch) < QueueLimit
                THEN task' = [task EXCEPT ![own].ch = Append(@, m)] /\ UNCHANGED fate
                ELSE fate' = Settle({m}, "full") /\ UNCHANGED task
             /\ UNCHANGED peer_channels
          \/ /\ own = NoTask
             /\ \E t \in Ids :
                   /\ task[t].pc = "unused" /\ \A u \in Ids : u < t => task[u].pc # "unused"
                   /\ task' = [task EXCEPT ![t] = [to |-> m.to, pc |-> "connect", ch |-> <<m>>, msg |-> NoMsg]]
                   /\ peer_channels' = [peer_channels EXCEPT ![m.to] = t]
             /\ UNCHANGED fate
    /\ UNCHANGED <<written, wire>>

---------------------------------------------------------------------------
(* A peer's connection task *)

connect(t) ==
    /\ task[t].pc = "connect"
    /\ task' = [task EXCEPT ![t].pc = "idle"]
    /\ UNCHANGED <<egress, written, peer_channels, wire, fate>>

\* the next message; one beyond the length limit is skipped
Take(t) ==
    /\ task[t].pc = "idle" /\ task[t].ch # <<>>
    /\ LET m == Head(task[t].ch)
       IN IF m.fits
          THEN /\ task' = [task EXCEPT ![t].ch = Tail(@), ![t].msg = m, ![t].pc = "send"]
               /\ UNCHANGED fate
          ELSE /\ task' = [task EXCEPT ![t].ch = Tail(@)]
               /\ fate' = Settle({m}, "oversized")
    /\ UNCHANGED <<egress, written, peer_channels, wire>>

\* header and body written: the completion, when there is one, is sent
send_message(t) ==
    /\ task[t].pc = "send"
    /\ wire' = [wire EXCEPT ![task[t].to] = Append(@, task[t].msg.n)]
    /\ fate' = Settle({task[t].msg}, "sent")
    /\ task' = [task EXCEPT ![t].pc = "idle", ![t].msg = NoMsg]
    /\ UNCHANGED <<egress, written, peer_channels>>

\* connecting or writing fails or takes too long: everything queued is thrown away
BadHandle_Fail(t) ==
    /\ task[t].pc \in {"connect", "send"}
    /\ fate' = [n \in DOMAIN fate |-> IF n = task[t].msg.n THEN "cut"
                                      ELSE IF \E m \in ToSet(task[t].ch) : m.n = n THEN "failed" ELSE fate[n]]
    /\ task' = [task EXCEPT ![t].pc = "linger", ![t].ch = <<>>, ![t].msg = NoMsg]
    /\ peer_channels' = [peer_channels EXCEPT ![task[t].to] = NoTask]
    /\ UNCHANGED <<egress, written, wire>>

Fail(t) ==
    /\ task[t].pc \in {"connect", "send"}
    /\ fate' = [n \in DOMAIN fate |-> IF n = task[t].msg.n THEN "cut"
                                      ELSE IF \E m \in ToSet(task[t].ch) : m.n = n THEN "failed" ELSE fate[n]]
    /\ task' = [task EXCEPT ![t].pc = "linger", ![t].ch = <<>>, ![t].msg = NoMsg]
    /\ UNCHANGED <<egress, written, peer_channels, wire>>

\* nothing came for MSG_WAIT_TIMEOUT, or the linger after a failure is over: the handle and
\* the receiver go with the task, and with the receiver what was queued during the linger
Exits(t) == task[t].pc = "linger" \/ (task[t].pc = "idle" /\ task[t].ch = <<>>)

exit(t) ==
    /\ Exits(t)
    /\ fate' = Settle(ToSet(task[t].ch), "failed")
    /\ peer_channels' = [peer_channels EXCEPT ![task[t].to] = NoTask]
    /\ task' = [task EXCEPT ![t].pc = "exited", ![t].ch = <<>>]
    /\ UNCHANGED <<egress, written, wire>>

Work(t) == connect(t) \/ Take(t) \/ send_message(t) \/ exit(t)
TxNext ==
    \/ \E p \in Peers, fits \in BOOLEAN : tcp_write(p, fits)
    \/ push
    \/ \E t \in Ids : connect(t) \/ Take(t) \/ send_message(t) \/ Fail(t) \/ exit(t)

TxSpec == TxInit /\ [][TxNext]_txVars

\* what is weakly fair, by number: the runtime polls ready tasks and every wait of a connection
\* task has a timeout
TxFair(i) ==
    \/ i = 1 /\ push
    \/ i = 2 /\ \E t \in Ids : Work(t) \/ Fail(t)

---------------------------------------------------------------------------
(* Properties *)

Running(p) == {t \in Ids : task[t].to = p /\ task[t].pc \notin {"unused", "exited"}}

\* A transmit task runs for a peer exactly when the peer has an entry in peer_channels, and
\* then there is one: no second connection is opened next to a live or lingering one, and no
\* message is pushed into the channel of a task that is gone.
TaskIffEntry == \A p \in Peers : Running(p) = {peer_channels[p]} \ {NoTask}

\* A peer receives messages in the order the node wrote them, none twice, across failures
\* and reconnections.
WireInOrder == \A p \in Peers : \A i, j \in DOMAIN wire[p] : i < j => wire[p][i] < wire[p][j]

\* A message is on the wire exactly when it counts as sent (its completion fires): a message
\* that was cut off or thrown away never does.
SentIsOnWire == \A n \in 1..written : fate[n] = "sent" <=> \E p \in Peers : n \in ToSet(wire[p])

\* Nothing is lost silently: a message that is still to be sent is in the egress channel, in
\* the channel of a running task, or being written.
QueuedIsSomewhere ==
    \A n \in 1..written : fate[n] = "queued" =>
        \/ \E i \in DOMAIN egress : egress[i].n = n
        \/ \E t \in Ids : /\ task[t].pc \notin {"unused", "exited"}
                          /\ n \in {task[t].msg.n} \cup {m.n : m \in ToSet(task[t].ch)}

-----------------------------------------------------------------------------
(***************************************************************************)
(* The sending half of the UDP data plane: the bounded egress channel, the *)
(* queue the transmit task serves round robin one write at a time, the     *)
(* segment size it keeps on its sockets, and its pacing.  Lengths are in   *)
(* units whose transmission takes one tick at the configured bandwidth.    *)
(* Times are relative to now: lead is next_transmit - now.                 *)
(***************************************************************************)

CONSTANTS Lens, Strides,       \* payload lengths and strides udp_written
          Targets,             \* numbers of targets of a broadcast
          DefaultSegment,      \* DEFAULT_SEGMENT_SIZE
          MaxWrite, MaxSegments, \* MAX_AGGREGATED_WRITE_SIZE, MAX_AGGREGATED_SEGMENTS
          Window,              \* PACING_SLEEP_OVERSHOOT_DETECTION_WINDOW
          UdpEgressSize,          \* UDP_EGRESS_CHANNEL_SIZE
          DirectSocket,        \* whether a direct socket is configured
          MaxUdpMsgs              \* bound: messages (targets) udp_written


VARIABLES udp_egress,      \* udp_egress channel of messages
          udp_call,       \* the udp_write call in progress: [left, len, stride, kind]
          udp_written, udp_dropped, \* messages handed to the channel so far, udp_msgs_dropped
          udp_requested,   \* messages the calls asked for
          udp_queue,       \* messages_to_send
          udp_pc, udp_cur,     \* the transmit task and the message it is sending
          udp_segment,     \* udp_segment_size, what socket_tx was last set to
          udp_lead,        \* next_transmit - now, no lower than Floor
          udp_bucket,      \* leaky udp_bucket of what was sent: bytes above the bandwidth
          udp_out,         \* the last udp_call
          udp_pos          \* message -> its length and how much has left; Cut when a send failed

tx == <<udp_queue, udp_pc, udp_cur, udp_segment>>
udpVars == <<udp_egress, udp_call, udp_written, udp_dropped, udp_requested, tx, udp_lead, udp_bucket, udp_out, udp_pos>>

Cut == -1
\* anything this late is reset to now, also after the udp_call in progress is paid for
Floor == -(Window + 1 + MaxWrite)
NoCall == [left |-> 0, len |-> 0, stride |-> DefaultSegment, kind |-> "broadcast"]
NoUdpMsg == [n |-> 0, len |-> 0, stride |-> DefaultSegment, kind |-> "broadcast", off |-> 0]
NoOut == [n |-> 0, off |-> 0, len |-> 0, segment |-> DefaultSegment, stride |-> DefaultSegment, socket |-> "main"]

max_write_size_for_segment_size(s) ==
    (IF MaxWrite \div s < MaxSegments THEN MaxWrite \div s ELSE MaxSegments) * s

UdpInit ==
    /\ udp_egress = <<>> /\ udp_call = NoCall /\ udp_written = 0 /\ udp_dropped = 0 /\ udp_requested = 0
    /\ udp_queue = <<>> /\ udp_pc = "fill" /\ udp_cur = NoUdpMsg /\ udp_segment = DefaultSegment
    /\ udp_lead = 0 /\ udp_bucket = 0 /\ udp_out = NoOut /\ udp_pos = [n \in 1..MaxUdpMsgs |-> [len |-> 0, sent |-> 0]]

UdpTypeOK ==
    /\ Len(udp_egress) <= UdpEgressSize /\ udp_written + udp_dropped <= udp_requested
    /\ udp_pc \in {"fill", "sleep", "send"} /\ udp_segment \in Strides \cup {DefaultSegment}
    /\ udp_lead \in Floor..MaxWrite /\ udp_bucket \in Nat
    /\ \A n \in 1..MaxUdpMsgs : udp_pos[n].sent \in Cut..udp_pos[n].len

---------------------------------------------------------------------------
(* DataplaneWriter: udp_write_broadcast and udp_write_unicast put one message per *)
(* target into the channel and give up at the first that finds it full;           *)
(* udp_write_direct is the same with one target and the direct kind               *)

Call(k, len, stride, kind) ==
    /\ udp_call.left = 0 /\ udp_requested + k <= MaxUdpMsgs
    /\ udp_requested' = udp_requested + k
    /\ udp_call' = [left |-> k, len |-> len, stride |-> stride, kind |-> kind]
    /\ UNCHANGED <<udp_egress, udp_written, udp_dropped, tx, udp_lead, udp_bucket, udp_out, udp_pos>>

udp_write_broadcast == \E k \in Targets, len \in Lens, stride \in Strides : Call(k, len, stride, "broadcast")
udp_write_direct == \E len \in Lens, stride \in Strides : Call(1, len, stride, "direct")

try_send ==
    /\ udp_call.left > 0
    /\ IF Len(udp_egress) < UdpEgressSize
       THEN /\ udp_egress' = Append(udp_egress, [n |-> udp_written + 1, len |-> udp_call.len, stride |-> udp_call.stride,
                                         kind |-> udp_call.kind, off |-> 0])
            /\ udp_written' = udp_written + 1 /\ udp_call' = [udp_call EXCEPT !.left = @ - 1]
            /\ udp_pos' = [udp_pos EXCEPT ![udp_written + 1].len = udp_call.len]
            /\ UNCHANGED udp_dropped
       ELSE /\ udp_dropped' = udp_dropped + udp_call.left
            /\ udp_call' = [udp_call EXCEPT !.left = 0]
            /\ UNCHANGED <<udp_egress, udp_written, udp_pos>>
    /\ UNCHANGED <<udp_requested, tx, udp_lead, udp_bucket, udp_out>>

---------------------------------------------------------------------------
(* The transmit task *)

\* everything in the channel is moved to the udp_queue before the next udp_call
Receive ==
    /\ udp_pc = "fill" /\ udp_egress # <<>>
    /\ udp_queue' = Append(udp_queue, Head(udp_egress)) /\ udp_egress' = Tail(udp_egress)
    /\ UNCHANGED <<udp_call, udp_written, udp_dropped, udp_requested, udp_pc, udp_cur, udp_segment, udp_lead, udp_bucket, udp_out, udp_pos>>

\* the head of the udp_queue: set the udp_segment size, and see whether pacing makes it wait
BadPacing_Pick ==
    /\ udp_pc = "fill" /\ udp_egress = <<>> /\ udp_queue # <<>>
    /\ udp_cur' = Head(udp_queue) /\ udp_queue' = Tail(udp_queue)
    /\ udp_segment' = Head(udp_queue).stride
    /\ udp_pc' = "send"
    /\ udp_lead' = IF udp_lead < -Window THEN 0 ELSE udp_lead
    /\ UNCHANGED <<udp_egress, udp_call, udp_written, udp_dropped, udp_requested, udp_bucket, udp_out, udp_pos>>

Pick ==
    /\ udp_pc = "fill" /\ udp_egress = <<>> /\ udp_queue # <<>>
    /\ udp_cur' = Head(udp_queue) /\ udp_queue' = Tail(udp_queue)
    /\ udp_segment' = Head(udp_queue).stride
    /\ udp_pc' = IF udp_lead > 0 THEN "sleep" ELSE "send"
    /\ udp_lead' = IF udp_lead < -Window THEN 0 ELSE udp_lead
    /\ UNCHANGED <<udp_egress, udp_call, udp_written, udp_dropped, udp_requested, udp_bucket, udp_out, udp_pos>>

Wake ==
    /\ udp_pc = "sleep" /\ udp_lead <= 0
    /\ udp_pc' = "send"
    /\ UNCHANGED <<udp_egress, udp_call, udp_written, udp_dropped, udp_requested, udp_queue, udp_cur, udp_segment, udp_lead, udp_bucket, udp_out, udp_pos>>

ChunkLen == LET rest == udp_cur.len - udp_cur.off  most == max_write_size_for_segment_size(udp_segment)
            IN IF rest < most THEN rest ELSE most
socket == IF udp_cur.kind = "direct" /\ DirectSocket THEN "direct" ELSE "main"
Chunk == [n |-> udp_cur.n, off |-> udp_cur.off, len |-> ChunkLen, stride |-> udp_cur.stride, socket |-> socket,
          segment |-> IF socket = "direct" THEN DefaultSegment ELSE udp_segment]

\* what is left of the message goes to the end of the udp_queue
Sent ==
    /\ udp_pc = "send" /\ udp_pc' = "fill" /\ udp_cur' = NoUdpMsg
    /\ udp_out' = Chunk /\ udp_pos' = [udp_pos EXCEPT ![udp_cur.n].sent = @ + ChunkLen]
    /\ udp_lead' = udp_lead + ChunkLen /\ udp_bucket' = udp_bucket + ChunkLen
    /\ udp_queue' = IF udp_cur.off + ChunkLen < udp_cur.len
                THEN Append(udp_queue, [udp_cur EXCEPT !.off = @ + ChunkLen]) ELSE udp_queue
    /\ UNCHANGED <<udp_egress, udp_call, udp_written, udp_dropped, udp_requested, udp_segment>>

\* a failed send drops the message with what is left of it, and costs no time
SendFailed ==
    /\ udp_pc = "send" /\ udp_pc' = "fill" /\ udp_cur' = NoUdpMsg
    /\ udp_pos' = [udp_pos EXCEPT ![udp_cur.n].sent = Cut]
    /\ UNCHANGED <<udp_egress, udp_call, udp_written, udp_dropped, udp_requested, udp_queue, udp_segment, udp_lead, udp_bucket, udp_out>>

UdpTick ==
    /\ udp_lead > Floor \/ udp_bucket > 0
    /\ udp_lead' = IF udp_lead > Floor THEN udp_lead - 1 ELSE udp_lead
    /\ udp_bucket' = IF udp_bucket > 0 THEN udp_bucket - 1 ELSE 0
    /\ UNCHANGED <<udp_egress, udp_call, udp_written, udp_dropped, udp_requested, tx, udp_out, udp_pos>>

UdpNext == \/ udp_write_broadcast \/ udp_write_direct \/ try_send
           \/ Receive \/ Pick \/ Wake \/ Sent \/ SendFailed \/ UdpTick

UdpSpec == UdpInit /\ [][UdpNext]_udpVars

\* what is weakly fair, by number: a call in progress goes on, time passes, and the runtime polls
\* the transmit task
UdpFair(i) ==
    \/ i = 1 /\ try_send
    \/ i = 2 /\ UdpTick
    \/ i = 3 /\ (Receive \/ Pick \/ Wake \/ Sent \/ SendFailed)

---------------------------------------------------------------------------
(* Properties *)

\* Whatever the idle times, sleeps that overshoot and slow sends, what leaves in any stretch of
\* time exceeds the configured bandwidth by at most the pacing window and two writes.
Paced == \E s \in Strides : udp_bucket <= Window + 2 * max_write_size_for_segment_size(s)

\* Every udp_call on the main socket is cut exactly at strides: it starts on a stride boundary,
\* the kernel splits it by that stride, and it is within what the kernel aggregates.
SegmentsAreStrides ==
    udp_out.n # 0 /\ udp_out.socket = "main" =>
        /\ udp_out.segment = udp_out.stride /\ udp_out.off % udp_out.stride = 0
        /\ udp_out.len <= MaxWrite /\ udp_out.len <= MaxSegments * udp_out.stride

\* A message leaves in order and without gaps, and nothing of it follows a failed send.
InOrder == \A n \in 1..MaxUdpMsgs :
             udp_pos'[n].sent \notin {Cut, udp_pos[n].sent} =>
               udp_out'.n = n /\ udp_out'.off = udp_pos[n].sent /\ udp_pos'[n].sent = udp_out'.off + udp_out'.len

\* Every message a call asked for is accounted for: still to be offered, in the channel, in the
\* udp_queue, being sent, all gone, cut off, or counted as udp_dropped.
Accounted ==
    LET open == {udp_egress[i].n : i \in DOMAIN udp_egress} \cup {udp_queue[i].n : i \in DOMAIN udp_queue} \cup {udp_cur.n}
    IN /\ udp_requested = udp_written + udp_dropped + udp_call.left
       /\ \A n \in 1..udp_written : n \notin open => udp_pos[n].sent \in {Cut, udp_pos[n].len}

=============================================================================
