------------------------------- MODULE Codec --------------------------------
(***************************************************************************)
(* What a node writes on the wire and into its write-ahead log, and what   *)
(* it reads back: the hand-written RLP codecs of the router messages, of   *)
(* MonadMessage and of MonadEvent with everything nested in them.          *)
(*                                                                         *)
(* A value is <<variant, arguments>>, a leaf (a struct with a derived      *)
(* codec, a number, a string) is <<type, <<>>>>.  An RLP item is a list of *)
(* items or a string; a string remembers which type it was encoded from,   *)
(* because another type does not read it back as the same value.           *)
(*                                                                         *)
(* Enc_T gives, for each variant of an enum T, the items encode() writes:  *)
(* a prefix, a tag and the fields.  Dec_T gives, for each tag, the variant *)
(* decode() builds and the fields it reads.  Both are transcribed from the *)
(* two functions separately.                                               *)
(***************************************************************************)
EXTENDS Naturals, SequencesExt, TLC

CONSTANT Events     \* the events that are logged: a subset of Values("MonadEvent")

VARIABLES
    stage,      \* "idle", "wire", "event", "log"
    sent,       \* the router message under way
    item,       \* what is on the wire, or in the log
    got,        \* what was decoded from it
    zstd        \* whether the two routers are configured to compress

vars == <<stage, sent, item, got, zstd>>

-----------------------------------------------------------------------------
(* RLP items.                                                              *)

List(s) == [list |-> TRUE, items |-> s, of |-> "list", tag |-> 0]
Str(t) == [list |-> FALSE, items |-> <<>>, of |-> t, tag |-> 0]
U8(n) == [list |-> FALSE, items |-> <<>>, of |-> "u8", tag |-> n]
(* BytesMut is a byte string, whatever bytes it holds.                     *)
BytesMut(i) == [list |-> FALSE, items |-> <<i>>, of |-> "bytes", tag |-> 0]

Leaf(t) == <<t, <<>>>>
Err == Leaf("Err")

V(pre, tag, fields) == [pre |-> pre, tag |-> tag, fields |-> fields]
D(variant, fields) == [variant |-> variant, fields |-> fields, rest |-> <<>>]
Lossy(variant, fields, rest) == [variant |-> variant, fields |-> fields, rest |-> rest]

-----------------------------------------------------------------------------
(* Events of the state machine (executor-glue).                            *)

Enc_MonadEvent == [
    ConsensusEvent       |-> V(<<>>, 1, <<"ConsensusEvent">>),
    BlockSyncEvent       |-> V(<<>>, 2, <<"BlockSyncEvent">>),
    ValidatorEvent       |-> V(<<>>, 3, <<"ValidatorEvent">>),
    MempoolEvent         |-> V(<<>>, 4, <<"MempoolEvent">>),
    ControlPanelEvent    |-> V(<<>>, 5, <<"ControlPanelEvent">>),
    TimestampUpdateEvent |-> V(<<>>, 6, <<"u128">>),
    StateSyncEvent       |-> V(<<>>, 7, <<"StateSyncEvent">>),
    ConfigEvent          |-> V(<<>>, 8, <<"ConfigEvent">>)]

Dec_MonadEvent == <<
    D("ConsensusEvent", <<"ConsensusEvent">>),
    D("BlockSyncEvent", <<"BlockSyncEvent">>),
    D("ValidatorEvent", <<"ValidatorEvent">>),
    D("MempoolEvent", <<"MempoolEvent">>),
    D("ControlPanelEvent", <<"ControlPanelEvent">>),
    D("TimestampUpdateEvent", <<"u128">>),
    D("StateSyncEvent", <<"StateSyncEvent">>),
    D("ConfigEvent", <<"ConfigEvent">>) >>

Enc_ConsensusEvent == [
    Message   |-> V(<<>>, 1, <<"NodeId", "Unverified">>),
    Timeout   |-> V(<<>>, 2, <<"Round">>),
    BlockSync |-> V(<<>>, 3, <<"BlockRange", "FullBlocks">>),
    SendVote  |-> V(<<>>, 4, <<"Round">>)]

Dec_ConsensusEvent == <<
    D("Message", <<"NodeId", "Unverified">>),
    D("Timeout", <<"Round">>),
    D("BlockSync", <<"BlockRange", "FullBlocks">>),
    D("SendVote", <<"Round">>) >>

Enc_BlockSyncEvent == [
    Request           |-> V(<<>>, 1, <<"NodeId", "BlockSyncRequestMessage">>),
    Timeout           |-> V(<<>>, 2, <<"BlockSyncRequestMessage">>),
    SelfRequest       |-> V(<<>>, 3, <<"BlockSyncSelfRequester", "BlockRange">>),
    SelfCancelRequest |-> V(<<>>, 4, <<"BlockSyncSelfRequester", "BlockRange">>),
    Response          |-> V(<<>>, 5, <<"NodeId", "BlockSyncResponseMessage">>),
    SelfResponse      |-> V(<<>>, 6, <<"BlockSyncResponseMessage">>)]

Dec_BlockSyncEvent == <<
    D("Request", <<"NodeId", "BlockSyncRequestMessage">>),
    D("Timeout", <<"BlockSyncRequestMessage">>),
    D("SelfRequest", <<"BlockSyncSelfRequester", "BlockRange">>),
    D("SelfCancelRequest", <<"BlockSyncSelfRequester", "BlockRange">>),
    D("Response", <<"NodeId", "BlockSyncResponseMessage">>),
    D("SelfResponse", <<"BlockSyncResponseMessage">>) >>

Enc_ValidatorEvent == [UpdateValidators |-> V(<<>>, 1, <<"ValidatorSetDataWithEpoch">>)]
Dec_ValidatorEvent == << D("UpdateValidators", <<"ValidatorSetDataWithEpoch">>) >>

(* The two optional certificates of a proposal are encoded into buffers of
   their own: OptTc and OptFc are written by Wrapped below.                *)
Enc_MempoolEvent == [
    Proposal     |-> V(<<>>, 1, <<"ProposalFields", "OptTc", "OptFc">>),
    ForwardedTxs |-> V(<<>>, 2, <<"NodeId", "Txs">>),
    ForwardTxs   |-> V(<<>>, 3, <<"Txs">>)]

Dec_MempoolEvent == <<
    D("Proposal", <<"ProposalFields", "OptTc", "OptFc">>),
    D("ForwardedTxs", <<"NodeId", "Txs">>),
    D("ForwardTxs", <<"Txs">>) >>

Enc_OptTc == [None |-> V(<<>>, 1, <<>>), Some |-> V(<<>>, 2, <<"TimeoutCertificate">>)]
Dec_OptTc == << D("None", <<>>), D("Some", <<"TimeoutCertificate">>) >>
Enc_OptFc == [None |-> V(<<>>, 1, <<>>), Some |-> V(<<>>, 2, <<"FreshProposalCertificate">>)]
Dec_OptFc == << D("None", <<>>), D("Some", <<"FreshProposalCertificate">>) >>

(* The types a proposal writes through a BytesMut.                         *)
Wrapped == {"OptTc", "OptFc"}

Enc_ControlPanelEvent == [
    GetMetricsEvent   |-> V(<<>>, 2, <<>>),
    ClearMetricsEvent |-> V(<<>>, 3, <<>>),
    UpdateLogFilter   |-> V(<<>>, 5, <<"String">>),
    GetPeers          |-> V(<<>>, 6, <<"GetPeers">>),
    GetFullNodes      |-> V(<<>>, 7, <<"GetFullNodes">>),
    ReloadConfig      |-> V(<<>>, 8, <<"ReloadConfig">>)]

Dec_ControlPanelEvent ==
    2 :> D("GetMetricsEvent", <<>>) @@ 3 :> D("ClearMetricsEvent", <<>>)
    @@ 5 :> D("UpdateLogFilter", <<"String">>) @@ 6 :> D("GetPeers", <<"GetPeers">>)
    @@ 7 :> D("GetFullNodes", <<"GetFullNodes">>) @@ 8 :> D("ReloadConfig", <<"ReloadConfig">>)

(* The responses are not written: "only for debugging".                    *)
Enc_GetPeers == [Request |-> V(<<>>, 1, <<>>), Response |-> V(<<>>, 2, <<>>)]
Dec_GetPeers == << D("Request", <<>>), Lossy("Response", <<>>, <<Leaf("empty")>>) >>
Enc_GetFullNodes == [Request |-> V(<<>>, 1, <<>>), Response |-> V(<<>>, 2, <<>>)]
Dec_GetFullNodes == << D("Request", <<>>), Lossy("Response", <<>>, <<Leaf("empty")>>) >>
Enc_ReloadConfig == [Request |-> V(<<>>, 1, <<>>), Response |-> V(<<>>, 2, <<"String">>)]
Dec_ReloadConfig == << D("Request", <<>>), D("Response", <<"String">>) >>

Enc_StateSyncEvent == [
    Inbound     |-> V(<<>>, 1, <<"NodeId", "StateSyncNetworkMessage">>),
    Outbound    |-> V(<<>>, 2, <<"NodeId", "StateSyncNetworkMessage">>),
    DoneSync    |-> V(<<>>, 3, <<"SeqNum">>),
    BlockSync   |-> V(<<>>, 4, <<"BlockRange", "FullBlocks">>),
    RequestSync |-> V(<<>>, 5, <<"BlockHeader", "QuorumCertificate">>)]

Dec_StateSyncEvent == <<
    D("Inbound", <<"NodeId", "StateSyncNetworkMessage">>),
    Lossy("Outbound", <<"NodeId", "StateSyncNetworkMessage">>, <<Leaf("empty")>>),
    D("DoneSync", <<"SeqNum">>),
    D("BlockSync", <<"BlockRange", "FullBlocks">>),
    D("RequestSync", <<"BlockHeader", "QuorumCertificate">>) >>

Enc_ConfigEvent == [
    ConfigUpdate     |-> V(<<>>, 1, <<"ConfigUpdate">>),
    KnownPeersUpdate |-> V(<<>>, 2, <<"KnownPeersUpdate">>),
    LoadError        |-> V(<<>>, 3, <<"String">>)]

Dec_ConfigEvent == <<
    D("ConfigUpdate", <<"ConfigUpdate">>),
    D("KnownPeersUpdate", <<"KnownPeersUpdate">>),
    D("LoadError", <<"String">>) >>

-----------------------------------------------------------------------------
(* Messages between nodes.                                                 *)

Enc_ProtocolMessage == [
    Proposal      |-> V(<<"ProtocolMessage">>, 1, <<"ProposalMessage">>),
    Vote          |-> V(<<"ProtocolMessage">>, 2, <<"VoteMessage">>),
    Timeout       |-> V(<<"ProtocolMessage">>, 3, <<"TimeoutMessage">>),
    RoundRecovery |-> V(<<"ProtocolMessage">>, 4, <<"RoundRecoveryMessage">>),
    NoEndorsement |-> V(<<"ProtocolMessage">>, 5, <<"NoEndorsementMessage">>),
    AdvanceRound  |-> V(<<"ProtocolMessage">>, 6, <<"AdvanceRoundMessage">>)]

Dec_ProtocolMessage == <<
    D("Proposal", <<"ProposalMessage">>),
    D("Vote", <<"VoteMessage">>),
    D("Timeout", <<"TimeoutMessage">>),
    D("RoundRecovery", <<"RoundRecoveryMessage">>),
    D("NoEndorsement", <<"NoEndorsementMessage">>),
    D("AdvanceRound", <<"AdvanceRoundMessage">>) >>

Enc_RoundCertificate == [
    Qc |-> V(<<>>, 1, <<"QuorumCertificate">>), Tc |-> V(<<>>, 2, <<"TimeoutCertificate">>)]
Dec_RoundCertificate == << D("Qc", <<"QuorumCertificate">>), D("Tc", <<"TimeoutCertificate">>) >>

Enc_HighExtend == [
    Tip |-> V(<<>>, 1, <<"ConsensusTip">>), Qc |-> V(<<>>, 2, <<"QuorumCertificate">>)]
Dec_HighExtend == << D("Tip", <<"ConsensusTip">>), D("Qc", <<"QuorumCertificate">>) >>

Enc_HighExtendVote == [
    Tip |-> V(<<>>, 1, <<"ConsensusTip", "Signature">>),
    Qc  |-> V(<<>>, 2, <<"QuorumCertificate">>)]
Dec_HighExtendVote == << D("Tip", <<"ConsensusTip", "Signature">>), D("Qc", <<"QuorumCertificate">>) >>

Enc_FreshProposalCertificate == [
    Nec |-> V(<<>>, 1, <<"NoEndorsementCertificate">>), NoTip |-> V(<<>>, 2, <<"NoTipCertificate">>)]
Dec_FreshProposalCertificate ==
    << D("Nec", <<"NoEndorsementCertificate">>), D("NoTip", <<"NoTipCertificate">>) >>

Enc_BlockSyncSelfRequester == [Consensus |-> V(<<>>, 1, <<>>), StateSync |-> V(<<>>, 2, <<>>)]
Dec_BlockSyncSelfRequester == << D("Consensus", <<>>), D("StateSync", <<>>) >>

Enc_BlockSyncRequestMessage == [
    Headers |-> V(<<"BlockSyncRequestMessage">>, 1, <<"BlockRange">>),
    Payload |-> V(<<"BlockSyncRequestMessage">>, 2, <<"BodyId">>)]
Dec_BlockSyncRequestMessage == << D("Headers", <<"BlockRange">>), D("Payload", <<"BodyId">>) >>

Enc_BlockSyncResponseMessage == [
    HeadersResponse |-> V(<<"BlockSyncResponseMessage">>, 1, <<"BlockSyncHeadersResponse">>),
    PayloadResponse |-> V(<<"BlockSyncResponseMessage">>, 2, <<"BlockSyncBodyResponse">>)]
Dec_BlockSyncResponseMessage ==
    << D("HeadersResponse", <<"BlockSyncHeadersResponse">>), D("PayloadResponse", <<"BlockSyncBodyResponse">>) >>

Enc_BlockSyncHeadersResponse == [
    Found        |-> V(<<"BlockSyncHeadersResponse">>, 1, <<"BlockRange", "Headers">>),
    NotAvailable |-> V(<<"BlockSyncHeadersResponse">>, 2, <<"BlockRange">>)]
Dec_BlockSyncHeadersResponse == << D("Found", <<"BlockRange", "Headers">>), D("NotAvailable", <<"BlockRange">>) >>

Enc_BlockSyncBodyResponse == [
    Found        |-> V(<<"BlockSyncBodyResponse">>, 1, <<"BlockBody">>),
    NotAvailable |-> V(<<"BlockSyncBodyResponse">>, 2, <<"BodyId">>)]
Dec_BlockSyncBodyResponse == << D("Found", <<"BlockBody">>), D("NotAvailable", <<"BodyId">>) >>

Enc_StateSyncNetworkMessage == [
    Request    |-> V(<<"StateSyncNetworkMessage">>, 1, <<"StateSyncRequest">>),
    Response   |-> V(<<"StateSyncNetworkMessage">>, 2, <<"StateSyncResponse">>),
    BadVersion |-> V(<<"StateSyncNetworkMessage">>, 3, <<"StateSyncBadVersion">>),
    Completion |-> V(<<"StateSyncNetworkMessage">>, 4, <<"SessionId">>)]
Dec_StateSyncNetworkMessage == <<
    D("Request", <<"StateSyncRequest">>), D("Response", <<"StateSyncResponse">>),
    D("BadVersion", <<"StateSyncBadVersion">>), D("Completion", <<"SessionId">>) >>

Enc_StateSyncUpsertType == [
    Code          |-> V(<<>>, 1, <<>>), Account       |-> V(<<>>, 2, <<>>),
    Storage       |-> V(<<>>, 3, <<>>), AccountDelete |-> V(<<>>, 4, <<>>),
    StorageDelete |-> V(<<>>, 5, <<>>), Header        |-> V(<<>>, 6, <<>>)]
Dec_StateSyncUpsertType ==
    << D("Code", <<>>), D("Account", <<>>), D("Storage", <<>>), D("AccountDelete", <<>>),
       D("StorageDelete", <<>>), D("Header", <<>>) >>

Enc_MonadMessage == [
    Consensus         |-> V(<<"MonadVersion">>, 1, <<"Unverified">>),
    BlockSyncRequest  |-> V(<<"MonadVersion">>, 2, <<"BlockSyncRequestMessage">>),
    BlockSyncResponse |-> V(<<"MonadVersion">>, 3, <<"BlockSyncResponseMessage">>),
    ForwardedTx       |-> V(<<"MonadVersion">>, 4, <<"Txs">>),
    StateSyncMessage  |-> V(<<"MonadVersion">>, 5, <<"StateSyncNetworkMessage">>)]
Dec_MonadMessage == <<
    D("Consensus", <<"Unverified">>), D("BlockSyncRequest", <<"BlockSyncRequestMessage">>),
    D("BlockSyncResponse", <<"BlockSyncResponseMessage">>), D("ForwardedTx", <<"Txs">>),
    D("StateSyncMessage", <<"StateSyncNetworkMessage">>) >>

Enc_PeerDiscoveryMessage == [
    Ping               |-> V(<<"u16">>, 1, <<"Ping">>), Pong |-> V(<<"u16">>, 2, <<"Pong">>),
    PeerLookupRequest  |-> V(<<"u16">>, 3, <<"PeerLookupRequest">>),
    PeerLookupResponse |-> V(<<"u16">>, 4, <<"PeerLookupResponse">>),
    FullNodeRaptorcastRequest  |-> V(<<"u16">>, 5, <<>>),
    FullNodeRaptorcastResponse |-> V(<<"u16">>, 6, <<>>)]
Dec_PeerDiscoveryMessage == <<
    D("Ping", <<"Ping">>), D("Pong", <<"Pong">>), D("PeerLookupRequest", <<"PeerLookupRequest">>),
    D("PeerLookupResponse", <<"PeerLookupResponse">>),
    D("FullNodeRaptorcastRequest", <<>>), D("FullNodeRaptorcastResponse", <<>>) >>

Enc_FullNodesGroupMessage == [
    PrepareGroup         |-> V(<<"GroupVersion">>, 1, <<"PrepareGroup">>),
    PrepareGroupResponse |-> V(<<"GroupVersion">>, 2, <<"PrepareGroupResponse">>),
    ConfirmGroup         |-> V(<<"GroupVersion">>, 3, <<"ConfirmGroup">>)]
Dec_FullNodesGroupMessage == <<
    D("PrepareGroup", <<"PrepareGroup">>), D("PrepareGroupResponse", <<"PrepareGroupResponse">>),
    D("ConfirmGroup", <<"ConfirmGroup">>) >>

Enc_RouterMessage == [
    AppMessage           |-> V(<<"NetworkMessageVersion">>, 1, <<"MonadMessage">>),
    PeerDiscoveryMessage |-> V(<<"NetworkMessageVersion">>, 2, <<"PeerDiscoveryMessage">>),
    FullNodesGroup       |-> V(<<"NetworkMessageVersion">>, 3, <<"FullNodesGroupMessage">>)]
Dec_RouterMessage == <<
    D("AppMessage", <<"MonadMessage">>), D("PeerDiscoveryMessage", <<"PeerDiscoveryMessage">>),
    D("FullNodesGroup", <<"FullNodesGroupMessage">>) >>

-----------------------------------------------------------------------------
(* The structs whose fields matter here have derived codecs: one list with
   the fields in order.                                                    *)
Structs == [
    Unverified           |-> <<"ConsensusMessage", "Signature">>,
    ConsensusMessage     |-> <<"u32", "ProtocolMessage">>,
    TimeoutMessage       |-> <<"TimeoutInfo", "Signature", "HighExtendVote">>,
    TimeoutCertificate   |-> <<"Epoch", "Round", "TipRounds", "HighExtend">>,
    RoundRecoveryMessage |-> <<"Round", "Epoch", "TimeoutCertificate">>,
    AdvanceRoundMessage  |-> <<"RoundCertificate">>]

Enc == [
    MonadEvent |-> Enc_MonadEvent, ConsensusEvent |-> Enc_ConsensusEvent,
    BlockSyncEvent |-> Enc_BlockSyncEvent, ValidatorEvent |-> Enc_ValidatorEvent,
    MempoolEvent |-> Enc_MempoolEvent, OptTc |-> Enc_OptTc, OptFc |-> Enc_OptFc,
    ControlPanelEvent |-> Enc_ControlPanelEvent, GetPeers |-> Enc_GetPeers,
    GetFullNodes |-> Enc_GetFullNodes, ReloadConfig |-> Enc_ReloadConfig,
    StateSyncEvent |-> Enc_StateSyncEvent, ConfigEvent |-> Enc_ConfigEvent,
    ProtocolMessage |-> Enc_ProtocolMessage, RoundCertificate |-> Enc_RoundCertificate,
    HighExtend |-> Enc_HighExtend, HighExtendVote |-> Enc_HighExtendVote,
    FreshProposalCertificate |-> Enc_FreshProposalCertificate,
    BlockSyncSelfRequester |-> Enc_BlockSyncSelfRequester,
    BlockSyncRequestMessage |-> Enc_BlockSyncRequestMessage,
    BlockSyncResponseMessage |-> Enc_BlockSyncResponseMessage,
    BlockSyncHeadersResponse |-> Enc_BlockSyncHeadersResponse,
    BlockSyncBodyResponse |-> Enc_BlockSyncBodyResponse,
    StateSyncNetworkMessage |-> Enc_StateSyncNetworkMessage,
    StateSyncUpsertType |-> Enc_StateSyncUpsertType,
    MonadMessage |-> Enc_MonadMessage, PeerDiscoveryMessage |-> Enc_PeerDiscoveryMessage,
    FullNodesGroupMessage |-> Enc_FullNodesGroupMessage, RouterMessage |-> Enc_RouterMessage]

Dec == [
    MonadEvent |-> Dec_MonadEvent, ConsensusEvent |-> Dec_ConsensusEvent,
    BlockSyncEvent |-> Dec_BlockSyncEvent, ValidatorEvent |-> Dec_ValidatorEvent,
    MempoolEvent |-> Dec_MempoolEvent, OptTc |-> Dec_OptTc, OptFc |-> Dec_OptFc,
    ControlPanelEvent |-> Dec_ControlPanelEvent, GetPeers |-> Dec_GetPeers,
    GetFullNodes |-> Dec_GetFullNodes, ReloadConfig |-> Dec_ReloadConfig,
    StateSyncEvent |-> Dec_StateSyncEvent, ConfigEvent |-> Dec_ConfigEvent,
    ProtocolMessage |-> Dec_ProtocolMessage, RoundCertificate |-> Dec_RoundCertificate,
    HighExtend |-> Dec_HighExtend, HighExtendVote |-> Dec_HighExtendVote,
    FreshProposalCertificate |-> Dec_FreshProposalCertificate,
    BlockSyncSelfRequester |-> Dec_BlockSyncSelfRequester,
    BlockSyncRequestMessage |-> Dec_BlockSyncRequestMessage,
    BlockSyncResponseMessage |-> Dec_BlockSyncResponseMessage,
    BlockSyncHeadersResponse |-> Dec_BlockSyncHeadersResponse,
    BlockSyncBodyResponse |-> Dec_BlockSyncBodyResponse,
    StateSyncNetworkMessage |-> Dec_StateSyncNetworkMessage,
    StateSyncUpsertType |-> Dec_StateSyncUpsertType,
    MonadMessage |-> Dec_MonadMessage, PeerDiscoveryMessage |-> Dec_PeerDiscoveryMessage,
    FullNodesGroupMessage |-> Dec_FullNodesGroupMessage, RouterMessage |-> Dec_RouterMessage]

-----------------------------------------------------------------------------
(* State sync messages depend on versions, in order of age.                *)

Versions == <<"too_old", "V0", "V1", "V2", "too_new">>
AtLeast(v, w) == \E i, j \in DOMAIN Versions : i >= j /\ Versions[i] = v /\ Versions[j] = w
is_compatible(v) == AtLeast(v, "V0") /\ AtLeast("V2", v)

(* <<"StateSyncRequest", <<version, fields>>>> *)
Request(v) == <<"StateSyncRequest", <<Leaf(v), Leaf("RequestFields")>>>>
ZeroRequest(v) == <<"StateSyncRequest", <<Leaf(v), Leaf("Zeros")>>>>
(* A server answers with the version of the request (WipResponse::new).    *)
Response(client, upsert) == <<"StateSyncResponse", <<Leaf(client), Request(client), Leaf(upsert)>>>>

encode_StateSyncRequest(r) == List(<<Str(r[2][1][1]), Str(r[2][2][1])>>)

decode_StateSyncRequest(i) ==
    IF is_compatible(i.items[1].of)
    THEN <<"StateSyncRequest", <<Leaf(i.items[1].of), Leaf(i.items[2].of)>>>>
    ELSE ZeroRequest(i.items[1].of)

(* Upserts are lists of integers in version 0 and byte strings since; the
   type of an upsert is an enum of its own.                                *)
UpsertItem(format, u) == List(<<List(<<U8(Enc.StateSyncUpsertType[u].tag)>>), Str(format)>>)

encode_StateSyncResponse(r) ==
    List(<<Str(r[2][1][1]), encode_StateSyncRequest(r[2][2]),
           UpsertItem(IF AtLeast(r[2][2][2][1][1], "V1") THEN "Bytes" ELSE "U8s", r[2][3][1])>>)

decode_StateSyncResponse(i) ==
    LET u == i.items[3] tag == u.items[1].items[1].tag
    IN IF /\ u.items[2].of = (IF AtLeast(i.items[1].of, "V1") THEN "Bytes" ELSE "U8s")
          /\ tag \in DOMAIN Dec.StateSyncUpsertType
       THEN <<"StateSyncResponse", <<Leaf(i.items[1].of), decode_StateSyncRequest(i.items[2]),
                                     Leaf(Dec.StateSyncUpsertType[tag].variant)>>>>
       ELSE Err

-----------------------------------------------------------------------------
(* Encoding and decoding by table.                                         *)

RECURSIVE encode(_, _)
encode(T, v) ==
    CASE T \in DOMAIN Enc ->
            LET row == Enc[T][v[1]]
                list == List([i \in DOMAIN row.pre |-> Str(row.pre[i])] \o <<U8(row.tag)>>
                              \o [i \in DOMAIN row.fields |-> encode(row.fields[i], v[2][i])])
            IN IF T \in Wrapped THEN BytesMut(list) ELSE list
      [] T \in DOMAIN Structs -> List([i \in DOMAIN Structs[T] |-> encode(Structs[T][i], v[2][i])])
      [] T = "StateSyncRequest" -> encode_StateSyncRequest(v)
      [] T = "StateSyncResponse" -> encode_StateSyncResponse(v)
      [] OTHER -> Str(v[1])

(* The prefix a decoder expects is the one the encoder of the type writes. *)
Prefix(T) == (CHOOSE row \in Range(Enc[T]) : TRUE).pre

RECURSIVE decode(_, _)
decode(T, i) ==
    CASE T \in DOMAIN Dec ->
            LET p == Len(Prefix(T))
                tag == i.items[p + 1].tag
                row == Dec[T][tag]
                args == [k \in DOMAIN row.fields |-> decode(row.fields[k], i.items[p + 1 + k])]
            IN IF /\ i.list                   \* Header::decode_bytes(buf, true)
                  /\ Len(i.items) > p
                  /\ \A k \in 1 .. p : i.items[k].of = Prefix(T)[k]
                  /\ tag \in DOMAIN Dec[T]
                  /\ Len(i.items) >= p + 1 + Len(row.fields)
                  /\ Err \notin {args[k] : k \in DOMAIN args}
               THEN <<row.variant, args \o row.rest>>
               ELSE Err
      [] T \in DOMAIN Structs ->
            LET args == [k \in DOMAIN Structs[T] |-> decode(Structs[T][k], i.items[k])]
            IN IF i.list /\ Len(i.items) = Len(Structs[T]) /\ Err \notin {args[k] : k \in DOMAIN args}
               THEN <<T, args>> ELSE Err
      [] T = "StateSyncRequest" -> decode_StateSyncRequest(i)
      [] T = "StateSyncResponse" -> decode_StateSyncResponse(i)
      [] OTHER -> IF i.of = T THEN Leaf(T) ELSE Err

(* The router's envelope.  Only application messages are compressed, and
   only if that makes them shorter; the others carry the version of the
   configuration but are never compressed.                                 *)
try_serialize_with_config(m, compress, shrinks) ==
    LET plain == encode("RouterMessage", m)
    IN IF ~ compress THEN plain
       ELSE IF m[1] # "AppMessage" THEN [plain EXCEPT !.items[1] = Str("ZSTDVersion")]
       ELSE IF shrinks
            THEN List(<<Str("ZSTDVersion"), U8(1), Str("u32"), BytesMut(encode("MonadMessage", m[2][1]))>>)
            ELSE plain      \* "compression failed, falling back to uncompressed"

Bad_try_deserialize_with_config(i, allow_zstd) ==
    IF i.items[1].of = "ZSTDVersion"
    THEN <<"AppMessage", <<decode("MonadMessage", i.items[Len(i.items)].items[1])>>>>
    ELSE decode("RouterMessage", i)

try_deserialize_with_config(i, allow_zstd) ==
    LET uncompressed == decode("RouterMessage", [i EXCEPT !.items[1] = Str("NetworkMessageVersion")])
        decompressed == decode("MonadMessage", i.items[4].items[1])
    IN IF i.items[1].of = "ZSTDVersion" /\ i.items[2].tag = 1
       THEN IF allow_zstd /\ Len(i.items) = 4 /\ decompressed # Err
            THEN <<"AppMessage", <<decompressed>>>> ELSE Err
       ELSE IF Len(i.items) = 3 THEN uncompressed ELSE Err      \* ExtraDataInPayload

(* The length() functions that are written by hand, in items: each must be
   the length of what encode() writes, or the list around it is broken.    *)
RECURSIVE Size(_)
Size(i) == IF i.list THEN 1 + FoldLeft(LAMBDA n, x : n + Size(x), 0, i.items) ELSE 1

length_StateSyncUpsertType == 2

length_StateSyncResponse(r) ==
    1 + 1 + Size(encode_StateSyncRequest(r[2][2])) + (1 + length_StateSyncUpsertType + 1)

length_StateSyncNetworkMessage(m) ==
    1 + 1 + 1 + (IF m[1] = "Response" THEN length_StateSyncResponse(m[2][1])
                 ELSE Size(encode(Enc.StateSyncNetworkMessage[m[1]].fields[1], m[2][1])))

length_MonadMessage(m) ==
    1 + 1 + 1 + (IF m[1] = "StateSyncMessage" THEN length_StateSyncNetworkMessage(m[2][1])
                 ELSE Size(encode(Enc.MonadMessage[m[1]].fields[1], m[2][1])))

-----------------------------------------------------------------------------
(* All values of a type.                                                   *)

(* The arguments a variant has and encode() leaves out.                    *)
LostArg(T, variant) ==
    CASE T = "StateSyncEvent" /\ variant = "Outbound" -> <<{Leaf("completion"), Leaf("empty")}>>
      [] T \in {"GetPeers", "GetFullNodes"} /\ variant = "Response" -> <<{Leaf("nodes"), Leaf("empty")}>>
      [] OTHER -> <<>>

RECURSIVE Values(_), Tuples(_)
Tuples(sets) ==
    IF sets = <<>> THEN {<<>>}
    ELSE {<<x>> \o t : x \in Head(sets), t \in Tuples(Tail(sets))}
Values(T) ==
    CASE T \in DOMAIN Enc ->
            UNION {{<<v, args>> : args \in Tuples([k \in DOMAIN Enc[T][v].fields |->
                        Values(Enc[T][v].fields[k])] \o LostArg(T, v))} : v \in DOMAIN Enc[T]}
      [] T \in DOMAIN Structs ->
            {<<T, args>> : args \in Tuples([k \in DOMAIN Structs[T] |-> Values(Structs[T][k])])}
      [] T = "StateSyncRequest" -> {Request(Versions[k]) : k \in DOMAIN Versions}
      [] T = "StateSyncResponse" ->
            {Response(client, u) : client \in {"V0", "V1", "V2"}, u \in DOMAIN Enc.StateSyncUpsertType}
      [] OTHER -> {Leaf(T)}

(* What a value is after a round trip: requests of another version lose
   their fields, and what is not written is read as empty.                 *)
RECURSIVE Kept(_)
Kept(v) ==
    CASE v[1] = "StateSyncRequest" /\ ~ is_compatible(v[2][1][1]) -> ZeroRequest(v[2][1][1])
      [] v[1] \in {"completion", "nodes"} -> Leaf("empty")
      [] OTHER -> <<v[1], [k \in DOMAIN v[2] |-> Kept(v[2][k])]>>

-----------------------------------------------------------------------------
(* MonadMessage::event: what an incoming message becomes.                  *)

event(m) ==
    LET from == Leaf("NodeId") arg == m[2][1]
    IN CASE m[1] = "Consensus" -> <<"ConsensusEvent", <<<<"Message", <<from, arg>>>>>>>>
         [] m[1] = "BlockSyncRequest" -> <<"BlockSyncEvent", <<<<"Request", <<from, arg>>>>>>>>
         [] m[1] = "BlockSyncResponse" -> <<"BlockSyncEvent", <<<<"Response", <<from, arg>>>>>>>>
         [] m[1] = "ForwardedTx" -> <<"MempoolEvent", <<<<"ForwardedTxs", <<from, arg>>>>>>>>
         [] m[1] = "StateSyncMessage" -> <<"StateSyncEvent", <<<<"Inbound", <<from, arg>>>>>>>>

-----------------------------------------------------------------------------
(* The life of a message: serialized by the sender's router, deserialized
   by the receiver's, handed over as an event, logged, and read back.      *)

Nothing == Leaf("Nothing")

Init == stage = "idle" /\ sent = Nothing /\ item = Str("Nothing") /\ got = Nothing
        /\ zstd \in BOOLEAN

try_serialize ==
    /\ stage = "idle"
    /\ \E m \in Values("RouterMessage"), shrinks \in BOOLEAN :
          sent' = m /\ item' = try_serialize_with_config(m, zstd, shrinks)
    /\ stage' = "wire"
    /\ UNCHANGED <<got, zstd>>

try_deserialize ==
    /\ stage = "wire"
    /\ got' = try_deserialize_with_config(item, zstd)
    /\ stage' = "received"
    /\ UNCHANGED <<sent, item, zstd>>

(* The event is logged before it is handled (wal.push).                    *)
LogReceived ==
    /\ stage = "received" /\ got[1] = "AppMessage"
    /\ sent' = event(got[2][1])
    /\ item' = encode("MonadEvent", event(got[2][1]))
    /\ stage' = "log"
    /\ UNCHANGED <<got, zstd>>

(* An event of another source.                                             *)
LogEvent ==
    /\ stage = "idle"
    /\ \E e \in Events : sent' = e /\ item' = encode("MonadEvent", e)
    /\ stage' = "log"
    /\ UNCHANGED <<got, zstd>>

ReadLog ==
    /\ stage = "log"
    /\ got' = decode("MonadEvent", item)
    /\ stage' = "read"
    /\ UNCHANGED <<sent, item, zstd>>

Next == try_serialize \/ try_deserialize \/ LogReceived \/ LogEvent \/ ReadLog

Spec == Init /\ [][Next]_vars

-----------------------------------------------------------------------------
(* Properties.                                                             *)

(* A receiver gets the message that was sent: no two variants share a tag,
   nothing is read in another order or as another type than it was written.
   The one documented exception: the fields of a state sync request of an
   incompatible version are not looked at.                                 *)
WireRoundTrip == stage = "received" => got = Kept(sent)

(* An event read from the log is the event that was handled, apart from
   what the encoders leave out on purpose (the completion channel of an
   outbound state sync message, the control panel's responses).            *)
LogReadBack == stage = "read" => got = Kept(sent)

(* The hand-written length() of a message is the length encode() writes;
   otherwise the list headers around it are wrong and nothing decodes.     *)
LengthsAgree ==
    stage = "wire" /\ sent[1] = "AppMessage" =>
        length_MonadMessage(sent[2][1]) = Size(encode("MonadMessage", sent[2][1]))
=============================================================================
