------------------------------- MODULE Layouts -------------------------------
(***************************************************************************)
(* The OpenFlow structures of src/include/openflow.h and openflow131.h     *)
(* that src/src/myswitch.c reads and writes, as the compiler lays them     *)
(* out; what its tests on a PACKET_OUT or FLOW_MOD read, which use the     *)
(* 1.0 structures on 1.3 messages too; and the length that each message    *)
(* the switch makes states, beside the bytes it pushes.                    *)
(*                                                                         *)
(* The assumptions, which TLC evaluates, are the build-time assertions of  *)
(* the headers, the run-time ones of the functions that make replies and   *)
(* the framing of the messages.                                            *)
(***************************************************************************)
LOCAL INSTANCE Integers
LOCAL INSTANCE Sequences
LOCAL INSTANCE SequencesExt
LOCAL INSTANCE FiniteSetsExt

\* A structure is a sequence of fields <<name, element width, elements>>; each
\* starts at a multiple of its element's width.
AlignUp(n, width) == ((n + width - 1) \div width) * width

EndOf(struct) == FoldLeft(LAMBDA n, f : AlignUp(n, f[2]) + f[2] * f[3], 0, struct)

SizeOf(struct) == AlignUp(EndOf(struct), Max({struct[i][2] : i \in DOMAIN struct}))

OffsetOf(struct, field) ==
    LET i == CHOOSE j \in DOMAIN struct : struct[j][1] = field
    IN  AlignUp(EndOf(SubSeq(struct, 1, i - 1)), struct[i][2])

-----------------------------------------------------------------------------
(* OpenFlow 1.0 *)

ofp_header == << <<"version", 1, 1>>, <<"type", 1, 1>>, <<"length", 2, 1>>, <<"xid", 4, 1>> >>

Header == << <<"header", 4, 2>> >>

ofp_switch_config == Header \o << <<"flags", 2, 1>>, <<"miss_send_len", 2, 1>> >>

ofp_phy_port ==
    << <<"port_no", 2, 1>>, <<"hw_addr", 1, 6>>, <<"name", 1, 16>>, <<"config", 4, 1>>,
       <<"state", 4, 1>>, <<"curr", 4, 1>>, <<"advertised", 4, 1>>,
       <<"supported", 4, 1>>, <<"peer", 4, 1>> >>

ofp_switch_features ==
    Header \o << <<"datapath_id", 8, 1>>, <<"n_buffers", 4, 1>>, <<"n_tables", 1, 1>>,
                 <<"pad", 1, 3>>, <<"capabilities", 4, 1>>, <<"actions", 4, 1>> >>

ofp_packet_in ==
    Header \o << <<"buffer_id", 4, 1>>, <<"total_len", 2, 1>>, <<"in_port", 2, 1>>,
                 <<"reason", 1, 1>>, <<"pad", 1, 1>>, <<"data", 1, 0>> >>

ofp_packet_out ==
    Header \o << <<"buffer_id", 4, 1>>, <<"in_port", 2, 1>>, <<"actions_len", 2, 1>> >>

ofp_match ==
    << <<"wildcards", 4, 1>>, <<"in_port", 2, 1>>, <<"dl_src", 1, 6>>, <<"dl_dst", 1, 6>>,
       <<"dl_vlan", 2, 1>>, <<"dl_vlan_pcp", 1, 1>>, <<"pad1", 1, 1>>, <<"dl_type", 2, 1>>,
       <<"nw_tos", 1, 1>>, <<"nw_proto", 1, 1>>, <<"pad2", 1, 2>>, <<"nw_src", 4, 1>>,
       <<"nw_dst", 4, 1>>, <<"tp_src", 2, 1>>, <<"tp_dst", 2, 1>> >>

ofp_flow_mod ==
    Header \o << <<"match", 4, 10>>, <<"cookie", 8, 1>>, <<"command", 2, 1>>,
                 <<"idle_timeout", 2, 1>>, <<"hard_timeout", 2, 1>>, <<"priority", 2, 1>>,
                 <<"buffer_id", 4, 1>>, <<"out_port", 2, 1>>, <<"flags", 2, 1>> >>

ofp_error_msg == Header \o << <<"type", 2, 1>>, <<"code", 2, 1>> >>

ofp_stats_request == Header \o << <<"type", 2, 1>>, <<"flags", 2, 1>>, <<"body", 1, 0>> >>
ofp_stats_reply   == Header \o << <<"type", 2, 1>>, <<"flags", 2, 1>>, <<"body", 1, 0>> >>

ofp_desc_stats ==
    << <<"mfr_desc", 1, 256>>, <<"hw_desc", 1, 256>>, <<"sw_desc", 1, 256>>,
       <<"serial_num", 1, 32>>, <<"dp_desc", 1, 256>> >>

ether_header == << <<"ether_dhost", 1, 6>>, <<"ether_shost", 1, 6>>, <<"ether_type", 1, 2>> >>

\* The message types, from 0 on.
ofp_type ==
    <<"HELLO", "ERROR", "ECHO_REQUEST", "ECHO_REPLY", "VENDOR", "FEATURES_REQUEST",
      "FEATURES_REPLY", "GET_CONFIG_REQUEST", "GET_CONFIG_REPLY", "SET_CONFIG",
      "PACKET_IN", "FLOW_REMOVED", "PORT_STATUS", "PACKET_OUT", "FLOW_MOD", "PORT_MOD",
      "STATS_REQUEST", "STATS_REPLY", "BARRIER_REQUEST", "BARRIER_REPLY",
      "QUEUE_GET_CONFIG_REQUEST", "QUEUE_GET_CONFIG_REPLY">>

-----------------------------------------------------------------------------
(* OpenFlow 1.3 *)

ofp131_match == << <<"type", 2, 1>>, <<"length", 2, 1>>, <<"oxm_fields", 1, 4>> >>

ofp_oxm_header ==
    << <<"length", 1, 1>>, <<"oxm_field_hm", 1, 1>>, <<"oxm_class", 2, 1>>, <<"data", 1, 0>> >>

ofp131_packet_in ==
    Header \o << <<"buffer_id", 4, 1>>, <<"total_len", 2, 1>>, <<"reason", 1, 1>>,
                 <<"table_id", 1, 1>>, <<"cookie", 8, 1>>, <<"match", 2, 4>> >>

ofp131_type ==
    <<"HELLO", "ERROR", "ECHO_REQUEST", "ECHO_REPLY", "EXPERIMENTER", "FEATURES_REQUEST",
      "FEATURES_REPLY", "GET_CONFIG_REQUEST", "GET_CONFIG_REPLY", "SET_CONFIG",
      "PACKET_IN", "FLOW_REMOVED", "PORT_STATUS", "PACKET_OUT", "FLOW_MOD", "GROUP_MOD",
      "PORT_MOD", "TABLE_MOD", "MULTIPART_REQUEST", "MULTIPART_REPLY", "BARRIER_REQUEST",
      "BARRIER_REPLY", "QUEUE_GET_CONFIG_REQUEST", "QUEUE_GET_CONFIG_REPLY",
      "ROLE_REQUEST", "ROLE_REPLY", "GET_ASYNC_REQUEST", "GET_ASYNC_REPLY", "SET_ASYNC",
      "METER_MOD">>

OFPIT_APPLY_ACTIONS == 4

OFPMP == [DESC |-> 0, GROUP_FEATURES |-> 8, METER_FEATURES |-> 11,
          TABLE_FEATURES |-> 12, PORT_DESC |-> 13]

ofp131_switch_features ==
    Header \o << <<"datapath_id", 8, 1>>, <<"n_buffers", 4, 1>>, <<"n_tables", 1, 1>>,
                 <<"auxiliary_id", 1, 1>>, <<"pad", 1, 2>>, <<"capabilities", 4, 1>>,
                 <<"reserved", 4, 1>> >>

ofp131_table_feature_prop_oxm ==
    << <<"type", 2, 1>>, <<"length", 2, 1>>, <<"oxm_ids", 4, 0>> >>

ofp131_table_features ==
    << <<"length", 2, 1>>, <<"table_id", 1, 1>>, <<"pad", 1, 5>>, <<"name", 1, 32>>,
       <<"metadata_match", 8, 1>>, <<"metadata_write", 8, 1>>, <<"config", 4, 1>>,
       <<"max_entries", 4, 1>> >>

ofp131_multipart_reply ==
    Header \o << <<"type", 2, 1>>, <<"flags", 2, 1>>, <<"pad", 1, 4>>, <<"body", 1, 0>> >>

ofp131_role_request ==
    Header \o << <<"role", 4, 1>>, <<"pad", 1, 4>>, <<"generation_id", 8, 1>> >>

-----------------------------------------------------------------------------
(* What the tests read in a message of the controller's, a sequence of 16 bit  *)
(* words.  Beyond its end there is whatever the buffer held before.            *)

OFPFC_ADD           == 0
OFPFC_MODIFY_STRICT == 2
OFPFC_DELETE        == 3
ETHERTYPE_VLAN      == 33024
ETHERTYPE_LLDP      == 35020

\* The words that the tests tell apart.
Anything == {OFPFC_ADD, OFPFC_MODIFY_STRICT, OFPFC_DELETE, ETHERTYPE_VLAN, ETHERTYPE_LLDP}

WordsAt(m, offset) == IF offset \div 2 < Len(m) THEN {m[offset \div 2 + 1]} ELSE Anything

\* The test on a FLOW_MOD: is it an add or a modify_strict?
FlowModCounts(m) ==
    LET counts(c) == c \in {OFPFC_ADD, OFPFC_MODIFY_STRICT}
    IN  {counts(c) : c \in WordsAt(m, OffsetOf(ofp_flow_mod, "command"))}

\* The ethernet types that packetOutIsLldp can find.  In a tagged frame it looks
\* four ethernet headers further on, not four bytes (myswitch.c:368).
EtherTypes(m) ==
    LET ethernet == SizeOf(ofp_packet_out) + m[OffsetOf(ofp_packet_out, "actions_len") \div 2 + 1]
        type     == ethernet + OffsetOf(ether_header, "ether_type")
        found    == WordsAt(m, type)
    IN  IF ETHERTYPE_VLAN \in found
        THEN (found \ {ETHERTYPE_VLAN}) \cup WordsAt(m, type + 4 * SizeOf(ether_header))
        ELSE found

\* The test on a PACKET_OUT: it counts unless it carries LLDP.
packetOutIsLldp(m) == {t = ETHERTYPE_LLDP : t \in EtherTypes(m)}

Zeros(n) == [i \in 1..n |-> 0]

\* OpenFlow 1.0: a flow_mod with a command; a packet_out with one output action
\* and a frame of an ethernet type.
FlowMod10(command)     == Zeros(28) \o <<command>> \o Zeros(7)
PacketOut10(ethertype) == Zeros(7) \o <<8>> \o Zeros(10) \o <<ethertype>> \o Zeros(23)

\* OpenFlow 1.3: a flow_mod has 48 bytes before its match; a packet_out has a 32
\* bit port, 8 bytes more, and its output action.
FlowMod13(match, instructions) == Zeros(24) \o match \o instructions
MatchInPort  == <<1, 12, 32768, 4, 0, 4, 0, 0>>
MatchAll     == <<1, 4, 0, 0>>
ApplyActions == <<OFPIT_APPLY_ACTIONS, 24>> \o Zeros(10)
PacketOut13(port, ethertype) ==
    Zeros(6) \o port \o Zeros(4) \o <<0, 16, 0, 2, 0>> \o Zeros(9) \o <<ethertype>> \o Zeros(23)

\* The messages of a kind: FLOW_MOD adds a flow for one port; FLOW_MOD_ALL has a
\* match on everything (in 1.0, the delete that clears the table); PACKET_OUT
\* sends the probe's frame on, LLDP a frame of the controller's own (in 1.3 from
\* port OFPP_CONTROLLER).
IP == 2048
MessagesOf(version, kind) ==
    CASE kind = "FLOW_MOD" ->
            IF version = "1.0" THEN {FlowMod10(OFPFC_ADD), FlowMod10(OFPFC_MODIFY_STRICT)}
            ELSE {FlowMod13(MatchInPort, ApplyActions)}
      [] kind = "FLOW_MOD_ALL" ->
            IF version = "1.0" THEN {FlowMod10(OFPFC_DELETE)}
            ELSE {FlowMod13(MatchAll, ApplyActions), FlowMod13(MatchAll, <<>>)}
      [] kind = "PACKET_OUT" ->
            IF version = "1.0" THEN {PacketOut10(IP)} ELSE {PacketOut13(<<0, 4>>, IP)}
      [] kind = "LLDP" ->
            IF version = "1.0" THEN {PacketOut10(ETHERTYPE_LLDP)}
            ELSE {PacketOut13(<<65535, 65533>>, ETHERTYPE_LLDP)}

\* What the tests can say of a message of that kind: "count it"?
VerdictOf(version, kind) ==
    UNION {IF kind \in {"FLOW_MOD", "FLOW_MOD_ALL"} THEN FlowModCounts(m)
           ELSE {~ lldp : lldp \in packetOutIsLldp(m)} : m \in MessagesOf(version, kind)}

-----------------------------------------------------------------------------
(* The messages the switch makes: the length each states and what is pushed *)

BUFLEN == 65536

\* What the controller reads of a 16 bit number that was not put in network order.
Swapped(n) == (n % 256) * 256 + n \div 256

Message(name, states, pushes) == [name |-> name, states |-> states, pushes |-> pushes]
Framed(name, size) == Message(name, size, size)

makeConfigReply ==
    Message("CONFIG_REPLY", Swapped(SizeOf(ofp_switch_config)), SizeOf(ofp_switch_config))

\* Bytes captured from another switch: they state 224 and describe four ports.
makeFeaturesReply ==
    Message("FEATURES_REPLY", 224, SizeOf(ofp_switch_features) + 4 * SizeOf(ofp_phy_port))

ofp13MakeFeaturesReply == Framed("FEATURES_REPLY", SizeOf(ofp131_switch_features))

makeStatsReply     == Framed("STATS_REPLY", SizeOf(ofp_stats_reply))
makeStatsDescReply == Framed("STATS_REPLY", SizeOf(ofp_stats_reply) + SizeOf(ofp_desc_stats))
makeVendorReply    == Framed("ERROR", SizeOf(ofp_error_msg))

\* Both frames are captured too; the 1.3 one has its 40 bytes of payload after
\* the match, padded to a multiple of 8, and two bytes.
makePacketIn == Message("PACKET_IN", 82, OffsetOf(ofp_packet_in, "data") + 64)
ofp13MakePacketIn ==
    Message("PACKET_IN", 82, OffsetOf(ofp131_packet_in, "match") + AlignUp(12, 8) + 2 + 40)

switchLearnDstmac      == Framed("ARP", SizeOf(ofp_packet_in) + 64)
ofp13SwitchLearnDstmac == Framed("ARP", SizeOf(ofp131_packet_in) + 64 + 32)

\* The table's description ends in one property with one field.
tableFeatures ==
    SizeOf(ofp131_table_features) + SizeOf(ofp131_table_feature_prop_oxm) + SizeOf(ofp_oxm_header)

ofp13MakeMultipartReply(type) ==
    LET reply == SizeOf(ofp131_multipart_reply)
    IN  CASE type = OFPMP.PORT_DESC      -> Framed("PORT_DESC_REPLY", reply + 4 * 64)
          [] type = OFPMP.DESC           -> Framed("OTHER_REPLY", reply + SizeOf(ofp_desc_stats))
          [] type = OFPMP.TABLE_FEATURES -> Message("OTHER_REPLY", reply + 72, reply + tableFeatures)
          [] OTHER                       -> Framed("OTHER_REPLY", reply)

\* The messages put together in the handlers.
hello   == Framed("HELLO", SizeOf(ofp_header))
echo    == Framed("OTHER_REPLY", SizeOf(ofp_header))
barrier == Framed("OTHER_REPLY", SizeOf(ofp_header))
role    == Framed("OTHER_REPLY", SizeOf(ofp131_role_request))

Replies ==
    {makeFeaturesReply, ofp13MakeFeaturesReply, makeStatsReply, makeStatsDescReply,
     makeVendorReply, makePacketIn, ofp13MakePacketIn, switchLearnDstmac,
     ofp13SwitchLearnDstmac, hello, echo, barrier, role}
    \cup {ofp13MakeMultipartReply(type) : type \in 0..13}

-----------------------------------------------------------------------------
(* Assumptions *)

\* The OFP_ASSERTs of the two headers.
ASSUME BuildAsserts ==
    /\ SizeOf(ofp_header) = 8
    /\ SizeOf(ofp_switch_config) = 12
    /\ SizeOf(ofp_phy_port) = 48
    /\ SizeOf(ofp_switch_features) = 32
    /\ SizeOf(ofp_packet_in) = 20
    /\ SizeOf(ofp_packet_out) = 16
    /\ SizeOf(ofp_match) = 40
    /\ SizeOf(ofp_flow_mod) = 72
    /\ SizeOf(ofp_error_msg) = 12
    /\ SizeOf(ofp_stats_request) = 12
    /\ SizeOf(ofp_stats_reply) = 12
    /\ SizeOf(ofp_desc_stats) = 1056
    /\ SizeOf(ofp131_table_feature_prop_oxm) = 4
    /\ SizeOf(ofp131_table_features) = 64
    /\ SizeOf(ofp131_role_request) = 24
    /\ OffsetOf(ofp_packet_in, "data") = SizeOf(ofp_packet_in) - 2

\* Where the 1.3 handlers use a 1.0 constant, it is the 1.3 one ("assert(msg->type
\* == OFPT_SET_CONFIG)", myswitch.c:234).
ASSUME SharedTypes ==
    \A type \in {"HELLO", "ECHO_REPLY", "GET_CONFIG_REPLY", "SET_CONFIG"} :
        \E i \in DOMAIN ofp_type : ofp_type[i] = type /\ ofp131_type[i] = type

\* Every message but the first configuration reply states the length it has, and
\* all fit the handlers' buffer.  The configuration's length is not in network
\* order until a SET_CONFIG overwrites it (myswitch.c:36).
ASSUME RepliesFramed ==
    /\ \A r \in Replies : r.states = r.pushes /\ r.pushes < BUFLEN
    /\ makeConfigReply.states = 3072 /\ makeConfigReply.pushes = 12

\* A flow_mod for one port and the return of a probe's frame are counted, in both
\* versions; in 1.3 a flow_mod that matches everything and a packet_out that did
\* not come in on a port are judged by bytes that have nothing to do with them.
ASSUME Judged ==
    /\ \A version \in {"1.0", "1.3"}, kind \in {"FLOW_MOD", "PACKET_OUT"} :
          VerdictOf(version, kind) = {TRUE}
    /\ VerdictOf("1.0", "FLOW_MOD_ALL") = {FALSE} /\ VerdictOf("1.0", "LLDP") = {FALSE}
    /\ VerdictOf("1.3", "FLOW_MOD_ALL") = BOOLEAN /\ VerdictOf("1.3", "LLDP") = BOOLEAN
=============================================================================
