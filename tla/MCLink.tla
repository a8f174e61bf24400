------------------------------- MODULE MCLink -------------------------------
(* PDUs of every class with four patterns in their fields, one voice frame  *)
(* with and one without sync, three rate 3/4 blocks, datagrams of up to two *)
(* blocks, every control type and UDP datagrams between well-known and      *)
(* other ports; the patterns of errors are exhaustive for one CSBK, and a   *)
(* sample for the others.                                                   *)
EXTENDS Link

CONSTANTS Kinds, \* which messages to send
          Classes \* of which PDUs

Pattern == [zeros |-> {}, ones |-> 0..407, evens |-> {b \in 0..407 : b % 2 = 0},
            mixed |-> {b \in 0..407 : (b * b + 3 * b) % 11 < 5}]

\* the values that put the pattern on the block
Filled(layout, p) ==
  [f \in {row[1] : row \in layout} |->
     UNION {{row[2] + k : k \in {j \in 0..row[3]-1 : row[5] + row[3] - 1 - j \in Pattern[p]}} :
              row \in {r \in layout : r[1] = f /\ r[5] # NotWritten}}]

\* the fields a class has no choice of
Fixed(class) ==
  CASE class = "PreCSBK"       -> [opcode |-> {5, 4, 3, 2, 0}]
    [] class = "CallAlertACK"  -> [opcode |-> {5}]
    [] class = "CallEmergency" -> [opcode |-> {5, 2, 1, 0}]
    [] class = "CSBKRaw"       -> [opcode |-> {2, 1, 0}]
    [] class = "Unified"       -> [DPF |-> {}]
    [] class = "Response"      -> [DPF |-> {0}]
    [] class = "Unconfirmed"   -> [DPF |-> {1}]
    [] class = "Confirmed"     -> [DPF |-> {1, 0}]
    [] class = "ProprietaryCompressed" -> [DPF |-> 0..3, mfId |-> {4}, opcode |-> {1}]
    [] OTHER -> [none |-> {}]

DataTypeOf(class) ==
  CASE class = "PIHeader" -> 0 [] class = "VoiceHeader" -> 1 [] class = "VoiceTerminator" -> 2
    [] class \in {"PreCSBK", "CallAlertACK", "CallEmergency", "CSBKRaw"} -> 3
    [] class \in {"Unified", "Response", "Unconfirmed", "Confirmed", "ProprietaryCompressed"} -> 6
    [] class = "Raw" -> 7

FieldsOf(class, p) ==
  IF class = "Raw" THEN [data |-> Pattern[p] \cap (0..95)]
  ELSE LET filled == Filled(LayoutOf(class), p)
       IN  [f \in DOMAIN filled |-> IF f \in DOMAIN Fixed(class) THEN Fixed(class)[f] ELSE filled[f]]

PDU(class, p) == [class |-> class, dataType |-> DataTypeOf(class), fields |-> FieldsOf(class, p)]

FrameFields(type, p) == [Filled(VoiceData, p) EXCEPT !.frame_type = type]

DataMessage(class, p) ==
  [kind |-> "data",
   frame |-> [fields |-> FrameFields({1}, p),
              data |-> [kind |-> "dmr", colorCode |-> Pattern[p] \cap (0..3), packet |-> PDU(class, p)]]]

Rate34Message(p) ==
  [kind |-> "rate34",
   frame |-> [fields |-> FrameFields({1}, "evens"),
              data |-> [kind |-> "dmr", colorCode |-> {0},
                        packet |-> [class |-> "Raw", dataType |-> 8,
                                    fields |-> [data |-> RadioBlock({p, 3, 5}, {b \in 0..127 : ((b * b * p) + b) % 5 < 2})]]]]]

VoiceMessage(p, sync) ==
  [kind |-> "voice",
   frame |-> [fields |-> FrameFields(IF sync THEN {0} ELSE {}, p),
              data |-> [kind |-> "voice", isSync |-> sync, colorCode |-> IF sync THEN {} ELSE Pattern[p] \cap (0..3),
                        PI |-> p = "ones" /\ ~sync, LCSS |-> IF sync THEN {} ELSE Pattern[p] \cap {0, 1},
                        ambe |-> << Pattern[p] \cap (0..48), Pattern["mixed"] \cap (0..48), {} >>,
                        center |-> IF sync THEN SyncData ELSE Pattern[p] \cap (0..31)]]]

DatagramMessages ==
  {[kind |-> "datagram", second |-> FALSE, octets |-> octets, payload |-> Pattern[p] \cap (0..8*octets-1)] :
     p \in DOMAIN Pattern, octets \in {0, 1, 8, 9, 20}}
  \cup {[kind |-> "datagram", second |-> TRUE, octets |-> 15, payload |-> Pattern[p] \cap (0..119)] : p \in DOMAIN Pattern}

Ports == {<<15, 161>>, <<15, 168>>, <<15, 172>>, <<200, 7>>}
UDPMessages ==
  [kind : {"udp"}, format : {"advantage", "standard"},
   packet : [ident : {<<1, 2>>}, src_net : {12, 13, 225, 10}, dst_net : {12, 13, 225, 10},
             src_port : Ports, dst_port : Ports, payload : {<<>>, <<9>>, <<9, 8>>, <<9, 8, 7>>}]]

ControlMessages ==
  UNION {[kind : {"control"}, type : {t},
          octets : IF t \in DOMAIN BodyOctets THEN {BodyOctets[t]} ELSE {0, 4}] : t \in Types}

MCMessages ==
  {m \in {DataMessage(c, p) : c \in Classes, p \in DOMAIN Pattern}
         \cup {Rate34Message(p) : p \in 1..3}
         \cup {VoiceMessage(p, sync) : p \in DOMAIN Pattern, sync \in BOOLEAN}
         \cup DatagramMessages \cup ControlMessages : m.kind \in Kinds}
  \cup (IF "udp" \in Kinds THEN UDPMessages ELSE {})

-----------------------------------------------------------------------------
InBurst(places) == {BurstBit(n) : n \in places}
Runs(lengths) == {InBurst((f..f + l - 1) \cap (0..Bits-1)) : f \in 0..Bits-1, l \in lengths}
Pairs(firsts) == {InBurst({f, n}) : f \in firsts, n \in 0..Bits-1}
SlotErrors(width) == {{SlotPlace(a), SlotPlace(b), SlotPlace(c)} : a \in 0..width, b \in 0..18, c \in 0..18}

(* What turns the burst into that of another block, or of another data type. *)
OtherBlocks(firsts) == {InBurst(BPTCEncode({f, f + 1})) : f \in firsts} \cup {InBurst(BPTCEncode({f})) : f \in firsts}
OtherTypes(class) ==
  LET slot(type) == EncodeSlotType({}, type)
  IN  {Inverted(slot(DataTypeOf(class)), slot(type)) : type \in {0, 1, 2, 3, 6, 7}}

Fully(m) == m = DataMessage("PreCSBK", "mixed")

MCDamages(m) ==
  CASE m.kind = "rate34" -> {{BurstBit(n), SlotPlace(n % 19)} : n \in 0..Bits-1}
                              \cup Pairs({7, 100}) \cup {InBurst(n..n+5) : n \in 0..Bits-6}
    [] m.kind = "datagram" -> {n..n+l : n \in 0..151, l \in {0, 7, 15}} \cup {{n, (n * 7) % 152} : n \in 0..151}
    [] m.kind = "voice"  -> {{EmbPlace(a), EmbPlace(b)} : a \in {0, 5, 14}, b \in 0..15}
                              \cup {{VoicePlace(n), VoicePlace((n * 5) % 216)} : n \in 0..215}
    [] m.kind = "data" ->
         IF Fully(m) THEN Runs(1..24) \cup Pairs({0, 5, 60}) \cup SlotErrors(3) \cup OtherBlocks(0..94)
                            \cup OtherTypes("PreCSBK")
         ELSE {InBurst({3, 77}), InBurst(90..97), InBurst(120..140)} \cup OtherBlocks({0, 41, 80})
                \cup OtherTypes(m.frame.data.packet.class)
    [] OTHER -> {}
=============================================================================
