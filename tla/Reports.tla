------------------------------ MODULE Reports ------------------------------
(***************************************************************************)
(* The MQTT reports as text in buffers of fixed size. Formatting is         *)
(* abstracted to the number of characters it takes: a list is "[", its       *)
(* entries with commas between them, and "]", cut off where its buffer ends. *)
(* A report that is cut off is not JSON, and the server drops it whole.      *)
(*                                                                         *)
(* The second half is about the frames the firmware sends to the server      *)
(* over UDP, and what the server makes of them. A frame is its length, its   *)
(* version, its list of neighbors and whether its checksum agrees; the other  *)
(* fields are copied unchanged.                                              *)
(***************************************************************************)
EXTENDS Integers, TLAPS

KERNEL_SIZE == 9
MAX_ACTIVATIONS == 8
MAX_NEIGHBORS == 8
MQTT_TOPOLOGY_NEIGHBOR_SAMPLE_LIMIT == 8
MQTT_TOPOLOGY_ROUTE_SAMPLE_LIMIT == 16

MacText == 17

\* The characters of one entry, given those of the numbers in it.
NeighborText(rssi, last_seen) == 40 + MacText + rssi + last_seen + 1
RuleText(value) == 16 + 1 + value
RouteText == 2 + MacText

\* The loops' offset when i entries of a list have been formatted, of so many characters
\* together: a bracket before the first, a comma before every other one.
Offset(i, text) == IF i = 0 THEN 1 ELSE i + text

\* The entries, each of w characters, the loop formats, and counts, into a buffer of that
\* size; the last one may be cut off.
Formatted(n, w, size) == {i \in 0 .. n - 1 : Offset(i, i * w) < size}

\* The list has all its entries and its closing bracket.
Complete(n, text, size) == Offset(n, text) + 1 < size

\* format_kernel_json, format_activations_json, format_neighbors_json and the lists in
\* mqtt_publish_topology. The numbers in the kernel and the rules take so many characters
\* together; neighbors are of the widest kind that occurs.
KernelComplete(weights) == Complete(KERNEL_SIZE, weights, 192)
ActivationsComplete(count, values) == Complete(count, count * RuleText(0) + values, 256)
StateNeighborsComplete(n, rssi, last_seen) == Complete(n, n * NeighborText(rssi, last_seen), 768)
TopologyNeighborsComplete(n, rssi, last_seen) ==
    Complete(n, n * NeighborText(rssi, last_seen), 512)
RoutesComplete(n) == Complete(n, n * RouteText, 640)

\* The whole report: its own text, numbers of at most so many characters, and lists no
\* longer than their buffers.
Uint8Text == 3
Uint32Text == 10
IntText == 11

\* The longest text of a float with four digits: the sign and 39 digits of -3.4E38.
FloatText == 45

StateText(sum, kernel, activations, neighbors) ==
    307 + MacText + 63 + 127 + 7 * Uint8Text + 2 * IntText + 5 * Uint32Text + Uint8Text
        + sum + kernel + activations + neighbors

TopologyText(neighbors, routes) ==
    236 + MacText + 2 * Uint8Text + 6 * IntText + 5 + neighbors + 2 * routes

\* The client's buffer, and a PUBLISH with QoS 0 in it: topic of at most 15 characters.
ClientBuffer == 4096
PublishSize(text) == 5 + 2 + 15 + text
-----------------------------------------------------------------------------
\* Whatever the lists are, a report of either kind fits its own buffer and is sent in
\* one write of the MQTT client (mqtt_handler.cpp: payload).
THEOREM ReportsFit ==
    ASSUME NEW sum \in 1 .. 47, NEW kernel \in 0 .. 191, NEW activations \in 0 .. 255,
           NEW stateNeighbors \in 0 .. 767, NEW neighbors \in 0 .. 511,
           NEW routes \in 0 .. 639
    PROVE  LET state == StateText(sum, kernel, activations, stateNeighbors)
               topology == TopologyText(neighbors, routes)
           IN  /\ state < 2200 /\ PublishSize(state) <= ClientBuffer
               /\ topology < 2400 /\ PublishSize(topology) <= ClientBuffer
BY DEF StateText, TopologyText, PublishSize, ClientBuffer, MacText, Uint8Text, Uint32Text,
       IntText

\* Of the lists of a state report, that of the neighbors is complete whatever the table
\* holds; the kernel is complete just if its weights take at most 181 characters, a list of
\* rules if their values leave room for the rest of it: eight rules, if the values take at
\* most 110. Weights and values are floats that no handler bounds, of up to FloatText
\* characters: five large ones in the kernel, or three in eight rules with the others at
\* their shortest, and the state report is not JSON until they are replaced.
THEOREM StateListsFit ==
    ASSUME NEW n \in 0 .. MAX_NEIGHBORS, NEW rssi \in 1 .. 4, NEW last_seen \in 1 .. 10,
           NEW weights \in Nat, NEW count \in 0 .. MAX_ACTIVATIONS, NEW values \in Nat
    PROVE  /\ StateNeighborsComplete(n, rssi, last_seen)
           /\ KernelComplete(weights) <=> weights <= 181
           /\ ActivationsComplete(count, values) <=> count = 0 \/ values <= 254 - 18 * count
           /\ ~KernelComplete(5 * FloatText) /\ ~ActivationsComplete(8, 3 * FloatText)
<1>1. n \in 0 .. 8 /\ count \in 0 .. 8
  BY DEF MAX_NEIGHBORS, MAX_ACTIVATIONS
<1>2. StateNeighborsComplete(n, rssi, last_seen)
  <2>1. NeighborText(rssi, last_seen) \in Nat /\ NeighborText(rssi, last_seen) <= 72
    BY DEF NeighborText, MacText
  <2>2. n = 0 \/ n = 1 \/ n = 2 \/ n = 3 \/ n = 4 \/ n = 5 \/ n = 6 \/ n = 7 \/ n = 8
    BY <1>1
  <2> QED BY <2>1, <2>2 DEF StateNeighborsComplete, Complete, Offset
<1>3. KernelComplete(weights) <=> weights <= 181
  BY DEF KernelComplete, Complete, Offset, KERNEL_SIZE
<1>4. ActivationsComplete(count, values) <=> count = 0 \/ values <= 254 - 18 * count
  <2>1. RuleText(0) = 17
    BY DEF RuleText
  <2> QED BY <1>1, <2>1 DEF ActivationsComplete, Complete, Offset
<1>5. ~KernelComplete(5 * FloatText) /\ ~ActivationsComplete(8, 3 * FloatText)
  BY DEF KernelComplete, ActivationsComplete, Complete, Offset, RuleText, FloatText, KERNEL_SIZE
<1> QED BY <1>2, <1>3, <1>4, <1>5

\* The sample of the routing table is complete (architecture.md:96: bounded by
\* MQTT_TOPOLOGY_ROUTE_SAMPLE_LIMIT).
THEOREM RoutesFit ==
    ASSUME NEW n \in 0 .. MQTT_TOPOLOGY_ROUTE_SAMPLE_LIMIT
    PROVE  RoutesComplete(n)
BY DEF RoutesComplete, Complete, Offset, RouteText, MacText,
       MQTT_TOPOLOGY_ROUTE_SAMPLE_LIMIT

\* The neighbors of a topology report are complete if there are at most seven ...
THEOREM SevenNeighborsFit ==
    ASSUME NEW n \in 0 .. 7, NEW rssi \in 1 .. 3, NEW last_seen \in 1 .. 10
    PROVE  TopologyNeighborsComplete(n, rssi, last_seen)
<1>1. n = 0 \/ n = 1 \/ n = 2 \/ n = 3 \/ n = 4 \/ n = 5 \/ n = 6 \/ n = 7
  OBVIOUS
<1> QED BY <1>1 DEF TopologyNeighborsComplete, Complete, Offset, NeighborText, MacText

\* ... and never with eight, which MAX_NEIGHBORS and the sample limit allow, once the
\* clock has two digits, for signals of -10 dBm and fainter: all eight are counted, and
\* the report is not JSON.
THEOREM EightNeighborsAreCutOff ==
    ASSUME NEW last_seen \in 2 .. 10
    PROVE  LET n == MQTT_TOPOLOGY_NEIGHBOR_SAMPLE_LIMIT
           IN  /\ ~TopologyNeighborsComplete(n, 3, last_seen)
               /\ Formatted(n, NeighborText(3, last_seen), 512) = 0 .. n - 1
<1>1. ~TopologyNeighborsComplete(8, 3, last_seen)
  BY DEF TopologyNeighborsComplete, Complete, Offset, NeighborText, MacText
<1>2. ASSUME NEW i \in 0 .. 7 PROVE Offset(i, i * NeighborText(3, last_seen)) < 512
  <2>1. i = 0 \/ i = 1 \/ i = 2 \/ i = 3 \/ i = 4 \/ i = 5 \/ i = 6 \/ i = 7
    OBVIOUS
  <2> QED BY <2>1 DEF Offset, NeighborText, MacText
<1> QED BY <1>1, <1>2 DEF Formatted, MQTT_TOPOLOGY_NEIGHBOR_SAMPLE_LIMIT
-----------------------------------------------------------------------------
(* UDP frames. *)

PROTOCOL_VERSION == 1

\* udp_message_t, packed: all before the neighbors, the neighbors, the checksum.
NeighborsAt == 1 + 1 + 6 + 1 + 3 + 2 + 1 + 4 + 4
NeighborSize == 6 + 1
ChecksumAt == NeighborsAt + 8 * NeighborSize
UdpMessageSize == ChecksumAt + 2

\* node_state_t, neighbor_info_t and mesh_message_t, with the padding of their numbers.
NodeStateSize == 32 + 9 * 4 + 8 * 8 + 8
NeighborInfoSize == 20 + NodeStateSize
MeshMessageSize == 8 + NodeStateSize + 8 + MAX_NEIGHBORS * NeighborInfoSize + 4

NoMac == "00:00:00:00:00:00"

Cleared == [mac |-> NoMac, rssi |-> -127]

Tables(Mac) ==
    [1 .. MAX_NEIGHBORS -> [mac : Mac \ {NoMac}, rssi : -128 .. 127, active : BOOLEAN]]

\* The slots that may be copied next: not those of a board copied before.
Left(table, copied, i) ==
    {s \in 1 .. MAX_NEIGHBORS :
        /\ table[s].active /\ table[s].rssi > -127
        /\ \A k \in 0 .. i - 1 : copied[k].mac # table[s].mac}

\* The strongest of them, the first of several.
IsStrongest(table, candidates, s) ==
    /\ s \in candidates
    /\ \A t \in candidates :
           table[t].rssi <= table[s].rssi /\ (t < s => table[t].rssi < table[s].rssi)

\* prepare_udp_message copies the neighbors of the table, count of them active.
PreparedFrom(table, count, copied) ==
    \A i \in 0 .. 7 :
        LET left == Left(table, copied, i)
        IN  \/ /\ i < count
               /\ \E s \in left : /\ IsStrongest(table, left, s)
                                  /\ copied[i] = [mac |-> table[s].mac, rssi |-> table[s].rssi]
            \/ /\ i >= count \/ left = {}
               /\ copied[i] = Cleared

\* The neighbors the server keeps of a frame.
Kept(copied) == {i \in 0 .. 7 : copied[i].mac # NoMac /\ copied[i].rssi # -127}

\* Reading so many bytes there succeeds.
Readable(length, at, bytes) == at + bytes <= length

\* parseNodeUpdate: dropped, an exception from a read beyond the end, or a record.
ParseNodeUpdate(length, version, checksumAgrees) ==
    IF length # 77 \/ version # PROTOCOL_VERSION THEN "null"
    ELSE IF ~Readable(length, ChecksumAt - 1, 1) \/ ~Readable(length, ChecksumAt, 2)
         THEN "RangeError"
    ELSE IF ~checksumAgrees THEN "null" ELSE "node"

\* docs/api.md:148 says that the server still accepts these frames, and mesh_node.h:23
\* that they have 77 bytes. They have 81, and the mesh messages the root forwards more:
\* the server drops both, whatever they contain.
THEOREM FramesAreDropped ==
    ASSUME NEW version \in 0 .. 255, NEW checksumAgrees \in BOOLEAN
    PROVE  /\ UdpMessageSize = 81 /\ MeshMessageSize > UdpMessageSize
           /\ ParseNodeUpdate(UdpMessageSize, version, checksumAgrees) = "null"
           /\ ParseNodeUpdate(MeshMessageSize, version, checksumAgrees) = "null"
<1>1. UdpMessageSize = 81
  BY DEF UdpMessageSize, ChecksumAt, NeighborsAt, NeighborSize
<1>2. MeshMessageSize > 81
  BY DEF MeshMessageSize, NodeStateSize, NeighborInfoSize, MAX_NEIGHBORS
<1> QED BY <1>1, <1>2 DEF ParseNodeUpdate

\* Nor is there any other frame that parseNodeUpdate makes a record of: of 77 bytes it
\* reads the last neighbor's strength and the checksum beyond the end.
THEOREM NoFrameIsAccepted ==
    ASSUME NEW length \in Nat, NEW version \in 0 .. 255, NEW checksumAgrees \in BOOLEAN
    PROVE  ParseNodeUpdate(length, version, checksumAgrees) \in {"null", "RangeError"}
<1>1. ChecksumAt = 79
  BY DEF ChecksumAt, NeighborsAt, NeighborSize
<1> QED BY <1>1 DEF ParseNodeUpdate, Readable

\* The neighbors in a frame are ordered by strength and no board is in it twice
\* (mesh_node.cpp:468: strongest first), though the selection looks at the whole table
\* each time and knows what it has copied by address only.
THEOREM StrongestFirst ==
    ASSUME NEW Mac, NEW table \in Tables(Mac), NEW count \in 0 .. MAX_NEIGHBORS,
           NEW copied, PreparedFrom(table, count, copied),
           NEW i \in 0 .. 7, NEW k \in Kept(copied), i < k
    PROVE  /\ i \in Kept(copied)
           /\ copied[k].rssi <= copied[i].rssi
           /\ copied[k].mac # copied[i].mac
<1>1. k \in 0 .. 7 /\ copied[k] # Cleared
  BY DEF Kept, Cleared
<1>2. PICK t \in Left(table, copied, k) :
          copied[k] = [mac |-> table[t].mac, rssi |-> table[t].rssi] /\ k < count
  BY <1>1 DEF PreparedFrom, IsStrongest
<1>3. t \in Left(table, copied, i)
  BY <1>1, <1>2 DEF Left
<1>4. PICK s \in Left(table, copied, i) :
          /\ IsStrongest(table, Left(table, copied, i), s)
          /\ copied[i] = [mac |-> table[s].mac, rssi |-> table[s].rssi]
  <2>1. i < count
    BY <1>1, <1>2
  <2> QED BY <1>3, <2>1 DEF PreparedFrom
<1>5. table[t].rssi <= table[s].rssi
  BY <1>3, <1>4 DEF IsStrongest
<1>6. copied[i].mac # table[t].mac
  BY <1>1, <1>2 DEF Left
<1>7. table[s].mac # NoMac /\ table[s].rssi # -127
  <2>1. s \in 1 .. MAX_NEIGHBORS /\ table[s].rssi > -127
    BY <1>4 DEF Left
  <2>2. table[s] \in [mac : Mac \ {NoMac}, rssi : -128 .. 127, active : BOOLEAN]
    BY <2>1 DEF Tables
  <2> QED BY <2>1, <2>2
<1> QED BY <1>2, <1>4, <1>5, <1>6, <1>7 DEF Kept
=============================================================================
