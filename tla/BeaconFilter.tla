---------------------------- MODULE BeaconFilter ----------------------------
(***************************************************************************)
(* Which Wi-Fi management frames count as a board heard nearby, and under   *)
(* which address. A board's beacons carry the address of its access point,  *)
(* its ESP-NOW frames that of its station; the neighbor table takes both     *)
(* for one board only if the first is turned into the second.                *)
(***************************************************************************)
EXTENDS Integers, Sequences

CONSTANT MESH_ROUTER_SSID

Byte == 0 .. 255
Address == [0 .. 5 -> Byte]

is_valid_mac(mac) ==
    /\ \E i \in 0 .. 5 : mac[i] # 0
    /\ \E i \in 0 .. 5 : mac[i] # 255
    /\ mac[0] % 2 = 0

\* The address minus one: a byte gives one if all bytes after it are zero and borrow.
normalize_mesh_ap_bssid_to_sta_mac(bssid) ==
    [i \in 0 .. 5 |->
        IF \A j \in i + 1 .. 5 : bssid[j] = 0
        THEN IF bssid[i] > 0 THEN bssid[i] - 1 ELSE 255
        ELSE bssid[i]]

mac_has_espressif_oui(mac) ==
    <<mac[0], mac[1], mac[2]>> \in
        {<<36, 111, 40>>, <<48, 174, 164>>, <<124, 223, 161>>, <<132, 243, 235>>,
         <<172, 39, 110>>, <<200, 240, 158>>, <<204, 219, 167>>, <<220, 84, 117>>,
         <<232, 246, 10>>, <<236, 148, 203>>}

\* The driver: a board's access point has the address after its station's.
AccessPoint(sta) == [sta EXCEPT ![5] = (sta[5] + 1) % 256]

\* A frame: whether it is whole up to its elements, what it is, whom it is from, its
\* information elements (id, whether the element ends inside the frame, its text of at
\* most 32 bytes), and whether the bytes of the mesh id occur in it.
Frame ==
    [length : Nat, type : 0 .. 3, subtype : 0 .. 15, mac : Address,
     elements : Seq([id : Byte, whole : BOOLEAN, text : STRING]), mesh_id : BOOLEAN]

\* extract_beacon_info: the SSID is the first element 0, if all up to it are whole.
Ssid(frame, e) ==
    /\ e \in DOMAIN frame.elements
    /\ frame.elements[e].id = 0
    /\ \A d \in 1 .. e : frame.elements[d].whole
    /\ \A d \in 1 .. e - 1 : frame.elements[d].id # 0

extract_beacon_info(frame) ==
    /\ frame.length >= 36
    /\ frame.type = 0
    /\ frame.subtype \in {5, 8}
    /\ is_valid_mac(frame.mac)

ssid_matches_router(frame) ==
    /\ MESH_ROUTER_SSID # ""
    /\ \E e \in DOMAIN frame.elements :
        Ssid(frame, e) /\ frame.elements[e].text = MESH_ROUTER_SSID

\* process_beacon_frame calls update_neighbor_list, with the normalized address.
Accepted(frame) ==
    /\ extract_beacon_info(frame)
    /\ ~ssid_matches_router(frame)
    /\ frame.mesh_id \/ mac_has_espressif_oui(frame.mac)
    /\ is_valid_mac(normalize_mesh_ap_bssid_to_sta_mac(frame.mac))
=============================================================================
