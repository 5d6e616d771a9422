---------------------------- MODULE MCVizServer -----------------------------
(***************************************************************************)
(* An instance of VizServer for TLC.                                        *)
(***************************************************************************)
EXTENDS VizServer

CONSTANTS a, b

\* a is heard well by the other; b is not, and shown by app2 or with the slider moved only.
MCNeighbor == {[mac |-> a, rssi |-> -50], [mac |-> b, rssi |-> -85]}

MCSlider == {-100}
=============================================================================
