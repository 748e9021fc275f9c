--------------------------- MODULE MCBleTransport ---------------------------
(* Instances of BleTransport: an image in sectors of two units; with three units
   the last sector is short and a receive may cut through a sector.            *)
EXTENDS BleTransportProps

MCFactory == <<Unit(0, 0)>>
MCImages == {MCFactory} \cup {Stream(k) : k \in 1 .. 3}
MCData == {Unit(k, i) : k \in 0 .. 3, i \in 0 .. (ImageUnits - 1)}
MCHandle == {1, 2}

(* Anything goes *)
Wild == [announced |-> {0, 3, 5}, maxStarts |-> 2, faults |-> TRUE, powerCuts |-> TRUE,
         paced |-> {}, diligent |-> FALSE]
(* A host that leaves the pump its time and retries *)
Retry == [announced |-> {3}, maxStarts |-> 3, faults |-> FALSE, powerCuts |-> FALSE,
          paced |-> {"sector", "stop", "cut", "drained", "closed"}, diligent |-> TRUE]
MCWorlds == {Wild, Retry}

(* The same host, but for one event it does not wait for *)
MCRingFull == {[Retry EXCEPT !.announced = {6}, !.maxStarts = 1, !.paced = @ \ {"sector"}]}
MCStraggler == {[Retry EXCEPT !.maxStarts = 2, !.paced = @ \ {"drained"}]}
=============================================================================
