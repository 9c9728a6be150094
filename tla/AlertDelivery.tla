--------------------------- MODULE AlertDelivery ---------------------------
(***************************************************************************)
(* What the path of an alert promises, with the queue, the network and the  *)
(* server's buffers abstracted into one set of alerts under way: an alert   *)
(* may get lost and may be overtaken, but the log never shows one twice and *)
(* never shows one that was not raised.                                     *)
(***************************************************************************)
EXTENDS Naturals, Sequences

VARIABLES issued,     \* alerts 1 .. issued were raised
          underway,   \* raised, and neither logged nor lost
          delivered   \* the log

dvars == <<issued, underway, delivered>>

DInit == issued = 0 /\ underway = {} /\ delivered = <<>>

(* A new alert joins those under way; making room may cost others.         *)
Issue ==
  /\ issued' = issued + 1
  /\ underway' \in SUBSET (underway \cup {issued + 1})
  /\ issued + 1 \in underway'
  /\ UNCHANGED delivered

Lose ==
  /\ underway' \in SUBSET underway
  /\ UNCHANGED <<issued, delivered>>

(* The log gets an alert that was under way, and that is under way no more. *)
Deliver ==
  /\ \E a \in underway : delivered' = Append(delivered, a) /\ underway' = underway \ {a}
  /\ UNCHANGED issued

DNext == Issue \/ Lose \/ Deliver

DSpec == DInit /\ [][DNext]_dvars
=============================================================================
