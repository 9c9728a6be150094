--------------------------- MODULE ConfigRegister ---------------------------
(***************************************************************************)
(* What the way of a configuration promises: config.json is a register that *)
(* only gets newer, and the agent a copy of it that follows it forward,      *)
(* until a restart takes it back to the copy it has stored, if it has one.   *)
(***************************************************************************)
EXTENDS Naturals

CONSTANTS Unusable  \* the edits that are not a configuration

VARIABLES
  newest,   \* the last edit
  running,  \* the one the agent runs with
  saved,    \* the one it has stored
  kind      \* how it stores: in a "file", which can lose it, or a "registry"

register == <<newest, running, saved, kind>>

Init ==
  /\ newest \in {0, 1} /\ running = 0 /\ saved = 0
  /\ kind \in {"file", "registry"}

Edit == newest' = newest + 1 /\ UNCHANGED <<running, saved, kind>>

Adopt ==
  /\ running' \in (running .. newest) \ Unusable
  /\ UNCHANGED <<newest, saved, kind>>

Save == saved' = running /\ UNCHANGED <<newest, running, kind>>

Lose == kind = "file" /\ saved' = 0 /\ UNCHANGED <<newest, running, kind>>

Restart == running' \in {saved, 0} /\ UNCHANGED <<newest, saved, kind>>

Next == Edit \/ Adopt \/ Save \/ Lose \/ Restart

Spec == Init /\ [][Next]_register
=============================================================================
