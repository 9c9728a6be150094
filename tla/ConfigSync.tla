----------------------------- MODULE ConfigSync -----------------------------
(***************************************************************************)
(* The way of a configuration: saved by an editor into config.json, noticed *)
(* by the server through the file's time (CTB::loadConfigFromFile and       *)
(* checkAndReloadConfigFile), sent on the connection, applied by the agent  *)
(* (CTA::applyConfigFromJson), stored on its machine (LinuxFileStorage or   *)
(* WindowsRegistryStorage) and loaded from there when it starts             *)
(* (loadInitialConfig).                                                     *)
(*                                                                          *)
(* A configuration is the number of the edit that wrote it; 0 is none.  A   *)
(* file that is missing, empty or cut short yields nothing to any reader.   *)
(***************************************************************************)
EXTENDS Naturals, Sequences

CONSTANTS MaxEdits,   \* bound on the edits of config.json
          MaxFaults,  \* bound on crashes, broken connections, failed saves and loads
          Unusable,   \* the edits that are JSON but not a MonitorConfig
          Storages    \* a subset of {"file", "registry"}

ASSUME EditsAssumption ==
  /\ MaxEdits \in Nat /\ MaxFaults \in Nat /\ Unusable \subseteq 1 .. MaxEdits
  /\ Storages \subseteq {"file", "registry"}

VARIABLES
  file,     \* config.json: its edit, whether it is whole, its last_write_time
  spc,      \* where the server stands
  current,  \* current_config_json_
  seen,     \* last_config_time_
  tried,    \* current_time in checkAndReloadConfigFile
  raced,    \* history: seen is the time of an edit other than the one loaded
  srv,      \* the server's end of the connection
  cli,      \* the agent's end
  wire,     \* configurations on their way to the agent
  apc,      \* where the agent's network thread stands
  mem,      \* the agent's current_config_
  stored,   \* the configuration in the agent's storage
  storage,  \* what that storage is
  faults    \* faults so far

serverVars == <<spc, current, seen, tried, raced>>
linkVars   == <<srv, cli, wire>>
agentVars  == <<apc, mem, stored, storage>>
vars       == <<file, serverVars, linkVars, agentVars, faults>>

Edits == 1 .. MaxEdits

Init ==
  /\ file \in {[edit |-> 0, whole |-> FALSE, time |-> 0]}
                \cup {[edit |-> n, whole |-> TRUE, time |-> n] : n \in Edits \cap {1}}
  /\ spc = "load" /\ current = 0 /\ seen = 0 /\ tried = 0 /\ raced = FALSE
  /\ srv = "none" /\ cli = "none" /\ wire = <<>>
  /\ apc = "loop" /\ mem = 0 /\ stored = 0 /\ storage \in Storages
  /\ faults = 0

-----------------------------------------------------------------------------
(* The editor.  A save in place truncates the file and writes it; other      *)
(* editors rename a new file over the old.  The clock of the file system is *)
(* coarse: an edit may find it where the one before it left it.              *)

Ticks == {file.time + 1} \cup {t \in {file.time} : file.edit > 0}

Save(whole) ==
  /\ file.edit < MaxEdits /\ (file.whole \/ file.edit = 0)
  /\ \E t \in Ticks :
       /\ file' = [edit |-> file.edit + 1, whole |-> whole, time |-> t]
       /\ raced' = (raced \/ t = seen)
  /\ UNCHANGED <<spc, current, seen, tried, linkVars, agentVars, faults>>

Truncate == Save(FALSE)
Rename   == Save(TRUE)

Write ==
  /\ file.edit > 0 /\ ~file.whole
  /\ \E t \in Ticks :
       file' = [edit |-> file.edit, whole |-> TRUE, time |-> t]
  /\ UNCHANGED <<serverVars, linkVars, agentVars, faults>>

Editor == Truncate \/ Write \/ Rename

-----------------------------------------------------------------------------
(* The server *)

(* loadConfigFromFile in the constructor: the contents first ...           *)
LoadRead ==
  /\ spc = "load"
  /\ IF file.whole THEN current' = file.edit /\ spc' = "stamp"
                   ELSE spc' = "loop" /\ UNCHANGED current
  /\ UNCHANGED <<file, seen, tried, raced, linkVars, agentVars, faults>>

(* ... and the time after.                                                 *)
LoadTime ==
  /\ spc = "stamp"
  /\ seen' = file.time
  /\ raced' = (file.edit # current)
  /\ spc' = "loop"
  /\ UNCHANGED <<file, current, tried, linkVars, agentVars, faults>>

(* checkAndReloadConfigFile finds the time it has seen, or no file.        *)
PollSame ==
  /\ spc = "loop" /\ file.time = seen
  /\ UNCHANGED vars

PollChanged ==
  /\ spc = "loop" /\ file.time # seen
  /\ tried' = file.time
  /\ spc' = "read"
  /\ UNCHANGED <<file, current, seen, raced, linkVars, agentVars, faults>>

(* sendConfigJson: what is sent into a connection that is gone is lost.    *)
Pushed(n) == IF srv = "joined" THEN Append(wire, n) ELSE wire

(* Mutant of ReloadRead: the time is stored before the contents are parsed. *)
ReloadStampsFirst ==
  /\ spc = "read"
  /\ spc' = "loop"
  /\ seen' = tried /\ raced' = FALSE
  /\ current' = IF file.whole THEN file.edit ELSE current
  /\ wire' = IF file.whole /\ file.edit # current THEN Pushed(file.edit) ELSE wire
  /\ UNCHANGED <<file, tried, srv, cli, agentVars, faults>>

(* The contents are read; only when they parse are they, and the time read *)
(* before them, taken over and what is new pushed.                          *)
ReloadRead ==
  /\ spc = "read"
  /\ spc' = "loop"
  /\ IF file.whole
       THEN /\ seen' = tried /\ raced' = FALSE
            /\ current' = file.edit
            /\ wire' = IF file.edit # current THEN Pushed(file.edit) ELSE wire
       ELSE UNCHANGED <<seen, raced, current, wire>>
  /\ UNCHANGED <<file, tried, srv, cli, agentVars, faults>>

(* Mutant of Greeting: current_config_json_ is not tested for emptiness.   *)
GreetingAlways == <<current>>

(* Mutant of Greeting: nothing is sent to a new client.                    *)
GreetingNever == <<>>

(* What a client is sent as soon as it is accepted.                        *)
Greeting == IF current = 0 THEN <<>> ELSE <<current>>

Accept ==
  /\ spc = "loop" /\ srv = "none" /\ cli = "waiting"
  /\ srv' = "joined" /\ cli' = "joined"
  /\ wire' = Greeting
  /\ UNCHANGED <<file, serverVars, agentVars, faults>>

(* receiveMessage or sendMessage finds the connection gone.                *)
ServerNotices ==
  /\ spc = "loop" /\ srv = "stale"
  /\ srv' = "none"
  /\ UNCHANGED <<file, serverVars, cli, wire, agentVars, faults>>

ServerStep ==
  LoadRead \/ LoadTime \/ PollSame \/ PollChanged \/ ReloadRead \/ Accept \/ ServerNotices

-----------------------------------------------------------------------------
(* The agent *)

(* connectClient, as soon as the server listens, whatever its loop does.   *)
Connect ==
  /\ apc = "loop" /\ cli = "none"
  /\ spc \in {"loop", "read"}
  /\ cli' = "waiting"
  /\ UNCHANGED <<file, serverVars, srv, wire, agentVars, faults>>

(* Mutant of AgentNotices: without its server, the agent goes back to the   *)
(* configuration it has stored.                                             *)
AgentFallsBack ==
  /\ apc = "loop" /\ cli = "dead"
  /\ cli' = "none" /\ wire' = <<>>
  /\ mem' = stored
  /\ UNCHANGED <<file, serverVars, srv, apc, stored, storage, faults>>

(* The connection is found gone; what was buffered is forgotten.           *)
AgentNotices ==
  /\ apc = "loop" /\ cli = "dead"
  /\ cli' = "none" /\ wire' = <<>>
  /\ UNCHANGED <<file, serverVars, srv, agentVars, faults>>

(* from_json: what an object lacks gets its default, what is of the wrong   *)
(* type throws.                                                             *)
Converts(n) == n \notin Unusable

(* applyConfigFromJson: one that does not convert is dropped.              *)
Receive ==
  /\ apc = "loop" /\ cli \in {"joined", "dead"}
  /\ wire # <<>>
  /\ wire' = Tail(wire)
  /\ IF Converts(Head(wire)) THEN mem' = Head(wire) /\ apc' = "save"
                             ELSE UNCHANGED <<apc, mem>>
  /\ UNCHANGED <<file, serverVars, srv, cli, stored, storage, faults>>

Fault == faults < MaxFaults /\ faults' = faults + 1

(* LinuxFileStorage: open(O_TRUNC) empties the file, or fails and leaves it *)
SaveOpen ==
  /\ apc = "save" /\ storage = "file"
  /\ \/ apc' = "write" /\ stored' = 0 /\ UNCHANGED faults
     \/ apc' = "loop" /\ Fault /\ UNCHANGED stored
  /\ UNCHANGED <<file, serverVars, linkVars, mem, storage>>

(* ... and write() fills it, or falls short.  Either way its result is not *)
(* looked at.                                                               *)
SaveWrite ==
  /\ apc = "write"
  /\ apc' = "loop"
  /\ \/ stored' = mem /\ UNCHANGED faults
     \/ Fault /\ UNCHANGED stored
  /\ UNCHANGED <<file, serverVars, linkVars, mem, storage>>

(* Mutant of SaveSet: the value is deleted before it is set.               *)
SaveDeleteSet ==
  /\ apc = "save" /\ storage = "registry"
  /\ apc' = "loop"
  /\ \/ stored' = mem /\ UNCHANGED faults
     \/ Fault /\ stored' = 0
  /\ UNCHANGED <<file, serverVars, linkVars, mem, storage>>

(* WindowsRegistryStorage: the value is replaced as a whole, or the key or  *)
(* the value cannot be written.                                             *)
SaveSet ==
  /\ apc = "save" /\ storage = "registry"
  /\ apc' = "loop"
  /\ \/ stored' = mem /\ UNCHANGED faults
     \/ Fault /\ UNCHANGED stored
  /\ UNCHANGED <<file, serverVars, linkVars, mem, storage>>

AgentStep == Connect \/ AgentNotices \/ Receive \/ SaveOpen \/ SaveWrite \/ SaveSet

-----------------------------------------------------------------------------
(* Faults *)

(* What the agent can still read of a connection that has broken.          *)
Arrived == {SubSeq(wire, 1, k) : k \in 0 .. Len(wire)}

Break ==
  /\ cli \in {"waiting", "joined"}
  /\ Fault
  /\ cli' = "dead"
  /\ srv' = IF srv = "joined" THEN "stale" ELSE srv
  /\ wire' \in Arrived
  /\ UNCHANGED <<file, serverVars, agentVars>>

ServerCrash ==
  /\ spc # "down"
  /\ Fault
  /\ spc' = "down"
  /\ srv' = "none"
  /\ cli' = IF cli = "none" THEN "none" ELSE "dead"
  /\ wire' \in Arrived
  /\ UNCHANGED <<file, current, seen, tried, raced, agentVars>>

ServerStart ==
  /\ spc = "down"
  /\ spc' = "load" /\ current' = 0 /\ seen' = 0 /\ tried' = 0 /\ raced' = FALSE
  /\ UNCHANGED <<file, linkVars, agentVars, faults>>

AgentCrash ==
  /\ apc # "down"
  /\ Fault
  /\ apc' = "down"
  /\ cli' = "none" /\ wire' = <<>>
  /\ srv' = IF srv = "joined" THEN "stale" ELSE srv
  /\ UNCHANGED <<file, serverVars, mem, stored, storage>>

(* loadConfig: what is stored, if it can be read.                          *)
LoadConfig(c) ==
  \/ c = stored /\ UNCHANGED faults
  \/ c = 0 /\ Fault

(* loadInitialConfig: without a stored one, the default configuration.     *)
AgentStart ==
  /\ apc = "down"
  /\ apc' = "loop"
  /\ LoadConfig(mem')
  /\ UNCHANGED <<file, serverVars, linkVars, stored, storage>>

Faults == Break \/ ServerCrash \/ ServerStart \/ AgentCrash \/ AgentStart

Next == Editor \/ ServerStep \/ AgentStep \/ Faults

(* Both loops go round: every wait in them has a timeout.  Nothing says    *)
(* that a process that has crashed is started again.                        *)
Fairness == WF_vars(ServerStep) /\ WF_vars(AgentStep)

Spec     == Init /\ [][Next]_vars
FairSpec == Spec /\ Fairness

-----------------------------------------------------------------------------
(* Properties *)

(* Type invariant; only a configuration is ever sent.                      *)
TypeOK ==
  /\ file \in [edit : 0 .. MaxEdits, whole : BOOLEAN, time : 0 .. 2 * MaxEdits]
  /\ spc \in {"down", "load", "stamp", "loop", "read"}
  /\ current \in 0 .. file.edit
  /\ seen \in 0 .. file.time /\ tried \in 0 .. file.time
  /\ raced \in BOOLEAN
  /\ srv \in {"none", "joined", "stale"}
  /\ cli \in {"none", "waiting", "joined", "dead"}
  /\ srv = "joined" <=> cli = "joined"
  /\ wire \in Seq(1 .. file.edit)
  /\ apc \in {"down", "loop", "save", "write"}
  /\ mem \in (0 .. file.edit) \ Unusable
  /\ stored \in (0 .. file.edit) \ Unusable
  /\ storage \in Storages /\ (apc = "write" => storage = "file")
  /\ faults \in 0 .. MaxFaults

(* A server that has seen the file's last time holds the file's contents,   *)
(* whatever was half written when it looked (CTB.cpp:175-190), except when  *)
(* an edit fell between reading and stamping at its start (CTB.cpp:60-64),  *)
(* or within the tick of the clock whose edit it had loaded (CTB.cpp:176).  *)
StaleOnlyByRace ==
  spc = "loop" /\ seen = file.time /\ file.whole /\ current # file.edit => raced

(* The configuration of a running agent never goes back to an older edit,   *)
(* whatever crashes, reconnects or is resent meanwhile.                     *)
RunsForward == [][apc # "down" => mem' >= mem]_vars

(* To the agent, editor, server, connection and storage together are a      *)
(* register that only gets newer: it follows it forward, and what it stores *)
(* is what it runs with, which only the file of Linux can lose.             *)
Register == INSTANCE ConfigRegister WITH
  newest <- file.edit, running <- mem, saved <- stored, kind <- storage
FollowsRegister == Register!Spec

InSync == mem = file.edit

(* States from which the newest edit cannot be expected to arrive.         *)
Excused ==
  \/ apc = "down" \/ spc = "down"
  \/ ~file.whole \/ file.edit \in Unusable

(* When the edits and the faults end, the agent comes to run with the       *)
(* newest edit, unless it raced with the server's start or came in the same *)
(* tick as the one before.                                                  *)
Converges == <>[](InSync \/ Excused \/ raced)

(* README.md:60: an agent that has stored a copy of its configuration finds *)
(* one when it starts again without its server.                             *)
OfflineConfigKept == [](stored # 0 => [](apc = "down" => stored # 0))
=============================================================================
