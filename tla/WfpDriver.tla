----------------------------- MODULE WfpDriver ------------------------------
(***************************************************************************)
(* The WFP callout driver: WfpRegisterCallouts and WfpUnregisterCallouts,   *)
(* the callouts the filter engine calls on any CPU meanwhile, and the       *)
(* memory they pass on: a context per flow, a list of statistics per pid.   *)
(*                                                                          *)
(* A callout stands for its IPv4 and its IPv6 twin.  Of the list only its   *)
(* pids are kept.                                                           *)
(***************************************************************************)
EXTENDS Naturals, Sequences

CONSTANTS Flows, Cpus, Pids

VARIABLES
  pc,          \* where DriverEntry or DriverUnload stands
  n,           \* the callout it has come to
  registered,  \* callouts registered with the filter engine
  ids,         \* those whose id variable is not 0
  filters,     \* callouts with a filter: the engine calls them
  refused,     \* history: callouts that were in use when they were unregistered
  flow,        \* flows: "new", "open" or "closed", their protocol and pid
  ctx,         \* the memory of their contexts
  attached,    \* flows whose context the engine keeps
  call,        \* the callout each CPU is in, the flow it is in for, and what it
               \* was given ("ctx" or "null") or has read ("id" or "null")
  list         \* the pids in g_statsListHead

driverVars == <<pc, n, registered, ids, filters, refused>>
vars == <<driverVars, flow, ctx, attached, call, list>>

Order == <<"ale", "stream", "datagram">>
Callouts == {"ale", "stream", "datagram"}
Data == {"stream", "datagram"}
Done == Len(Order) + 1

Idle == [fn |-> "none", flow |-> "none", arg |-> "none"]

Init ==
  /\ pc = "register" /\ n = 1
  /\ registered = {} /\ ids = {} /\ filters = {} /\ refused = {}
  /\ flow = [f \in Flows |-> [state |-> "new", proto |-> "other", pid |-> "none"]]
  /\ ctx = [f \in Flows |-> "none"] /\ attached = {}
  /\ call = [c \in Cpus |-> Idle]
  /\ list = {}

-----------------------------------------------------------------------------
(* WfpRegisterCallouts *)

Register ==
  /\ pc = "register" /\ n < Done
  /\ registered' = registered \cup {Order[n]} /\ ids' = ids \cup {Order[n]}
  /\ n' = n + 1
  /\ UNCHANGED <<pc, filters, refused, flow, ctx, attached, call, list>>

(* Sublayer, callouts and filters take effect together.                    *)
Commit ==
  /\ pc = "register" /\ n = Done
  /\ filters' = Callouts
  /\ pc' = "running"
  /\ UNCHANGED <<n, registered, ids, refused, flow, ctx, attached, call, list>>

(* The engine cannot be opened.                                            *)
OpenFails ==
  /\ pc = "register" /\ n = 1
  /\ pc' = "device"
  /\ UNCHANGED <<n, registered, ids, filters, refused, flow, ctx, attached, call, list>>

(* Mutant of RegisterFails: return where the code says goto Cleanup.       *)
RegisterReturns ==
  /\ pc = "register"
  /\ pc' = "device" /\ n' = 1
  /\ UNCHANGED <<registered, ids, filters, refused, flow, ctx, attached, call, list>>

(* Any later step fails: the transaction is aborted and WfpUnregisterCallouts *)
(* undoes what was registered.                                             *)
RegisterFails ==
  /\ pc = "register"
  /\ pc' = "filters" /\ n' = 1
  /\ UNCHANGED <<registered, ids, filters, refused, flow, ctx, attached, call, list>>

(* Mutant of Unload: the filters stay.                                     *)
UnloadFiltered ==
  /\ pc = "running"
  /\ pc' = "callouts" /\ n' = 1
  /\ UNCHANGED <<registered, ids, filters, refused, flow, ctx, attached, call, list>>

(* DriverUnload                                                            *)
Unload ==
  /\ pc = "running"
  /\ pc' = "filters" /\ n' = 1
  /\ UNCHANGED <<registered, ids, filters, refused, flow, ctx, attached, call, list>>

-----------------------------------------------------------------------------
(* WfpUnregisterCallouts *)

DeleteFilter ==
  /\ pc = "filters" /\ n < Done
  /\ filters' = filters \ {Order[n]}
  /\ n' = n + 1
  /\ UNCHANGED <<pc, registered, ids, refused, flow, ctx, attached, call, list>>

CloseEngine ==
  /\ pc = "filters" /\ n = Done
  /\ pc' = "callouts" /\ n' = 1
  /\ UNCHANGED <<registered, ids, filters, refused, flow, ctx, attached, call, list>>

(* STATUS_DEVICE_BUSY: a CPU is in the callout, or a flow has a context of it. *)
InUse(k) ==
  \/ \E c \in Cpus : call[c].fn = k
  \/ \E f \in attached : flow[f].proto = k

(* The status is not looked at: the id is cleared in any case.             *)
Unregister ==
  /\ pc = "callouts" /\ n < Done
  /\ LET k == Order[n]
     IN  /\ registered' = IF k \in ids /\ ~InUse(k) THEN registered \ {k} ELSE registered
         /\ refused' = IF k \in ids /\ InUse(k) THEN refused \cup {k} ELSE refused
         /\ ids' = ids \ {k}
  /\ n' = n + 1
  /\ UNCHANGED <<pc, filters, flow, ctx, attached, call, list>>

FreeList ==
  /\ pc = "callouts" /\ n = Done
  /\ list' = {}
  /\ pc' = "device"
  /\ UNCHANGED <<n, registered, ids, filters, refused, flow, ctx, attached, call>>

(* DriverEntry has failed or DriverUnload is over: its device goes, and its *)
(* code with it.                                                            *)
DeleteDevice ==
  /\ pc = "device"
  /\ pc' = "stopped"
  /\ UNCHANGED <<n, registered, ids, filters, refused, flow, ctx, attached, call, list>>

Loaded == pc # "stopped"

DriverStep ==
  Register \/ Commit \/ OpenFails \/ RegisterFails
    \/ DeleteFilter \/ CloseEngine \/ Unregister \/ FreeList \/ DeleteDevice

-----------------------------------------------------------------------------
(* Flows and the callouts *)

Opened(f) ==
  /\ flow[f].state = "new"
  /\ \E k \in Data \cup {"other"}, p \in Pids :
       flow' = [flow EXCEPT ![f] = [state |-> "open", proto |-> k, pid |-> p]]

(* A flow that gets no context: nobody watches, or there is no memory.     *)
OpenUnwatched(f) ==
  /\ Opened(f)
  /\ UNCHANGED <<driverVars, ctx, attached, call, list>>

(* AleFlowEstablishedClassify: a context is allocated ...                  *)
AleClassify(c, f) ==
  /\ "ale" \in filters /\ call[c] = Idle
  /\ Opened(f)
  /\ ctx' = [ctx EXCEPT ![f] = "live"]
  /\ call' = [call EXCEPT ![c] = [fn |-> "ale", flow |-> f, arg |-> "none"]]
  /\ UNCHANGED <<driverVars, attached, list>>

(* ... the id of the callout of its protocol is read from its variable: it  *)
(* is 0 once that is unregistered, and there is none for another protocol   *)
ReadId(c) ==
  LET id == IF flow[call[c].flow].proto \in ids THEN "id" ELSE "null"
  IN  /\ Loaded /\ call[c].fn = "ale" /\ call[c].arg = "none"
      /\ call' = [call EXCEPT ![c].arg = id]
      /\ UNCHANGED <<driverVars, flow, ctx, attached, list>>

(* Whether the engine takes a context: the id may have gone stale, but a    *)
(* callout it has refused to unregister is still there.                     *)
Takes(c) ==
  LET f == call[c].flow
  IN  call[c].arg = "id" /\ flow[f].state = "open" /\ flow[f].proto \in registered

(* Mutant of Associate: what could not be associated is not freed.         *)
AssociateOnly(c) ==
  /\ Loaded /\ call[c].fn = "ale" /\ call[c].arg # "none"
  /\ attached' = IF Takes(c) THEN attached \cup {call[c].flow} ELSE attached
  /\ call' = [call EXCEPT ![c] = Idle]
  /\ UNCHANGED <<driverVars, flow, ctx, list>>

(* ... and the context given to the engine under it; if the engine does not *)
(* take it, it is freed.                                                    *)
Associate(c) ==
  LET f == call[c].flow
  IN  /\ Loaded /\ call[c].fn = "ale" /\ call[c].arg # "none"
      /\ attached' = IF Takes(c) THEN attached \cup {f} ELSE attached
      /\ ctx' = IF Takes(c) THEN ctx ELSE [ctx EXCEPT ![f] = "freed"]
      /\ call' = [call EXCEPT ![c] = Idle]
      /\ UNCHANGED <<driverVars, flow, list>>

(* StreamClassify, DatagramClassify: entered with the flow's context, if it *)
(* has one.                                                                 *)
DataClassify(c, f) ==
  /\ call[c] = Idle
  /\ flow[f].state = "open" /\ flow[f].proto \in filters
  /\ call' = [call EXCEPT ![c] =
                [fn |-> flow[f].proto, flow |-> f, arg |-> IF f \in attached THEN "ctx" ELSE "null"]]
  /\ UNCHANGED <<driverVars, flow, ctx, attached, list>>

(* Under g_statsLock; there may be no memory for a new entry.  Nothing is   *)
(* added for a stream without a context; a datagram can do without.         *)
AddNetStats(c) ==
  /\ Loaded /\ call[c].fn \in Data
  /\ \/ UNCHANGED list
     \/ /\ call[c].arg = "ctx" \/ call[c].fn = "datagram"
        /\ list' = list \cup {flow[call[c].flow].pid}
  /\ call' = [call EXCEPT ![c] = Idle]
  /\ UNCHANGED <<driverVars, flow, ctx, attached>>

CalloutStep(c) == ReadId(c) \/ Associate(c) \/ AddNetStats(c)

Close(f) ==
  /\ flow[f].state = "open"
  /\ flow' = [flow EXCEPT ![f].state = "closed"]
  /\ UNCHANGED <<driverVars, ctx, attached, call, list>>

(* Mutant of FlowDeleteNotify: the context is not freed.                   *)
FlowDeleteForgets(f) ==
  /\ Loaded /\ f \in attached /\ flow[f].state = "closed"
  /\ \A c \in Cpus : call[c].flow # f
  /\ attached' = attached \ {f}
  /\ UNCHANGED <<driverVars, flow, ctx, call, list>>

(* The engine gives back the context of a closed flow no CPU is in for.    *)
FlowDeleteNotify(f) ==
  /\ Loaded /\ f \in attached /\ flow[f].state = "closed"
  /\ \A c \in Cpus : call[c].flow # f
  /\ attached' = attached \ {f}
  /\ ctx' = [ctx EXCEPT ![f] = "freed"]
  /\ UNCHANGED <<driverVars, flow, call, list>>

Next ==
  \/ DriverStep \/ Unload
  \/ \E f \in Flows : OpenUnwatched(f) \/ Close(f) \/ FlowDeleteNotify(f)
  \/ \E c \in Cpus, f \in Flows : AleClassify(c, f) \/ DataClassify(c, f)
  \/ \E c \in Cpus : CalloutStep(c)

(* Callouts and the driver's own routines run to their ends while it is     *)
(* loaded; connections are closed sooner or later, and the engine then      *)
(* tells the driver, if it is still there.                                  *)
Fairness ==
  /\ WF_vars(DriverStep)
  /\ \A c \in Cpus : WF_vars(CalloutStep(c))
  /\ \A f \in Flows : WF_vars(Close(f)) /\ WF_vars(FlowDeleteNotify(f))

Spec == Init /\ [][Next]_vars /\ Fairness

-----------------------------------------------------------------------------
(* Properties *)

(* Type invariant; a callout the engine calls is registered, and so is one *)
(* a CPU is in.                                                            *)
TypeOK ==
  /\ pc \in {"register", "running", "filters", "callouts", "device", "stopped"}
  /\ n \in 1 .. Done
  /\ filters \subseteq registered /\ ids \subseteq registered /\ registered \subseteq Callouts
  /\ refused \subseteq registered
  /\ flow \in [Flows -> [state : {"new", "open", "closed"}, proto : Data \cup {"other"}, pid : Pids \cup {"none"}]]
  /\ ctx \in [Flows -> {"none", "live", "freed"}] /\ attached \subseteq Flows
  /\ call \in [Cpus -> {Idle} \cup [fn : registered, flow : Flows, arg : {"none", "id", "ctx", "null"}]]
  /\ list \subseteq Pids

(* Every context that is allocated has exactly one owner: the callout that  *)
(* has just made it or, once it is associated, the engine; and no callout    *)
(* is in for a context that was freed.  This holds also while the ids it is  *)
(* associated under are being cleared and the callouts unregistered          *)
(* (WfpCallouts.c:237-262, 366-377).                                        *)
ContextsOwned ==
  /\ \A f \in Flows :
       ctx[f] = "live" <=> (f \in attached \/ \E c \in Cpus : call[c].fn = "ale" /\ call[c].flow = f)
  /\ \A c \in Cpus : call[c].arg = "ctx" => ctx[call[c].flow] = "live"

(* Why a context can outlive the driver: the callout that was to free it    *)
(* was in use when it was unregistered.                                     *)
Abandoned(f) == pc = "stopped" /\ refused \cap {"ale", flow[f].proto} # {}

(* A driver that has failed to start, or was unloaded, leaves no filter,    *)
(* and no callout but one that was in use when it was unregistered; each     *)
(* thing else it leaves, a context, an entry of the list or a CPU in its     *)
(* code, is the doing of such a callout (WfpCallouts.c:615-698).             *)
StopIsClean ==
  pc = "stopped" =>
    /\ filters = {} /\ registered \subseteq refused
    /\ list # {} => refused \cap Data # {}
    /\ \A f \in Flows : ctx[f] = "live" => Abandoned(f)
    /\ \A c \in Cpus : call[c] # Idle => call[c].fn \in refused

(* When its flow has come to an end a context is freed, unless the driver   *)
(* was unloaded first, over a callout that refused to go: the status of     *)
(* FwpsCalloutUnregisterById0 is not looked at (WfpCallouts.c:662-686).       *)
ContextsAreFreed ==
  \A f \in Flows : ctx[f] = "live" ~> (ctx[f] = "freed" \/ Abandoned(f))
=============================================================================
