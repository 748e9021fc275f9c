----------------------------- MODULE OtaManager -----------------------------
(***************************************************************************)
(* The manager of the protocomm variant of the BLE OTA component            *)
(* (ble_ota/src/manager.c) over the BLE scheme (scheme_ble.c): a singleton  *)
(* under a lock, which the application's tasks initialise, extend with      *)
(* endpoints, start, stop, wait for and de-initialise.                      *)
(*                                                                         *)
(* A call is entered and then does what it does under the lock in one step; *)
(* only the start of the service runs without the lock, step by step.       *)
(* Nothing in the code moves the state past STARTING, so what the manager   *)
(* would do in a later state (register and unregister an endpoint, stop a   *)
(* running service) is never reached and is not here.                       *)
(***************************************************************************)
EXTENDS Naturals, Sequences, FiniteSets

CONSTANTS
  Tasks,
  Builds,        \* sets of the versions of protocomm's security that a build has
  ReleasesBle,   \* the scheme's event handler releases the memory of BLE
  PopMayFail,    \* the copy of the proof of possession may fail
  MaxEndpoints   \* bound on endpoints added by the application

ASSUME ManagerAssumption ==
  Builds \subseteq (SUBSET (0 .. 2)) \ {{}} /\ {ReleasesBle, PopMayFail} \subseteq BOOLEAN /\ MaxEndpoints \in Nat

VARIABLES
  compiled,   \* the versions that this build has
  lock,       \* prov_ctx_lock: "absent", "free", or a task that kept it
  ctx,        \* prov_ctx: "none", "live", or "freed" but not cleared
  state,      \* prov_state
  config,     \* nu_lookup of the scheme's configuration: UUIDs
  security,   \* security: the number of the version asked for
  protocomm, secured, endpoints, \* the protocomm instance: made, its version, its endpoints
  served,     \* table the BLE service was started with, <<>> when it is down
  memory,     \* the BLE memory has not been released
  pc          \* per task: the call it is in, or the step of the start

service == <<protocomm, secured, endpoints, served>>
vars    == <<compiled, lock, ctx, state, config, security, service, memory, pc>>

Steps == {"new", "service", "ble", "version", "security", "handlers"}
Calls == {"create", "start", "stop", "wait", "deinit"}

(* prov-session, prov-config, proto-ver, recv-fw, ota-bar, ota-command,
   ota-customer                                                          *)
Fixed == <<65361, 65362, 65363, 32800, 32801, 32802, 32803>>
OtaEndpoints == {32800, 32801, 32802, 32803}
FirstAdded == 65364

(* The enumeration of the versions lists those of the build only. *)
Number(version) == Cardinality({v \in compiled : v < version})

Init ==
  /\ compiled \in Builds /\ lock = "absent" /\ ctx = "none" /\ state = "IDLE" /\ config = <<>> /\ security = 0
  /\ protocomm = "none" /\ secured = {} /\ endpoints = {} /\ served = <<>>
  /\ memory = TRUE /\ pc = [t \in Tasks |-> "idle"]

Goto(t, l) == pc' = [pc EXCEPT ![t] = l]
Return(t) == Goto(t, "idle")

(* A call to a manager that is not initialised returns.  The application calls
   init and deinit when no other task is in a call, and nothing at all after an init
   that failed late: the context it then left is freed memory.                    *)
Enter(t) ==
  /\ pc[t] = "idle" /\ lock # "absent" /\ ctx # "freed"
  /\ \A u \in Tasks : pc[u] # "deinit"
  /\ \E c \in Calls :
       /\ c = "deinit" => \A u \in Tasks : pc[u] = "idle"
       /\ Goto(t, c)
  /\ UNCHANGED <<compiled, lock, ctx, state, config, security, service, memory>>

(* esp_ble_ota_init *)
NewConfig == <<>>
SetConfigEndpoint(table, uuid) == Append(table, uuid)
Configured == NewConfig \o Fixed

InitManager ==
  /\ \A u \in Tasks : pc[u] = "idle"
  /\ lock \in {"absent", "free"} /\ ctx = "none"
  /\ lock' = "free"
  /\ \/ ctx' = "live" /\ config' = Configured
     \/ ctx' \in {"none", "freed"} /\ UNCHANGED config
  /\ UNCHANGED <<compiled, state, security, service, memory, pc>>

(* esp_ble_ota_endpoint_create *)
FaultyCreateEndpoint(t) ==
  /\ pc[t] = "create" /\ lock = "free"
  /\ IF ctx = "live" /\ Len(config) < Len(Fixed) + MaxEndpoints
       THEN config' = SetConfigEndpoint(config, FirstAdded + Len(config) - Len(Fixed) + 1)
       ELSE UNCHANGED config
  /\ Return(t)
  /\ UNCHANGED <<compiled, lock, ctx, state, security, service, memory>>

FaultyCreateEndpointKeepsLock(t) ==
  /\ pc[t] = "create" /\ lock = "free"
  /\ IF ctx = "live" /\ state = "IDLE" /\ Len(config) < Len(Fixed) + MaxEndpoints
       THEN lock' = lock /\ config' = SetConfigEndpoint(config, FirstAdded + Len(config) - Len(Fixed) + 1)
       ELSE lock' = t /\ UNCHANGED config
  /\ Return(t)
  /\ UNCHANGED <<compiled, ctx, state, security, service, memory>>

CreateEndpoint(t) ==
  /\ pc[t] = "create" /\ lock = "free"
  /\ \/ /\ ctx = "live" /\ state = "IDLE" /\ Len(config) < Len(Fixed) + MaxEndpoints
        /\ config' = SetConfigEndpoint(config, FirstAdded + Len(config) - Len(Fixed) + 1)
     \/ UNCHANGED config
  /\ Return(t)
  /\ UNCHANGED <<compiled, lock, ctx, state, security, service, memory>>

-----------------------------------------------------------------------------
(* esp_ble_ota_start *)
StartRefused(t) ==
  /\ pc[t] = "start" /\ lock = "free"
  /\ ctx = "none" \/ state # "IDLE"
  /\ Return(t)
  /\ UNCHANGED <<compiled, lock, ctx, state, config, security, service, memory>>

FaultyStarting(t) ==
  /\ pc[t] = "start" /\ lock = "free" /\ ctx = "live"
  /\ state' = "STARTING" /\ \E v \in compiled : security' = Number(v)
  /\ Goto(t, "new")
  /\ UNCHANGED <<compiled, lock, ctx, config, service, memory>>

Starting(t) ==
  /\ pc[t] = "start" /\ lock = "free" /\ ctx = "live" /\ state = "IDLE"
  /\ state' = "STARTING"
  /\ \/ (\E v \in compiled : security' = Number(v)) /\ Goto(t, "new") /\ UNCHANGED lock
     \/ PopMayFail /\ 1 \in compiled /\ lock' = t /\ Return(t) /\ UNCHANGED security
  /\ UNCHANGED <<compiled, ctx, config, service, memory>>

(* esp_ble_ota_start_service: a step, and on a failure what it undoes *)
At(t, step) == pc[t] = step
DeleteProtocomm == protocomm' = "deleted" /\ secured' = {} /\ endpoints' = {}
StopBle == served' = <<>>

NewProtocomm(t) ==
  /\ At(t, "new")
  /\ \/ protocomm' = "live" /\ Goto(t, "service")
     \/ protocomm' = "none" /\ Return(t)
  /\ UNCHANGED <<compiled, lock, ctx, state, config, security, secured, endpoints, served, memory>>

ConfigService(t) ==
  /\ At(t, "service")
  /\ \/ Goto(t, "ble") /\ UNCHANGED service
     \/ DeleteProtocomm /\ Return(t) /\ UNCHANGED served
  /\ UNCHANGED <<compiled, lock, ctx, state, config, security, memory>>

StartBle(t) ==
  /\ At(t, "ble")
  /\ \/ memory /\ served' = config /\ Goto(t, "version") /\ UNCHANGED <<compiled, protocomm, secured, endpoints>>
     \/ DeleteProtocomm /\ Return(t) /\ UNCHANGED served
  /\ UNCHANGED <<compiled, lock, ctx, state, config, security, memory>>

SetVersion(t) ==
  /\ At(t, "version")
  /\ \/ Goto(t, "security") /\ UNCHANGED service
     \/ StopBle /\ DeleteProtocomm /\ Return(t)
  /\ UNCHANGED <<compiled, lock, ctx, state, config, security, memory>>

(* A number whose version is not in the build ends the start with nothing undone. *)
SetSecurity(t) ==
  /\ At(t, "security")
  /\ \/ security \in compiled /\ secured' = {security} /\ Goto(t, "handlers")
        /\ UNCHANGED <<compiled, protocomm, endpoints, served>>
     \/ security \in compiled /\ StopBle /\ DeleteProtocomm /\ Return(t)
     \/ security \notin compiled /\ Return(t) /\ UNCHANGED service
  /\ UNCHANGED <<compiled, lock, ctx, state, config, security, memory>>

FaultyAddHandlers(t) ==
  /\ At(t, "handlers")
  /\ \/ endpoints' = OtaEndpoints /\ UNCHANGED <<compiled, protocomm, secured, served>>
     \/ DeleteProtocomm /\ UNCHANGED served
  /\ Return(t)
  /\ UNCHANGED <<compiled, lock, ctx, state, config, security, memory>>

AddHandlers(t) ==
  /\ At(t, "handlers")
  /\ \/ endpoints' = OtaEndpoints /\ UNCHANGED <<compiled, protocomm, secured, served>>
     \/ StopBle /\ DeleteProtocomm
  /\ Return(t)
  /\ UNCHANGED <<compiled, lock, ctx, state, config, security, memory>>

-----------------------------------------------------------------------------
(* esp_ble_ota_stop and esp_ble_ota_done: they wait while the state is STARTING. *)
Stop(t) ==
  /\ pc[t] = "stop" /\ lock = "free"
  /\ ctx = "none" \/ state # "STARTING"
  /\ Return(t)
  /\ UNCHANGED <<compiled, lock, ctx, state, config, security, service, memory>>

Wait(t) ==
  /\ pc[t] = "wait" /\ lock = "free"
  /\ ctx = "none" \/ state = "IDLE"
  /\ Return(t)
  /\ UNCHANGED <<compiled, lock, ctx, state, config, security, service, memory>>

(* esp_ble_ota_deinit, and the scheme's handler of OTA_DEINIT *)
Deinit(t) ==
  /\ pc[t] = "deinit" /\ lock = "free"
  /\ ctx = "none" \/ state # "STARTING"
  /\ ctx' = "none" /\ config' = <<>> /\ lock' = "absent"
  /\ memory' = (memory /\ ~(ReleasesBle /\ ctx = "live"))
  /\ Return(t)
  /\ UNCHANGED <<compiled, state, security, service>>

StartService(t) ==
  \/ NewProtocomm(t) \/ ConfigService(t) \/ StartBle(t) \/ SetVersion(t)
  \/ SetSecurity(t) \/ AddHandlers(t)

InCall(t) ==
  \/ CreateEndpoint(t) \/ StartRefused(t) \/ Starting(t) \/ StartService(t)
  \/ Stop(t) \/ Wait(t) \/ Deinit(t)

Next == InitManager \/ \E t \in Tasks : Enter(t) \/ InCall(t)

Spec == Init /\ [][Next]_vars

(* The lock is fair to tasks that come back to it, as those that wait sleep 100 ms
   or more between two tries.                                                    *)
FairSpec == Spec /\ \A t \in Tasks : SF_vars(InCall(t))

-----------------------------------------------------------------------------
TypeOK ==
  /\ compiled \in Builds
  /\ lock \in {"absent", "free"} \cup Tasks
  /\ ctx \in {"none", "live", "freed"} /\ state \in {"IDLE", "STARTING"}
  /\ security \in 0 .. 2 /\ security < Cardinality(compiled) /\ secured \subseteq compiled
  /\ protocomm \in {"none", "live", "deleted"} /\ endpoints \subseteq OtaEndpoints
  /\ pc \in [Tasks -> {"idle"} \cup Calls \cup Steps]

Serving == served # <<>>
Settled == \A t \in Tasks : pc[t] \notin Steps

(* However many tasks start the manager, one brings up the service, and it never
   makes a second protocomm instance over the first.                            *)
OneService ==
  /\ Cardinality({t \in Tasks : pc[t] \in Steps}) <= 1
  /\ \A t \in Tasks : pc[t] = "new" => protocomm # "live"

(* The table the BLE service works with is the configuration's, which nobody
   extends or frees under it: the start reads it, and the service keeps it, with
   no lock held.  No two of its endpoints have one UUID.  Nor are the context and
   the memory of BLE given back under the service.                              *)
ServedAsConfigured ==
  Serving =>
    /\ served = config /\ \A i, j \in DOMAIN served : served[i] = served[j] => i = j
    /\ ctx = "live" /\ memory

(* When the start has returned, with or without an error, a BLE service that is up
   is complete: secured with the version asked for, all handlers in place.  This is
   so in a build that has every version up to its last: in another one the numbers
   are not those of the versions, and the service may be up with no security set.  *)
NoGap == compiled = 0 .. Cardinality(compiled) - 1
ServiceIsComplete ==
  NoGap /\ Serving /\ Settled => secured = {security} /\ endpoints = OtaEndpoints

(* The inductive invariant behind the three: STARTING lasts from the first start on,
   one task at most is in it, what it has made so far is in place, and the table is
   the fixed endpoints with the added ones behind.                                 *)
Busy(t) == pc[t] \in Steps
Uuid(i) == IF i <= Len(Fixed) THEN Fixed[i] ELSE FirstAdded + i - Len(Fixed)

StartInv ==
  /\ \A t, u \in Tasks : Busy(t) /\ Busy(u) => t = u
  /\ \A t \in Tasks : Busy(t) => state = "STARTING"
  /\ state = "STARTING" => ctx = "live"
  /\ state = "IDLE" => protocomm # "live" /\ ~Serving
  /\ \A t \in Tasks : pc[t] = "new" => protocomm # "live"

ServiceInv ==
  /\ Serving => memory /\ served = config
  /\ \A t \in Tasks : pc[t] \in {"new", "service", "ble"} => ~Serving

SecureInv ==
  /\ \A t \in Tasks : pc[t] = "handlers" => secured = {security}
  /\ NoGap => \A t \in Tasks : Busy(t) => security \in compiled

TableInv ==
  /\ config \in Seq(Nat) /\ \A i \in DOMAIN config : config[i] = Uuid(i)
  /\ ctx = "live" => Len(config) >= Len(Fixed)

ManagerInv == StartInv /\ ServiceInv /\ SecureInv /\ TableInv /\ ServiceIsComplete

(* A call that has nothing to wait for returns, with or without an error, and so
   does every start: unless one could not copy the proof of possession, and left
   with the lock.                                                                *)
LockLost == lock \in Tasks /\ state = "STARTING"
CallsReturn ==
  \A t \in Tasks : pc[t] \in {"create", "start"} \cup Steps ~> pc[t] = "idle" \/ LockLost

(* manager.h:249 says of esp_ble_ota_stop that it begins to stop the service and
   returns.                                                                       *)
StopReturns == \A t \in Tasks : pc[t] = "stop" ~> pc[t] = "idle"
=============================================================================
