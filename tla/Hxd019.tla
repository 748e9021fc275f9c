------------------------------- MODULE Hxd019 -------------------------------
(***************************************************************************)
(* The driver of the infrared remote-control chip (hxd019/src/hxd019_uart.c *)
(* with the session of hxd019_core/src/hxd019_session.c and the code index  *)
(* of hxd019_codec.c): tasks that send, the mutex around the UART, the      *)
(* cached state of the air conditioner, and the reader task.                *)
(*                                                                         *)
(* A send of a state is four steps: read the cache, build the frame, write  *)
(* it under the mutex, commit the cache.  Reading or committing the cache   *)
(* is one step each.                                                        *)
(***************************************************************************)
EXTENDS HxdFrame

CONSTANTS
  Setters,         \* tasks that use the functions with a cached state
  Senders,         \* tasks that send the other frames
  BindInCallback,  \* the match callback binds the group itself
  Brands,          \* s_brands: records [name, type, groups]
  Table,           \* the code table an application may register: entries
  Settings,        \* what is set: records [key, field, value]
  Temps, Delta,    \* temperatures set, and the step up or down
  Chunks,          \* what one read of the UART may return
  Builds,          \* builds of the firmware
  MaxReaders       \* bound on reader tasks

Tasks == Setters \cup Senders

(* The code index, hxd019_codec.c; a group is sent in two bytes, and one that the
   chip finds is below 2048.                                                       *)
LastGroup == 65535
LastFound == 2047
Group == 0 .. LastGroup
Found == 1 .. LastFound
BrandFind(name, type) == {b \in Brands : b.name = name /\ b.type = type}
CodeGroups(b) == {b.groups[i] : i \in DOMAIN b.groups}
AcGroups == UNION {CodeGroups(b) : b \in BrandFind("gree", "AC")}

ASSUME TaskAssumption ==
  BindInCallback \in BOOLEAN /\ MaxReaders \in Nat /\ {"none", "free"} \cap Tasks = {}
ASSUME BuildAssumption == Builds \subseteq [keys : {7, 11}, minus16 : BOOLEAN]
ASSUME IndexAssumption == AcGroups \subseteq Group
ASSUME TableAssumption ==
  Table \in Seq([fmt : Byte, key : Byte \X Byte, com : Byte \X Byte \X Byte \X Byte])
ASSUME ChunkAssumption == Chunks \subseteq Seq(Byte)

VARIABLES
  build,
  installed,   \* the UART driver is installed
  mutex,       \* s_tx_mutex: "none", "free", or the task that holds it
  running,     \* s_running
  readers,     \* reader tasks that have not ended
  group, hasState, lastState,  \* s_sess
  table,       \* s_tables: entries registered
  matchCb,     \* s_match_cb is set
  matched,     \* the group of the last chunk read, 0 if none
  pc, job,     \* per task: where it is, and the state and frame it sends
  wire,        \* the frame being written to the UART
  sent         \* the state last sent and its group (history)

driver  == <<installed, mutex, running, readers>>
session == <<group, hasState, lastState>>
reader  == <<matchCb, matched>>
vars    == <<build, driver, session, table, reader, pc, job, wire, sent>>

NothingSent == [group |-> 0, state |-> Default]
Nothing == [state |-> Default, key |-> FALSE, frame |-> <<>>]

Init ==
  /\ build \in Builds
  /\ installed = FALSE /\ mutex = "none" /\ running = FALSE /\ readers = 0
  /\ group = 0 /\ hasState = FALSE /\ lastState = Default
  /\ table = <<>> /\ matchCb = FALSE /\ matched = 0
  /\ pc = [t \in Tasks |-> "idle"] /\ job = [t \in Tasks |-> Nothing]
  /\ wire = <<>> /\ sent = NothingSent

Goto(t, l) == pc' = [pc EXCEPT ![t] = l]
Back(t) == Goto(t, "idle") /\ job' = [job EXCEPT ![t] = Nothing]
Resting(t) == pc[t] = "idle" /\ \A u \in Tasks : pc[u] # "deinit"

-----------------------------------------------------------------------------
(* hxd019_init, which like deinit the application calls when no task sends.  A
   failure before the mutex undoes what was made and changes nothing; the creation
   of the mutex may fail too, which nobody looks at, and then of the task.        *)
Quiet == \A u \in Tasks : pc[u] = "idle"

InitDriver ==
  /\ Quiet /\ mutex = "none" /\ ~installed
  /\ \/ /\ installed' = TRUE /\ mutex' \in {"free", "none"}
        /\ running' = TRUE /\ readers' = readers + 1 /\ readers' <= MaxReaders
     \/ running' = FALSE /\ UNCHANGED <<installed, mutex, readers>>
  /\ group' = 0 /\ hasState' = FALSE /\ lastState' = Default
  /\ sent' = NothingSent
  /\ UNCHANGED <<build, table, reader, pc, job, wire>>

(* hxd019_deinit: the reader has 50 ms to end but may be in a read of 200 ms. *)
DeinitBegins(t) ==
  /\ Quiet
  /\ mutex # "none"
  /\ running' = FALSE /\ Goto(t, "deinit")
  /\ UNCHANGED <<build, installed, mutex, readers, session, table, reader, job, wire, sent>>

DeinitEnds(t) ==
  /\ pc[t] = "deinit"
  /\ installed' = FALSE /\ mutex' = "none" /\ Goto(t, "idle")
  /\ UNCHANGED <<build, running, readers, session, table, reader, job, wire, sent>>

-----------------------------------------------------------------------------
(* The session *)
FaultyBind(g) == group' = g /\ UNCHANGED <<hasState, lastState>>
Bind(g) == group' = g /\ hasState' = FALSE /\ lastState' = Default
BaseState == IF hasState THEN lastState ELSE Default

(* hxd019_bind_group, with a group of the index or the one that was matched *)
BindGroup(t) ==
  /\ t \in Setters /\ Resting(t) /\ mutex # "none"
  /\ \E g \in (IF matchCb THEN {matched} ELSE {}) \cup AcGroups : g # 0 /\ Bind(g)
  /\ UNCHANGED <<build, driver, table, reader, pc, job, wire, sent>>

RegisterTable ==
  /\ table' = Table
  /\ UNCHANGED <<build, driver, session, reader, pc, job, wire, sent>>

-----------------------------------------------------------------------------
(* Functions with a cached state: the key they send and what they change.  The
   ones of the longer format are not in a build of the shorter.                 *)
Clamped(temp) == IF temp < 16 THEN 16 ELSE IF temp > 31 THEN 31 ELSE temp
TempKey(up) == IF up THEN 6 ELSE 7

Set(base, key, f, v) == [base EXCEPT ![f] = v, !.key = key]
SetField(base) ==
  {Set(base, s.key, s.field, s.value) : s \in {s \in Settings : build.keys = 11 \/ s.key \notin 8 .. 11}}
SetTemp(base) == {Set(base, TempKey(v >= base.temp), "temp", v) : v \in Temps}
StepTemp(base) ==
  {Set(base, TempKey(FALSE), "temp", Clamped(base.temp - Delta)),
   Set(base, TempKey(TRUE), "temp", Clamped(base.temp + Delta))}
SendKey(base) == {[base EXCEPT !.key = 12]}

Changed(base) == UNION {SetField(base), SetTemp(base), StepTemp(base), SendKey(base)}

(* send_state_with_key, up to its build *)
ReadBase(t) ==
  /\ t \in Setters /\ Resting(t)
  /\ \E st \in Changed(BaseState) :
       job' = [job EXCEPT ![t] = [state |-> st, key |-> TRUE, frame |-> <<>>]]
  /\ Goto(t, "based")
  /\ UNCHANGED <<build, driver, session, table, reader, wire, sent>>

(* A state that cannot be sent is refused with nothing changed. *)
BuildState(t) ==
  /\ pc[t] = "based"
  /\ IF Sendable(job[t].state, build)
       THEN /\ job' = [job EXCEPT ![t].frame = AcState(group, job[t].state, build)]
            /\ Goto(t, "send")
       ELSE Back(t)
  /\ UNCHANGED <<build, driver, session, table, reader, wire, sent>>

(* Frames without a state: a simple command for the bound group, a key of the
   registered table, learn, match                                             *)
PlainFrames ==
  (IF group = 0 THEN {} ELSE {AcSimple(group, 129)})
    \cup {Av(table[i]) : i \in DOMAIN table} \cup {Learn, Match}

SendPlain(t) ==
  /\ t \in Senders /\ Resting(t)
  /\ \E f \in PlainFrames :
       /\ job' = [job EXCEPT ![t] = [Nothing EXCEPT !.frame = f]]
       /\ matchCb' = (matchCb \/ f = Match)
  /\ Goto(t, "send")
  /\ UNCHANGED <<build, driver, session, table, matched, wire, sent>>

(* hxd019_send_frame: not initialised, or the mutex not had in 100 ms *)
SendRefused(t) ==
  /\ pc[t] = "send" /\ mutex # "free"
  /\ Back(t)
  /\ UNCHANGED <<build, driver, session, table, reader, wire, sent>>

FaultyTakeMutex(t) ==
  /\ pc[t] = "send" /\ mutex # "none"
  /\ mutex' = t /\ wire' = job[t].frame /\ Goto(t, "write")
  /\ UNCHANGED <<build, installed, running, readers, session, table, reader, job, sent>>

TakeMutex(t) ==
  /\ pc[t] = "send" /\ mutex = "free"
  /\ mutex' = t /\ wire' = job[t].frame /\ Goto(t, "write")
  /\ UNCHANGED <<build, installed, running, readers, session, table, reader, job, sent>>

WriteFails(t) ==
  /\ pc[t] = "write"
  /\ mutex' = "free" /\ wire' = <<>> /\ Back(t)
  /\ UNCHANGED <<build, installed, running, readers, session, table, reader, sent>>

Written(t) ==
  /\ pc[t] = "write"
  /\ mutex' = "free" /\ wire' = <<>>
  /\ IF job[t].key
       THEN /\ Goto(t, "sent") /\ UNCHANGED job
            /\ sent' = [group |-> 256 * wire[3] + wire[4], state |-> job[t].state]
       ELSE Back(t) /\ UNCHANGED sent
  /\ UNCHANGED <<build, installed, running, readers, session, table, reader>>

Commit(t) ==
  /\ pc[t] = "sent"
  /\ lastState' = job[t].state /\ hasState' = TRUE
  /\ Back(t)
  /\ UNCHANGED <<build, driver, group, table, reader, wire, sent>>

-----------------------------------------------------------------------------
(* rx_task: two bytes that could be a group, the first of them not a header *)
Scan(chunk) ==
  LET at == {i \in 1 .. Len(chunk) - 1 :
               chunk[i] \notin {32, 48, 112} /\ 256 * chunk[i] + chunk[i + 1] \in Found}
  IN IF at = {} THEN 0
     ELSE LET i == CHOOSE i \in at : \A j \in at : i <= j IN 256 * chunk[i] + chunk[i + 1]

Receive(chunk) ==
  /\ readers > 0 /\ installed
  /\ matched' = Scan(chunk)
  /\ IF BindInCallback /\ matchCb /\ matched' # 0 THEN Bind(matched') ELSE UNCHANGED session
  /\ UNCHANGED <<build, driver, table, matchCb, pc, job, wire, sent>>

FaultyReaderEnds ==
  /\ readers > 0 /\ ~running /\ installed /\ \E t \in Tasks : pc[t] = "deinit"
  /\ readers' = readers - 1
  /\ UNCHANGED <<build, installed, mutex, running, session, table, reader, pc, job, wire, sent>>

ReaderEnds ==
  /\ readers > 0 /\ ~running
  /\ readers' = readers - 1
  /\ UNCHANGED <<build, installed, mutex, running, session, table, reader, pc, job, wire, sent>>

Send(t) ==
  \/ BuildState(t) \/ SendRefused(t) \/ TakeMutex(t) \/ WriteFails(t) \/ Written(t)
  \/ Commit(t) \/ DeinitEnds(t)

Call(t) == DeinitBegins(t) \/ BindGroup(t) \/ ReadBase(t) \/ SendPlain(t)

Next ==
  \/ \E t \in Tasks : Send(t) \/ Call(t)
  \/ InitDriver \/ RegisterTable \/ (\E c \in Chunks : Receive(c)) \/ ReaderEnds

Spec == Init /\ [][Next]_vars

(* A task in a call goes on, and the reader returns from its read in 200 ms. *)
FairSpec == Spec /\ \A t \in Tasks : WF_vars(Send(t)) /\ WF_vars(ReaderEnds)

-----------------------------------------------------------------------------
(* What is typed: where a task is, the mutex, the groups, and that the build's format
   can carry the cached state.                                                       *)
Place == {"idle", "based", "send", "write", "sent", "deinit"}
Carried == ValidState(lastState) /\ lastState.temp \in TempRange(build)
DriverTyped == mutex \in {"none", "free"} \cup Tasks /\ readers \in 0 .. MaxReaders
GroupsTyped == group \in Group /\ matched \in Found \cup {0}

(* The driver's statics and the tasks have their types. *)
TypeOK == DriverTyped /\ GroupsTyped /\ Carried /\ pc \in [Tasks -> Place]

(* Frames of two tasks never overlap on the wire, and the mutex is never left
   behind by a task that has gone on: short writes, time-outs and
   re-initialisation included.                                                *)
OneWriter == \A t \in Tasks : pc[t] = "write" <=> mutex = t

(* Every frame on the wire is one the chip takes, in either build: its length is
   that of its header, its sum is right, and a state frame carries the very state
   that is committed if the write succeeds.                                     *)
WireIsRight ==
  \A t \in Tasks : pc[t] = "write" =>
    /\ WellFormed(wire)
    /\ job[t].key => Carries(wire, group, job[t].state, build)

(* hxd019_session.h:11 asks that the session is used by one thread and says that
   the interface layer sees to it.  If so, the cached state is the last one that
   was sent, to the group that is bound now, and one the build's format can carry.  *)
CacheIsLastSent ==
  /\ TypeOK
  /\ hasState /\ (\A t \in Setters : pc[t] # "sent") => sent = [group |-> group, state |-> lastState]

(* What the proofs of OneWriter and CacheIsLastSent add to them: a task that shuts the
   driver down is alone; what each task is about to send, is sending or has just sent;
   and the chip has the state that is about to be committed.                          *)
WriterInv ==
  /\ pc \in [Tasks -> Place] /\ mutex \in {"none", "free"} \cup Tasks
  /\ OneWriter
  /\ \A t, u \in Tasks : pc[t] = "deinit" /\ u # t => pc[u] = "idle"

Shape == job = [t \in Tasks |-> [state |-> job[t].state, key |-> job[t].key, frame |-> job[t].frame]]

JobInv ==
  /\ Shape
  /\ \A t \in Tasks :
       /\ pc[t] = "based" => t \in Setters /\ job[t].key
       /\ pc[t] \in {"send", "write", "sent"} /\ job[t].key =>
            t \in Setters /\ Sendable(job[t].state, build)
       /\ pc[t] \in {"send", "write"} /\ job[t].key =>
            job[t].frame = AcState(group, job[t].state, build)
       /\ pc[t] = "write" => wire = job[t].frame
       /\ pc[t] = "sent" => job[t].key /\ sent = [group |-> group, state |-> job[t].state]

(* What the proof of WireIsRight adds, whoever uses the session: a task in a send has a
   frame that the chip takes.                                                         *)
FrameInv ==
  /\ build \in Builds /\ WriterInv /\ Shape /\ GroupsTyped /\ table \in {<<>>, Table}
  /\ \A t \in Tasks :
       /\ pc[t] \in {"send", "write"} => WellFormed(job[t].frame)
       /\ pc[t] = "write" => wire = job[t].frame

CacheInv == build \in Builds /\ WriterInv /\ JobInv /\ CacheIsLastSent

(* A driver that is shut down for good ends all its readers. *)
ReadersEnd == []~running ~> readers = 0
=============================================================================
