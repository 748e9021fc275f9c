# Formal models of the ESP32-C6 BLE OTA firmware

TLA+ models, TLC runs and TLAPS proofs for the firmware in `src/firmware`: what
happens between a host's BLE packets and a device that boots a new image, the boot
itself, the two variants of the update component that this configuration does not
compile, and the driver of the infrared chip.

## 1. Inventory

The host streams a firmware image over GATT. The vendor component `ble_ota`
assembles packets into 4096-byte sectors and acknowledges them; the transport
queues the sectors; a pump task hands them to the sink, which writes flash and
decides what the device boots.

| component | state | operations | talks to |
|---|---|---|---|
| `ota_sink` (`ota_core/src/ota_sink.c`) | `s_sink`: state machine, epoch, live flag, OTA handle, byte and sector counts, progress flag | `session_open`, `write`, `finish`, `activate`, `session_abort` (serial caller), `epoch_invalidate` (any task) | ESP-IDF OTA and partition API, `ota_progress_store` |
| `ble_transport` (`main/ble_transport.c`) | ring buffer, `s_armed`, `s_open_blocked`; the pump's `epoch`, `fw_len`, `bytes_pumped` | session callback (Start, Stop, disconnect), `recv_cb`, pump task | called by `nimble_ota` (NimBLE task), calls `ota_sink` |
| `nimble_ota` (`ble_ota/src/nimble_ota.c`) | `start_ota`, `ota_total_len`, `cur_sector`, `cur_packet`, sector buffer | GATT writes (commands, data packets), GAP events, indications | host over ATT; transport through two callbacks |
| `ota_progress_store` | one NVS blob | save, load, clear | NVS |
| `ota_rollback`, `app_main` | otadata's image states; where the start-up is | self-check, confirm or roll back; start-up order | boot loader, everything above; the host task advertises beside it |
| host (`host/ble_ota_host.py`) | last acknowledged sector, retry counters | start, send sector with retries and jumps, stop, watch the reboot | device over ATT |
| `ble_ota.c` (Bluedroid variant of the component) | two GATT profiles, `start_ota`, `cur_sector`, `fw_buf` with its offset, prepared writes | GATT and GAP events | Bluedroid's task, host; not compiled in this configuration |
| `manager`, `scheme_ble`, `handlers` (protocomm variant) | `prov_ctx` under its lock, the service that was started | init, create endpoint, start, stop, wait, deinit | application tasks, protocomm; not compiled in this configuration |
| `hxd019`, `hxd019_core`, `hxd019_shared` | `s_sess` (bound group, cached state), `s_tx_mutex`, reader task | bind, set, send, learn, match, init, deinit | UART; not yet called by `app_main` |

Hard behaviour, by component:

* **sink** - three operations release the mutex in the middle (`esp_ota_write`,
  `esp_ota_end`, `esp_ota_set_boot_partition`), and another task can invalidate
  the session in any of those windows; `esp_ota_abort` is deferred to the next
  open; power can fail anywhere. It is correct if handles are never leaked or
  closed under a write, one session's data never reaches another's image, the
  counts are exact, the running slot is never touched, and only a complete
  session's image is booted.
* **transport** - two tasks share the ring, two flags and the component's
  announced length with no lock; session boundaries (Start, Stop, disconnect)
  race the chunk the pump has in hand. It is correct if the pump and the sink
  agree on the session, a dead stream is cleaned up, and a host that retries
  gets its image booted.
* **nimble_ota and host** - lost indications, retries of a sector the device has
  already taken, a packet sequence error in the middle of a sector.
* **boot** - an image on trial is confirmed by its own start-up, and a crash, a failed
  self-check or a failed write to otadata each take another way; the radio is on
  before the data callback is registered. It is correct if the device always has a
  whole image to boot, never runs a convicted one twice, and stays reachable.
* **Bluedroid variant** - one event handler for two profiles; a buffer that is exactly
  large enough and copies that are not checked. It is correct if every packet fits,
  answers arrive in one piece, and whole sectors come out in order.
* **manager** - a start that runs without the lock in eight steps, each of which must
  undo the ones before; waits for states. It is correct if one service comes up,
  complete, over memory and a table nobody takes away, and if calls return.
* **hxd019** - read, send and commit of a cached state with no lock around the three;
  a reader that outlives its driver. It is correct if frames never overlap, each is
  one the chip takes, and the cache is what was last sent.

`PROJECT.json` lists every component with its status and the forty hazards that weigh
most, each at its line.

## 2. Modules

| module | what it is |
|---|---|
| `OtaSink` | the operations of `ota_sink.c` as actions, and the part of ESP-IDF they use; no specification of its own |
| `OtaSinkClient` | the sink under the most general client its contract allows; its properties; the inductive invariant `IInv` |
| `OtaSession` | what the sink promises, with no mutex, handle, slot or deferred abort |
| `BootSlots` | what the sink and the boot loader rely on each other for: two slots, which hold a whole image, which runs, which otadata names |
| `OtaSinkRefinement` | the sink implements `OtaSession` (refinement mapping and one history variable) and `BootSlots` |
| `OtaSinkProofs` | TLAPS proofs about `OtaSinkClient`, and of the two refinements |
| `BleTransport` | NimBLE task and pump task composed with the actions of `OtaSink` |
| `BleTransportProps` | the transport's properties, and claims of its comments that do not hold |
| `BleTransportProofs` | TLAPS proofs about `BleTransport` |
| `NimbleOta` | the vendor component packet by packet: every way a GATT write can end; no specification of its own |
| `NimbleSender` | `NimbleOta` under any sender that keeps to the format; its properties; the inductive invariant `IInv` |
| `SectorStream` | what the component promises the transport, with no packets, buffer or sequence numbers |
| `NimbleSenderProofs` | TLAPS proofs about `NimbleSender`, its refinement of `SectorStream` included |
| `OtaHost` | the flashing client over a BLE connection to the actions of `NimbleOta`; the inductive invariant `HostInv` |
| `PacketPlan` | how the client cuts a sector into packets, over the real sizes; the inductive invariant `PlanInv` |
| `OtaHostProofs` | TLAPS proofs about `OtaHost` and `PacketPlan` |
| `DeviceBoot` | boot loader, `app_main` and host task from power-on to a reachable device, and a transfer reduced to its sectors; the inductive invariants `BootInv` and `NotifyInv`; it implements `BootSlots` |
| `DeviceBootProofs` | TLAPS proofs about `DeviceBoot`, the refinement included |
| `BluedroidOta` | the Bluedroid variant of the component, with byte counts; it implements `SectorStream` too; the inductive invariant `BluedroidInv` |
| `BluedroidOtaProofs` | TLAPS proofs about `BluedroidOta`, its refinement of `SectorStream` included |
| `OtaManager` | the protocomm variant's manager over its BLE scheme; the inductive invariant `ManagerInv` |
| `OtaManagerProofs` | TLAPS proofs about `OtaManager` |
| `HxdFrame` | the frames of the infrared chip, byte by byte, and what the chip takes |
| `Hxd019` | the driver: tasks that send, mutex, session cache, reader task; the inductive invariants `WriterInv`, `CacheInv` and `FrameInv` |
| `Hxd019Proofs` | TLAPS proofs about `Hxd019` |
| `MC...` | instances for TLC |

### OtaSink and the code

Everything `ota_sink.c` does under one hold of the mutex is one action. A call
that releases it is in several: `WriteEnter` (epoch check, lines 191-204),
`WriteFlash` (the unlocked `esp_ota_write`), then `WriteStale` or `WriteAccount`
(the second epoch check and the accounting). Likewise `FinishEnter`,
`FinishOk`/`FinishFail`, and `ActivateEnter`, `SetBootOk`/`SetBootFail`,
`ActivateClose`. `call` is the serial caller's stack: which window it is in and
the locals it carries through it. The callbacks only log and are left out, as is
`ota_sink_epoch_current`, which only reads.

The ESP-IDF side is external and modelled by what `ota_sink.c` relies on:
`ops` is the OTA handle table (0 for a closed handle, else the epoch it was
opened for), `slots` the contents of the two OTA slots as sequences of units,
`Images` the contents the verification accepts, `boot` the slot otadata names,
`running` the slot the device runs from, `nvs` the progress record. Any of these
calls may also fail. `Restart` is both `esp_restart` and a power cut: the boot
loader then starts any slot with a complete image, which covers a rollback. That it does is not
left as an assumption: `DeviceBoot` has the boot loader and its otadata, and both modules implement
`BootSlots`. The slot a transfer goes to is the point where the two could disagree: `ota_sink.c:134` takes
the one next to the running slot, not next to the one otadata names, and with the
latter TLC finds a trial, a power failure and a transfer that writes over the running image.

A caller tags each unit of data with its epoch (`OtaSinkClient`), or with the
Start command it was sent under and its place in the image (`BleTransport`), so
that the contents of a slot tell where they came from.

### BleTransport and the code

`nimble` is the position of the NimBLE task in a command handler, `pump` that of
the pump task in its loop; each statement that reads or writes something the
other task can see is an action of its own. The component is at the granularity
of a sector: `SectorDone` is the last packet of a sector, after which the
component calls `recv_cb` and sends the success ACK. `starts` and `seen` are
history counters (how many Starts there were, and the count when the pump read
the announced length).

`world` is chosen once, at the start, and says what a behaviour assumes of the
outside: the lengths a host announces, how many Starts it sends, whether the flash
fails and the power is cut, for which events the host waits (`paced`), and whether it
keeps sending (`diligent`). One run checks every property in several worlds, and the
runs that expect a counterexample differ from the good world in one field.

The ring buffer is a byte buffer of FreeRTOS/ESP-IDF: a receive returns a
non-empty prefix (a contiguous run), a second receive gets nothing while an item
is out, and an item takes room until it is returned.

### NimbleOta, NimbleSender and the code

`esp_ble_ota_write_chr` runs to its end in the NimBLE task, so a write to the
firmware characteristic is one action, with one disjunct of `WriteChr` for each
way it can end: `Ignored` (no Start), `Runt`, `WrongSector` and `StaleEof` (the two
NACKs), `WrongPacket`, `Damaged`, `NoBuffer`, `BodyTaken`, `TailTaken`. The
variables are the file-scope statics (`start_ota`, `cur_sector`, `cur_packet`,
`sector_sequence_error`, `fw_buf` with its offset); `att` and `frame` are the ATT
result and the notification of the last write, `delivered` the history of what
`recv_fw_cb` was given. A unit is the payload of one packet; packets that a byte
count could spoil (under 3 bytes, a tail without room for its CRC, one byte too
many for the buffer) have another `form`. The CRCs are not modelled: the component
does not check the one it receives.

`NimbleSender` is any sender that sends a sector's packets in order from packet 0.
It may give up anywhere, begin any sector at any time, send Start and Stop at
will, go on after an error or stop at once, and send damaged packets. One thing is
asked of it: that it begins again after a damaged packet, for the component empties
its buffer there without recording a sequence error. A sector index of 0xffff,
which the component takes for whatever sector it expects, is only sent by a sender
that is at the last one.

### OtaHost, PacketPlan and the code

`hpc` is the place where the coroutine of `run_flash` awaits something: a
connection, an ATT response (`starting`, `writing`, `stopping`), a frame
(`startAck`, `await`, `stopAck`), a scan. `waiter` is the future that
`_wait_indicate` arms before the write, with the timer that starts then. The
device answers a write at once; the ATT response (`answer`) and the notification
(`wire`) then travel on their own. Every exception but the ACK timeout ends the
run with exit code 1 (`Fail`, `ble_ota_host.py:743-746`). `Reboot` is the restart of
the pump once it has the image, or, if `"crash"` is among the troubles, a restart of another cause; it
loses the component's statics and the connection. `trouble` is what may go wrong in
a run of the model: everything (lost notifications, timers that run out too early,
dropped connections, crashes, scans that miss the device) or nothing.

`PacketPlan` is the loop of `plan_sector_packets`, one action per turn, in bytes.

### DeviceBoot and the code

`main` is the statement `app_main` is at (`main/main.c:101-165`): NVS, confirmation
(`ota_rollback.c`), transport, host, data callback. The host task (`OnSync`, `OnConnect`,
`OnDisconnect`, ...) runs beside it from `HostUp` on and takes its GAP events from
`events` in order; each is one run of `esp_ble_ota_gap_event`. The boot loader is
external: `Boot` picks the slot as ESP-IDF does with rollback enabled, an image left
`pending` is aborted, a `new` one becomes `pending`. `entry` and `latest` are what otadata
says, `image` what the slots hold, `convicted` the history of failed trials. The transfer
is only counted: sectors acknowledged and sectors stored, which differ when a sector
comes before the callback is registered or `esp_ota_begin` refuses a pending image.
A power cut is possible anywhere. Every ESP_ERROR_CHECK that fails is one of them.

### BluedroidOta and the code

Bluedroid calls the handlers in one task, one event at a time, so each event of
`gatts_event_handler`, `esp_ble_ota_...` and the GAP handler is one action; `events` is what
Bluedroid still has to give, so that the host can be `MaxAhead` events ahead of the
component. `BluedroidInv` is the inductive invariant. Registration goes through both profiles: `gattsIf` is the interface stored for
each, `handles` the handle table copied for each, and `CharOf` finds a characteristic as
the code does, by position. Offsets and lengths are in bytes, so that the buffer's
4098 bytes (4096 and a CRC) mean what they do in the code; contents are units. The
host keeps to the wire format; it may cut a packet into prepared pieces, cancel them,
lose its link or stop anywhere.

What the properties say is said of the first transfer after a boot, and that is the
code's limit, not the model's: neither Start, Stop nor a disconnection resets `cur_sector`
or the offset (`ble_ota.c:675`), so that a second transfer is answered with sector errors and
its packets are copied behind the old ones, in the end past the buffer. The model stops
there (`Fits`), as what follows is undefined. Likewise kept from the code: prepared pieces stay after
their execution, subscriptions outlive the link, and a Start without memory is neither
acknowledged nor undone.

### OtaManager and the code

A call is entered (`Enter`) and then does all it does under the lock in one action; only the
start, which gives the lock back at `manager.c:730`, goes on in steps (`new`, `service`, `ble`,
`version`, `security`, `handlers`: the statements of `esp_ble_ota_start_service`), where each step
may fail and undoes what its error path undoes. `lock` holds a task when that task returned
without giving it back (a failed `strdup`, `manager.c:748`). `ctx` is `freed` after an init that
failed late, which leaves a dangling pointer; nothing is called after that. `compiled` is the set
of security versions in the build: the enumeration has no entry for a version that is
left out, so that the number of a version is its rank. No statement moves the state on
from STARTING, so the parts of the manager behind a later state are not in the model.

### Hxd019, HxdFrame and the code

Setting a state is four steps, as in `send_state_with_key`: read the base from the cache, build
the frame (or refuse), send it under the mutex (`TakeMutex`, then `Written` or `WriteFails`, or
`SendRefused` after 100 ms), commit. Other frames take only the send. `build` is one of two
builds: states of 7 keys or of 11, temperatures as they are or less 16. `HxdFrame`
has the frames as the builders of `hxd019_frame.c` write them, and, separately, the chip's side of
`hxd019_protocol.h` (`WellFormed`, `Carries`). `Receive` is a read of the reader task with the scan for a
group. Init and deinit are called when no task sends, the rule without which the mutex is
deleted under a sender (`hxd019_uart.c:199`); of the tasks, one set uses the functions with a
state (`Setters`), as the session header asks. With two setters, or with `BindInCallback = TRUE`
(the match callback binds the group itself, as `hxd019.h:109` suggests), TLC finds a
counterexample to `CacheIsLastSent`.

## 3. Runs

| run | shows | size |
|---|---|---|
| `sink` | handle ownership, slot purity, an exact progress record, no revived epoch, only whole sessions boot; and that the sink implements `OtaSession` and `BootSlots` | 1,325,433 states |
| `transport` | the same sink driven by the real pump, in two worlds: agreement of the two byte counts, no orphan writer, a dead stream converges, whatever host, flash and power do; and the image of a host that keeps pace and retries is booted | 288,958 states |
| `nimble` | the component delivers the image whole and in order, implements `SectorStream`, and can always be brought to the end | 328 states |
| `host` | the client stays in step with the device and always ends; exit code 0 only after a whole transfer; without troubles on the link the image gets through | 11,116 states |
| `plan` | a sector is cut without loss, repetition or misnumbering | 1,420 states |
| `boot` | boot loader and `app_main` implement `BootSlots`: the next image to boot is whole, wherever the power fails; no second trial of a convicted image; the fallback of a trial stays; only whole transfers are activated; subscribers are notified; a lost client finds the device again; a trial is decided | 6,902 states |
| `bluedroid` | profiles and handle tables are not mixed up, packets fit the buffer, the variant implements `SectorStream`, advertises again after every link, and ends a transfer even at the smallest MTU | 364,771 states |
| `manager` | one service, complete, over its own table and memory; calls return | 4,433 states |
| `hxd019` | frames do not overlap and are ones the chip takes, the cache is the last state sent, readers end | 333,299 states |
| `transport_ring_full`, `transport_straggler`, `manager_stop` | each refutes one sentence of the code's own comments (section 4) | counterexamples |

The type invariants are part of `WriterHasPump`, `HostInStep`, `PacketsFit` and
`CacheIsLastSent`; those of `OtaSinkClient`, `NimbleSender`, `DeviceBoot` and `OtaManager`, and the
inductive invariants of the four, were model-checked while the proofs were written and are now
theorems, which no run repeats.

**Bounds.** `sink` has two sessions between restarts, two handles, slots of four
units in sectors of two, and writes of one unit or four: enough for an old session
to be invalidated in each of the windows while a new one opens, and for a write to
complete no sector, one sector or two, or to overflow the slot. Any sequence of
three or four units is an image there, so that the verification never hides a
mixture of sessions. Restarts are not bounded. `transport` has an image of three units in
sectors of two (the last one short), two Starts in the world where anything goes (`Wild`) and
three in the one with a host that retries (`Retry`), a
ring that holds one more unit than the image, and lengths 0, right, and too
large for the partition. `MaxEpoch` is above the number of sessions the Starts
can open, so that the bound is never what stops an open.

`nimble` has three sectors: one sent in as many packets as there are sequence
numbers (where the number of the last body packet is next to 0xff), one in two
packets and a tail on its own, and four sequence numbers instead of 256. Nothing
else is bounded. `host` has two sectors, of three packets and of one, three
attempts and two jumps (3 and 8 in the code); the runs of the tool are not
bounded. `plan` takes the lengths next to the multiples of a packet's payload, the
whole sector among them, at MTUs 23, 185, 247 and 517.

`boot` has images of two sectors (so that a transfer can be cut in its middle) and the
two characteristics a client needs; runs, crashes, links and transfers are not bounded.
`bluedroid` has an image of 5596 bytes, a whole sector in three packets and a rest in two, with a
payload of 1366 bytes: longer than a real one (509 at most), which only makes the packets fewer,
while a CRC still ends on the last byte of the buffer. Two links and two accepted Starts show
what a first transfer leaves behind; `MaxAhead` = 2 lets a packet follow another that has not
been handled. `manager` has two tasks, builds with all security versions and without
version 0, and two added endpoints. `hxd019` has one setter and one other sender, both builds,
a temperature of 30 and steps of 15 (which pass both ends of the range and both of its
clamps), a setting of the longer format only, and two readers at most.

`CHECK_DEADLOCK FALSE` in the transport runs: once the world's Starts are used up and all
data is sent, there is nothing left to do. In `plan`: the loop ends. In `manager`: all tasks
may wait for a lock or a state that never comes, which the code really does. In
`bluedroid`: a registration may fail for good, and links and Starts are used up.

**Fairness.** `BleTransport!FairSpec` asks weak fairness of the NimBLE task inside a command
handler, of the pump task, and of the restart after `esp_restart`: two FreeRTOS
tasks that never block forever (the receive has a timeout of 100 ms, the mutex
is always released). The host owes nothing, but in a diligent world: there, one that has started
keeps sending sectors (`WF_vars(world.diligent /\ SectorDone)`). `paced` names for which events
such a host waits: it sends a sector only when the ring has
room, a Stop or disconnection after the last sector comes only once the pump has
opened the session, and a new Start only when the pump has drained and closed the
previous one. Section 4 says what happens without each of these.

`NimbleSender!FairSpec` is fair to `Obey` alone, the step of a sender that does
what it is told; `GetsThrough` supposes that from some point on the sender takes
no other. `OtaHost!FairSpec` is fair to the event loop of the host, to
notifications in flight, to timers and to a device that is restarting; neither the
user nor the device's crashes are asked for anything.

`DeviceBoot!FairSpec` is weakly fair to `app_main` and to the host task, which never block for
good; controller, client and power owe nothing. `BluedroidOta!FairSpec` is weakly fair to
Bluedroid's task. Its host goes on with a long write it has begun, and sends the next
packet if it could again and again (strong fairness, as long writes that are begun and
cancelled come in between). `OtaManager!FairSpec` is strongly fair to a
call of each task: the lock is a FreeRTOS mutex, those who wait for a state come back to it
every 100 ms or more, so that no task is passed over forever. `Hxd019!FairSpec` is weakly fair
to a task in a call and to the reader, whose read returns after 200 ms.

## 4. Where the code and its comments part

Refuted by a run; `PROJECT.json` quotes each comment with its line:

* A sector dropped because the ring is full is acknowledged all the same
  (`transport_ring_full`).
* The chunk the pump holds at a Start is not flushed and can open the new session
  (`transport_straggler`).
* After a start, a stop of the manager waits for a state that nothing enters
  (`manager_stop`).

Seen in the models, with no run of their own. Sink and transport:

* A new Start does not stop a session that has passed the gate of `activate`
  (`ota_sink.c:343`, against `ble_transport.c:139`).
* After a second Start in mid-session it is the new session's first chunk that gets
  STALE and is dropped (`ble_transport.c:264-268` speaks of the old epoch's data).
* The open-rejected latch can be set for the previous session after Start cleared
  it (`ble_transport.c:227`, against `:69`).
* The data path does check `armed` until the session is open, so a Stop that comes
  before the pump's first look loses the image (`ble_transport.c:208`, against
  `:15-17`).
* A failed `activate` leaves a live session whose epoch the pump has forgotten
  (`ble_transport.c:251`).
* `session_abort` never carries out a deferred abort: an invalidated session is not
  live and gets STALE (`ota_sink.c:275`, against `ota_sink.h:14-16`).

Component and client:

* The NACK of a stale tail forgets the sequence error: the same tail again is taken
  for a whole sector (`nimble_ota.c:249`, against `:84`).
* A NACK comes with an ATT error on the same write, so the client fails instead of
  jumping to the sector named (`nimble_ota.c:231`, `:650-652`, against `ble_ota_host.py:44-46`).
* A tail as long as a full packet exceeds one ATT write once it has its CRC
  (`ble_ota_host.py:352`, against `:334-335`).
* The timer of the sector's ACK starts before the sector's first packet
  (`ble_ota_host.py:397`, against `:111`).
* A device that restarts before Stop is answered makes a whole transfer a failure
  (`ble_ota_host.py:301`, against `:698`).
* A scan that misses the device counts as proof of a restart
  (`ble_ota_host.py:493`, against `:469`).
* A notification that is not enabled costs an mbuf: it is allocated before the test and
  not freed (`nimble_ota.c:745`). Memory is not in the models.

Bluedroid variant and manager:

* In `ble_ota.c` a second transfer after a boot does not work, see section 2.
* In a build without security version 0 the numbers of the versions shift, the start asks for
  one that is not there, and ends with an error, the BLE service up, and no security set
  (`manager.c:196-230`). `ServiceIsComplete` is stated for builds without such a gap.
* A `strdup` that fails leaves the lock taken (`manager.c:748`); a start that fails leaves the
  state STARTING, so that there is no second one.
* The first added endpoint gets UUID 0xFF55 (`manager.c:593` and `:306`, against
  `manager.h:284`, which says 0xFF54). The events OTA_INIT and OTA_START are never emitted.

hxd019:

* A bind from the match callback between the write of a state and its commit leaves the
  old state cached for the new group (`hxd019_uart.c:94`, against `hxd019_session.h:11` and
  `hxd019.h:109`).
* A temperature step is clamped to 16 .. 31, while the build with 7 keys sends 19 .. 30 only: at
  the ends it is an error and not the clamp that `hxd019.h:68` promises.
* The scan of a match reply skips header bytes, which no group can begin with; but a reply
  that brings its header is misread if the byte after the header is below 8
  (`hxd019_uart.c:121-131`). The match callback is never cleared.
* If the mutex cannot be created, the driver stays installed and every send is refused.

## 5. Proofs

`OtaSinkProofs` proves, for every slot size, sector size, set of handles, images
and sessions, that the properties of run `sink` hold of `OtaSinkClient!Spec`. The
assumptions are `SinkAssumption` and `ClientAssumption`: sizes are naturals,
handles are not 0, images are sequences of data, chunks are not empty.

None of the properties is inductive. The strengthening `IInv` adds who holds the
handle in each window (`HandleInv`), what the record of the call in progress says
of the session (`CallInv`), that the units in the slot are the open session's
and counted (`ContentInv`), that a session is live only in states with a session
(`SessionInv`), and that sectors never outrun bytes (`ProgressInv`). The key is
`Holding`: from open to close the handle belongs either to the session or to the
`finish` in progress, and a call inside a window keeps the state in `Holding`
because an invalidation only turns WRITING into ABORT_PENDING. Each part has a
lemma with one case per operation; `Invariance` combines them, and the
properties follow from `IInv`.

It also proves that the sink implements `OtaSession`: one
lemma for each kind of step that the service sees (`StepOpen`, `StepAccept`,
`StepSeal`, ...), one for those it does not (`Stutters`, `StepFlash`,
`StepRefused`), and `StepSimulation` puts them together. The mapping shows the
service only the units that are counted, so it needs `BytesExact` (a write to the
flash adds after what is counted), and `Sealed` (what is shipped is what was
accepted).

The sink and the boot loader meet in `BootSlots`, and each of them is proved to implement it:
`SinkSparesRunning` here, `BootImplementsSlots` in `DeviceBootProofs`. Together they close a circle that
each model leaves open: the sink's `Restart` takes for granted that what starts is whole, which
`DeviceBoot` shows of its boot loader (`BootInv`, through trials, rollbacks and marks that cannot be
written); and `DeviceBoot` reduces a transfer to a write of the other slot, which the sink
shows of all its calls. On the sink's side types are enough (`WritingRewrites`); on the boot loader's,
that the slot selected is whole needs `BootsNext`, and that the slot activated is, `TransferInv`.

`NimbleSenderProofs` proves for every number of sectors, every way to cut them into
at most as many packets as there are sequence numbers, and every buffer that a
sector fits (`ComponentAssumption`): the invariant, `DeliversImage`, and that the
component implements `SectorStream`. `DeliversImage` is not inductive. `IInv` adds what the buffer holds
(`BufferInv`: the packets up to `cur_packet`, or nothing and the sender is back at
packet 0), that a sequence error leaves the component at packet 0 (`SectorInv`), and
`InStep`: in the middle of the sector the component expects, sender and component
are at the same packet unless there is a sequence error. `TakenInTurn` draws the
consequence, that a packet taken, early tail included, is the one that comes next.
`Sent` says all that the proofs need of a write; each sender action is shown to be
one (`SendIsSent`, ...), and each outcome of a write to keep `IInv`
(`RestartInv`, `BodyInv`, `TailInv`, ...).

`DeviceBootProofs` proves, for any number of sectors and any characteristics
(`BootAssumption`), that the image to boot is whole, that convicted images do not run, that
the fallback of a trial stays, and that only whole transfers are activated. None of the four is
inductive: that the image picked next is whole depends on what otadata says of both slots. `BootInv`
states it: an image is `new` only in the slot chosen last, while nothing runs, and then the
other slot holds a valid whole image (`NewInv`); likewise while it is `pending`, where it is the one
that runs (`PendingInv`); a running image is whole, on trial or confirmed, and if confirmed
it is the one that would boot again (`RunningInv`), which is what allows the other slot to be
overwritten; and something is stored only while a confirmed image runs (`TransferInv`).
There is one lemma for each kind of step that touches flash or boot progress; the host task's
steps do neither.

`SubscriberIsNotified` is about the other half of the module and has an invariant of its own.
`NotifyInv` says that on a link the handle table is filled, or the connect event that fills it still
waits (`ConnectDue`). A subscription event is behind that one, so it is never
dropped for a handle the firmware does not know.

`OtaHostProofs` proves, for every image, every way to cut it into packets, any number of retries
and any mix of troubles (`ComponentAssumption`, `HostAssumption`), that the client stays in step
with the component and that exit code 0 means the whole image. The invariant says
where the two stand to each other while the client sends: `Behind`, the device has the sectors that
were confirmed and, of the one in hand, exactly the packets sent so far (`BehindInv`); or `Ahead`, it
has the whole sector in hand and the client has not heard of it. A client is in a second
attempt only if the device is ahead. So what decides is what the component does with a sector sent
again: it refuses every packet (`AheadRefuses`), and must then have no part of a sector
(`Clean`: added when the first attempt at the proof failed). At most one notification is in
flight, it is a success, and none is while the client is not waiting for it (`OneSuccess`). All
this is promised only of writes that did not fail (`Sound`); one that did ends the run. `BehindTakes`
says that what the component takes is the packet that comes next. The rest is
one lemma per step of the coroutine, the radio and the device. `NoJump` is a consequence:
the answer that ends a wait is never a NACK, as a NACK comes with an ATT error that ends the run
(section 4).

It also proves that the plan of a sector is right for every length and every MTU from 23 up
(`PlanAssumption`). `PlanInv` counts the packets: one that is not the last holds 17 bytes or more,
so a sector of 4096 bytes has at most 241 and no packet but the tail is numbered 0xff.

`BleTransportProofs` proves, for any image, ring, slot, sector size and set of worlds
(`SinkAssumption`, `TransportAssumption`), that a session that is being written is the one the
pump remembers and that pump and sink count the same bytes. Neither is inductive: both are about
the moment between two calls, and the steps of a call run with the mutex released. `PumpInv` says
what holds in between: at which statements the pump has a session, that the write in progress
carries that session and the chunk in hand, that after `finish` nobody is writing
(`PlaceInv`), and that the sink is ahead of the pump by the chunk in hand exactly from the
accounting of a write to the pump's look at its result (`Accounted`, `CountInv`). An
invalidation from the NimBLE task may fall anywhere: it only makes the session no longer current,
and a session that is not current never is again (`InvalidateKeeps`; only `AcceptedKeeps` sets
`live`). There is a lemma for each step of the pump and each kind of step inside a
call; those of the host and of the NimBLE task share one (`NimbleAlone`). `TransportTypeOK` is
part of the invariant; TLC checked `PumpInv` over the states of run `transport` before the proof.

`BluedroidOtaProofs` proves, for every image of at most 65535 sectors (the index has two
bytes, and 0xffff is no sector), every payload from 17 bytes up (what the smallest MTU leaves: with
less a sector would have more packets than sequence numbers) and any number of transfers,
links and waiting events (`BluedroidAssumption`), that the profiles stay apart, that the
packets of a first transfer fit the buffer, and that this transfer is a `SectorStream`. None is
inductive, as the host is several events ahead of the component: whether the packet
taken now fits depends on what waits and on what was taken before. `Streams` states it with a numbering of the waiting
events, from the packet the component has come to up to the packet the host sends next,
which grows by one at each event that makes the component take a packet; at each of those the event carries the packet
of its number, or executes pieces of that packet that are prepared or wait before it (`Numbered`, `Held`).
The alternative is `Quiet`: no firmware waits, and none comes before another Start. The rest of `BluedroidInv`
says which events can wait together at all: of registration, advertising and the loss of a link, one (`TurnInv`);
a subscription, Start or Stop is alone (`ApartInv`); a packet is in two pieces at most (`PieceInv`);
and a long write is begun when nothing waits (`LongInv`). A step takes one event at most and appends some
(`Moved`), so there is one lemma per part of the invariant for the steps that have nothing to do with a transfer
(`Idle`), for the writes that are handled (`HandledCases`) and for what the host sends (`HostSends`). `Shifted`
is what a step does to the numbering. The refinement adds `Delivered`: after a second Start, what the
first transfer delivered is still the beginning of what was delivered. TLC checked `BluedroidInv` with two transfers,
two links and four waiting events before the proof.
`FoundAgain` is the safe half of `AdvertisesAgain`, with an invariant of its own (`WayBack`): a registered
device that is neither linked nor advertising has an event waiting that leads back to advertising.
That this event is handled is fairness, and stays with TLC.

`OtaManagerProofs` proves the three safety properties of `manager` for any number of tasks, any set of
builds and any number of added endpoints (`ManagerAssumption`: a build has at least one of the
versions 0 to 2). `ManagerInv` adds to them that a task in the start means STARTING, that there is
at most one, and that an idle manager serves nothing (`StartInv`); at which steps the service is
not up yet (`ServiceInv`); that the version asked for is in the build, if it has no gap, and is
set at the last step (`SecureInv`); and that each place of the table has a UUID of its own
(`TableInv`), from which `UuidsDiffer` concludes that no two are alike. `NumberIsVersion` is about
the enumeration: without a gap the rank of a version is the version.

`Hxd019Proofs` proves, for any tasks, settings, tables, builds and chunks (`TaskAssumption`,
`BuildAssumption`, `IndexAssumption`: a group fits two bytes; `TableAssumption`, `ChunkAssumption`), that frames never
overlap, and, under `OneThread` (at most one task uses the session and matches do not bind it
themselves: what `hxd019_session.h:11` asks), that the cache is what the chip was sent last.
`WriterInv` adds to the first that a task that shuts the driver down is alone. The second needs
`JobInv`: what each task between the read of the cache and its commit carries, that its
frame is for the group bound now, that the frame on the wire is its own, and that a task about to commit
holds what was just sent. `OneThread` is used where it bites, in `BindKeeps` (no
frame for the group before is under way), `WrittenKeeps` (no other state waits to be
committed) and `ReceiveKeeps`. `StateCarried` says among other things where the two bytes of the group are in
a frame; TLC checked `CacheInv` and `FrameInv` over the states of run `hxd019` before the proofs.

The frames themselves are the third part. `EveryFrameTaken` says that what is on the wire is
`WellFormed` however the session is used, and `WireIsRightAlways`, under `OneThread`, that a
state's frame carries that state to the bound group. Their difficulty is the last byte: the driver
rolls it up from the first byte to the last in eight bits (`Checksum`), the chip's side
(`Summed`, in `WellFormed`) is the sum of all bytes modulo 256, in whatever order. `ChecksumIsSum`
proves the two equal for sequences of any length. The induction this needs is over the places of
a frame, and it is stated with sets instead of predicates, because the library's
induction theorems cannot be instantiated here: a set of numbers has a least
(`Least`, from the well-foundedness of `<`), so a set that has 0 and each number's
next has every number (`Counting`), so a family of sets that has each set of which it has all
subsets one smaller has every finite set (`ByRemoving`). With these `FoldingExists` gives the
function each fold of the community modules is defined by, `AddingInAnyOrder` makes the choice
of the next place irrelevant, and `RollingIsLowByte` takes the modulus out of the
loop. The lemmas under "Frames" then follow each builder of `hxd019_frame.c` byte by byte
(`StateCarried`, `AvTaken`, `SimpleTaken`, `FixedTaken`); `TableAssumption` is what the
`uint8_t` fields of `hxd019_codelist.h:35` say of a code table. `FrameInv` adds to the
theorem that a task in a send has such a frame and that the frame on the wire is the writer's own.

Every safety property that a passing run checks is a theorem. Only model-checked: all liveness,
which is out of the prover's reach.

## 6. Not modelled

* GATT registration with NimBLE, logging, generated protobuf code, serial-port
  and issue-tracker scripts: no protocol state.
* The GUI: a front end over the flashing client.
* Pre-encrypted images (`decrypt_ota_file`): a wrapper around a library's handle, not compiled.
* `handlers.c` and the data path of the protocomm variant: it copies into a `fw_buf` of `manager.c` that
  nobody allocates (the one that is allocated is a static of `nimble_ota.c`), so every file is
  refused and nothing follows. Also the parts of the manager that need a state after
  STARTING (register and unregister, the end of stop, the stop task).
* `ble_ota.c` after a copy has left its buffer; the status and customer
  characteristics of both variants, which do nothing.
* The client's scan, info and dry-run commands, and frames damaged on the way.
* The time a task waits for the sink's mutex: a hold of the mutex is one action, so
  that `epoch_invalidate` blocking the NimBLE task during an erase cannot be seen.
* The learn callback of the infrared driver, which is given raw bytes, and most
  entries of its code tables.

## 7. Plan

Nothing is left of the plan: all components with state of their own have a model, the models that
share state (`OtaSink` with `BleTransport`, `OtaSession` and `BootSlots`; `NimbleOta` with `OtaHost` and
`SectorStream`; `DeviceBoot` with `BootSlots`) are composed or related by refinement, and every safety
property that the passing runs check is a theorem.
