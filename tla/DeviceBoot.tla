----------------------------- MODULE DeviceBoot -----------------------------
(***************************************************************************)
(* From power-on to a device a host can reach, and back: the boot loader    *)
(* (ESP-IDF, external), app_main with the confirmation of a new image       *)
(* (main/main.c, ota_rollback.c), and the NimBLE host task's advertising,   *)
(* connection and subscriptions (ble_ota/src/nimble_ota.c).  The transfer   *)
(* itself is reduced to the sectors acknowledged and the sectors stored;    *)
(* OtaSink, BleTransport and NimbleOta have its detail.                     *)
(*                                                                         *)
(* app_main and the host task run side by side from esp_ble_ota_host_init   *)
(* on.  The power may fail anywhere.  The two OTA slots are 0 and 1, there  *)
(* is no factory image (partitions.csv).                                    *)
(***************************************************************************)
EXTENDS Naturals, Sequences

CONSTANTS
  Sectors,   \* sectors of an image
  Chars      \* characteristics with notifications

ASSUME BootAssumption == Sectors \in Nat \ {0}

Slot == {0, 1}
Other(s) == 1 - s

VARIABLES
  entry,       \* otadata: what it says of the image of each slot
  latest,      \* otadata: the slot chosen last
  image,       \* what each slot holds
  convicted,   \* slots whose image ended a trial without being confirmed (history)
  running,     \* the slot of the running image
  main,        \* where app_main is; "off": not running
  unmarked,    \* a mark on otadata could not be written in this run (history)
  synced,      \* the host stack is in sync with the controller
  advertising, link,
  events,      \* GAP events the host task has not handled yet
  noAdvert,    \* the last attempt to advertise failed (history)
  handles,     \* ota_handle_table is filled
  cccd,        \* what the client has subscribed to
  ntfEnable,   \* ota_notification
  fwCb,        \* recv_fw_cb is registered
  acked, stored  \* sectors of the transfer acknowledged, and stored

flash == <<entry, latest, image, convicted>>
app   == <<running, main, unmarked, fwCb>>
gap   == <<synced, advertising, link, events, noAdvert>>
gatt  == <<handles, cccd, ntfEnable>>
ota   == <<acked, stored>>
vars  == <<flash, app, gap, gatt, ota>>

Init ==
  /\ entry = [s \in Slot |-> "none"] /\ latest = 0
  /\ image = [s \in Slot |-> IF s = 0 THEN "whole" ELSE "none"]
  /\ convicted = {} /\ running = 0 /\ main = "off" /\ unmarked = FALSE
  /\ synced = FALSE /\ advertising = FALSE /\ link = FALSE /\ events = <<>>
  /\ noAdvert = FALSE /\ handles = FALSE /\ cccd = {} /\ ntfEnable = {}
  /\ fwCb = FALSE /\ acked = 0 /\ stored = 0

-----------------------------------------------------------------------------
(* The boot loader, with CONFIG_BOOTLOADER_APP_ROLLBACK_ENABLE *)

(* An image left pending by the last run has failed its trial. *)
Tried == [s \in Slot |-> IF entry[s] = "pending" THEN "aborted" ELSE entry[s]]
Usable(e, s) == e[s] \in {"new", "pending", "valid"}
Selected(e) ==
  IF Usable(e, latest) THEN latest
  ELSE IF Usable(e, Other(latest)) THEN Other(latest) ELSE 0

Boot ==
  /\ main = "off"
  /\ running' = Selected(Tried)
  /\ entry' = [Tried EXCEPT ![running'] =
                 IF @ = "new" THEN "pending" ELSE IF @ = "none" THEN "valid" ELSE @]
  /\ convicted' = convicted \cup {s \in Slot : entry[s] = "pending"}
  /\ main' = "nvs" /\ unmarked' = FALSE
  /\ UNCHANGED <<latest, image, fwCb, gap, gatt, ota>>

(* What a restart leaves: the RAM is as after power-on. *)
Down ==
  /\ main' = "off" /\ fwCb' = FALSE
  /\ synced' = FALSE /\ advertising' = FALSE /\ link' = FALSE /\ events' = <<>>
  /\ noAdvert' = FALSE /\ handles' = FALSE /\ cccd' = {} /\ ntfEnable' = {}
  /\ acked' = 0 /\ stored' = 0
  /\ UNCHANGED <<running, unmarked>>

(* Power, a panic, or an ESP_ERROR_CHECK of app_main that fails *)
PowerFails == main # "off" /\ Down /\ UNCHANGED flash

-----------------------------------------------------------------------------
(* app_main *)

Goes(from, to) == main = from /\ main' = to /\ UNCHANGED <<running, unmarked>>

FaultyNvsReady ==
  /\ Goes("nvs", "transport")
  /\ UNCHANGED <<flash, fwCb, gap, gatt, ota>>

(* The progress record is read and logged, nothing resumes from it. *)
NvsReady ==
  /\ Goes("nvs", "confirm")
  /\ UNCHANGED <<flash, fwCb, gap, gatt, ota>>

(* Nothing to confirm, or the state of the running image cannot be read *)
NothingToConfirm ==
  /\ main = "confirm" /\ main' = "transport"
  /\ \/ entry[running] # "pending" /\ UNCHANGED unmarked
     \/ entry[running] = "pending" /\ unmarked' = TRUE
  /\ UNCHANGED <<running, flash, fwCb, gap, gatt, ota>>

Confirmed ==
  /\ entry[running] = "pending"
  /\ Goes("confirm", "transport")
  /\ entry' = [entry EXCEPT ![running] = "valid"]
  /\ UNCHANGED <<latest, image, convicted, fwCb, gap, gatt, ota>>

FaultyRolledBack ==
  /\ main = "confirm" /\ entry[running] = "pending"
  /\ entry' = [entry EXCEPT ![running] = "valid"]
  /\ convicted' = convicted \cup {running}
  /\ Down
  /\ UNCHANGED <<latest, image>>

(* The self-check failed, or the confirmation could not be written: the image is
   marked invalid and the device restarts.                                      *)
RolledBack ==
  /\ main = "confirm" /\ entry[running] = "pending"
  /\ entry' = [entry EXCEPT ![running] = "invalid"]
  /\ convicted' = convicted \cup {running}
  /\ Down
  /\ UNCHANGED <<latest, image>>

(* Nor can that be written: esp_ota_mark_app_invalid_rollback_and_reboot returns,
   and app_main goes on.                                                        *)
RollbackFails ==
  /\ main = "confirm" /\ entry[running] = "pending"
  /\ main' = "transport" /\ unmarked' = TRUE
  /\ UNCHANGED <<running, flash, fwCb, gap, gatt, ota>>

(* Controller and transport; without memory for the transport app_main gives up,
   and the device does nothing more.                                            *)
TransportUp ==
  /\ Goes("transport", "host") \/ Goes("transport", "halted")
  /\ UNCHANGED <<flash, fwCb, gap, gatt, ota>>

(* The host task is created; from here on it may advertise. *)
HostUp ==
  /\ Goes("host", "register")
  /\ UNCHANGED <<flash, fwCb, gap, gatt, ota>>

RegisterCallback ==
  /\ Goes("register", "done")
  /\ fwCb' = TRUE
  /\ UNCHANGED <<flash, gap, gatt, ota>>

-----------------------------------------------------------------------------
(* The NimBLE host task.  The stack may refuse to advertise; nobody tries again. *)
HostRuns == main \in {"register", "done"}

Advertise(inSync) ==
  advertising' \in {FALSE, inSync} /\ noAdvert' = ~advertising'

OnSync ==
  /\ HostRuns /\ ~synced /\ events = <<>>
  /\ synced' = TRUE /\ Advertise(TRUE)
  /\ UNCHANGED <<link, events, flash, app, gatt, ota>>

(* The controller: a central connects, or fails to; the connection or the
   advertising ends; the host stack is reset.                                *)
Heard(e) == events' = Append(events, e)

CentralConnects ==
  /\ advertising /\ advertising' = FALSE
  /\ \/ link' = TRUE /\ Heard("connect")
     \/ link' = FALSE /\ Heard("connectFailed")
  /\ UNCHANGED <<synced, noAdvert, flash, app, gatt, ota>>

LinkLost ==
  /\ link /\ link' = FALSE /\ Heard("disconnect")
  /\ UNCHANGED <<synced, advertising, noAdvert, flash, app, gatt, ota>>

AdvertisingEnds ==
  /\ advertising /\ advertising' = FALSE /\ Heard("advComplete")
  /\ UNCHANGED <<synced, link, noAdvert, flash, app, gatt, ota>>

StackReset ==
  /\ synced /\ synced' = FALSE
  /\ events' = events \o (IF link THEN <<"disconnect">> ELSE <<>>)
                      \o (IF advertising THEN <<"advComplete">> ELSE <<>>)
  /\ link' = FALSE /\ advertising' = FALSE
  /\ UNCHANGED <<noAdvert, flash, app, gatt, ota>>

(* esp_ble_ota_fill_handle_table; before it no handle is known *)
FillHandleTable == handles' = TRUE
Known(c) == handles

(* esp_ble_ota_gap_event.  The client that leaves is unsubscribed, which the
   component takes for one more subscription.                                *)
Event(e) == events # <<>> /\ Head(events) = e /\ events' = Tail(events)

FaultyOnConnect ==
  /\ Event("connect")
  /\ UNCHANGED <<synced, advertising, link, noAdvert, handles, cccd, ntfEnable, flash, app, ota>>

OnConnect ==
  /\ Event("connect")
  /\ FillHandleTable
  /\ UNCHANGED <<synced, advertising, link, noAdvert, cccd, ntfEnable, flash, app, ota>>

OnConnectFailed ==
  /\ Event("connectFailed")
  /\ FillHandleTable /\ Advertise(synced)
  /\ UNCHANGED <<synced, link, cccd, ntfEnable, flash, app, ota>>

FaultyOnDisconnect ==
  /\ Event("disconnect")
  /\ ntfEnable' = ntfEnable \cup cccd /\ cccd' = {}
  /\ acked' = 0 /\ stored' = IF stored = Sectors THEN stored ELSE 0
  /\ UNCHANGED <<synced, advertising, noAdvert, link, handles, flash, app>>

(* The session callback has the transport drop a transfer that is not whole. *)
OnDisconnect ==
  /\ Event("disconnect")
  /\ ntfEnable' = ntfEnable \cup cccd /\ cccd' = {}
  /\ acked' = 0 /\ stored' = IF stored = Sectors THEN stored ELSE 0
  /\ Advertise(synced)
  /\ UNCHANGED <<synced, link, handles, flash, app>>

OnAdvComplete ==
  /\ Event("advComplete") /\ Advertise(synced)
  /\ UNCHANGED <<synced, link, gatt, flash, app, ota>>

Connected == link /\ events = <<>>

(* The client writes a CCCD, on or off: the flag is set if its handle is known. *)
Subscribe(c) ==
  /\ Connected
  /\ cccd' \in {cccd \cup {c}, cccd \ {c}}
  /\ ntfEnable' = IF Known(c) THEN ntfEnable \cup {c} ELSE ntfEnable
  /\ UNCHANGED <<handles, flash, app, gap, ota>>

(* esp_ble_ota_notification_data: the client hears of a write to c *)
Notifies(c) == c \in ntfEnable

-----------------------------------------------------------------------------
(* A transfer *)

Start ==
  /\ Connected /\ acked' = 0 /\ stored' = 0
  /\ UNCHANGED <<flash, app, gap, gatt>>

(* esp_ota_get_next_update_partition(esp_ota_get_running_partition()) *)
FaultyTarget == Other(latest)
Target == Other(running)

FaultyStores == fwCb
(* Nobody to give the sector to, or esp_ota_begin refuses a pending image *)
Stores == fwCb /\ entry[running] # "pending" /\ stored < Sectors

SectorAcked ==
  /\ Connected /\ acked < Sectors
  /\ acked' = acked + 1
  /\ IF Stores
       THEN /\ stored' = stored + 1
            /\ image' = [image EXCEPT ![Target] = IF stored' = Sectors THEN "whole" ELSE "partial"]
            /\ convicted' = convicted \ {Target}
       ELSE UNCHANGED <<stored, image, convicted>>
  /\ UNCHANGED <<entry, latest, app, gap, gatt>>

FaultyActivate ==
  /\ acked = Sectors
  /\ entry' = [entry EXCEPT ![Target] = "new"] /\ latest' = Target
  /\ Down
  /\ UNCHANGED <<image, convicted>>

Activate ==
  /\ stored = Sectors
  /\ entry' = [entry EXCEPT ![Target] = "new"] /\ latest' = Target
  /\ Down
  /\ UNCHANGED <<image, convicted>>

AppMain ==
  \/ NvsReady \/ NothingToConfirm \/ Confirmed \/ RolledBack \/ RollbackFails
  \/ TransportUp \/ HostUp \/ RegisterCallback

HostTask ==
  \/ OnSync \/ OnConnect \/ OnConnectFailed \/ OnDisconnect \/ OnAdvComplete

World ==
  \/ CentralConnects \/ LinkLost \/ AdvertisingEnds \/ StackReset
  \/ \E c \in Chars : Subscribe(c)
  \/ Start \/ SectorAcked

Next == Boot \/ AppMain \/ HostTask \/ World \/ Activate \/ PowerFails

Spec == Init /\ [][Next]_vars

(* app_main and the host task are tasks that never block for good. *)
FairSpec == Spec /\ WF_vars(AppMain) /\ WF_vars(HostTask)

-----------------------------------------------------------------------------
EntryState == {"none", "new", "pending", "valid", "invalid", "aborted"}
MainState == {"off", "nvs", "confirm", "transport", "host", "register", "done", "halted"}

(* Flash, boot progress and host state have their types. *)
TypeOK ==
  /\ entry \in [Slot -> EntryState] /\ latest \in Slot
  /\ image \in [Slot -> {"none", "partial", "whole"}]
  /\ convicted \subseteq Slot /\ running \in Slot /\ main \in MainState
  /\ unmarked \in BOOLEAN /\ fwCb \in BOOLEAN
  /\ acked \in 0 .. Sectors /\ stored \in 0 .. Sectors

(* Wherever the power fails, in mid-transfer, on trial or during a rollback, the
   image the boot loader would start next is a whole one.                        *)
AlwaysBootable == image[Selected(Tried)] = "whole"

(* An image that ended a trial unconfirmed, by a crash or by its self-check, never
   runs again until it is sent again.                                            *)
NoSecondTrial == main # "off" => running \notin convicted

(* As long as an image is on trial the one to fall back on stays whole and valid:
   nothing is written to its slot, even if no mark could be made in otadata.     *)
TrialKeepsFallback ==
  main # "off" /\ entry[running] = "pending" =>
    image[Other(running)] = "whole" /\ entry[Other(running)] = "valid"

(* The inductive invariant behind the three: which image boots next, and what the
   states of the two slots say of each other while one is new or on trial.       *)
Booted == Selected(Tried)

BootsNext ==
  /\ image[Booted] = "whole" /\ Booted \notin convicted /\ entry[Booted] \in {"none", "new", "valid"}

HasFallback(s) ==
  entry[Other(s)] = "valid" /\ image[Other(s)] = "whole" /\ Other(s) \notin convicted

NewInv ==
  \A s \in Slot : entry[s] = "new" => latest = s /\ main = "off" /\ HasFallback(s)

PendingInv ==
  \A s \in Slot : entry[s] = "pending" => latest = s /\ HasFallback(s) /\ (main # "off" => running = s)

RunningInv ==
  main # "off" =>
    /\ image[running] = "whole" /\ running \notin convicted /\ entry[running] \in {"pending", "valid"}
    /\ entry[running] = "valid" => Booted = running

TransferInv ==
  /\ fwCb => main # "off"
  /\ stored > 0 =>
       /\ main # "off" /\ entry[running] = "valid" /\ Other(running) \notin convicted
       /\ stored = Sectors => image[Other(running)] = "whole"

BootInv == BootsNext /\ NewInv /\ PendingInv /\ RunningInv /\ TransferInv

(* A characteristic the client has subscribed to gets its notifications, from the
   first one on and whatever connections and resets came before.                 *)
SubscriberIsNotified == \A c \in cccd : Notifies(c)

(* The invariant behind it: on a link the handle table is filled, or the event that
   fills it has not been handled, and until then the client can subscribe to nothing. *)
GapEvent == {"connect", "connectFailed", "disconnect", "advComplete"}
ConnectDue == \E i \in 1 .. Len(events) : events[i] = "connect"
NotifyInv == /\ events \in Seq(GapEvent)
             /\ link => handles \/ ConnectDue
             /\ cccd \subseteq ntfEnable

(* A transfer of which the device dropped a sector it had acknowledged (because it
   came before the callback was registered) never becomes the image to boot.      *)
OnlyWholeTransferActivated ==
  [][latest' # latest => stored = Sectors /\ image[latest'] = "whole"]_vars

Flash == INSTANCE BootSlots WITH
  Slots   <- Slot,
  whole   <- {s \in Slot : image[s] = "whole"},
  running <- running,
  chosen  <- latest

(* The boot loader and app_main do what the sink's Restart takes for granted: after
   trials, rollbacks, and runs in which otadata could not be written, what is
   started is whole, and a transfer goes to the slot that is not running even when
   otadata still names it as the latest.                                           *)
BootsWhole == Flash!Spec

(* A client that is gone, however it went, leaves a device that advertises again,
   unless the stack refused to.                                                  *)
AdvertisesAgain ==
  synced /\ ~link ~> advertising \/ link \/ noAdvert \/ ~synced

(* An image on trial is confirmed or rolled back, unless otadata cannot be read or
   written.                                                                      *)
TrialIsDecided ==
  main = "nvs" /\ entry[running] = "pending" ~> entry[running] # "pending" \/ unmarked \/ main = "off"
=============================================================================
