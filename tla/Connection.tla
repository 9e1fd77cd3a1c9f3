----------------------------- MODULE Connection -----------------------------
(***************************************************************************)
(* The link of the C remote to the device it controls (src/connection.c,   *)
(* with remote_press_button and remote_ensure_connection of                *)
(* src/remote_control.c and the transmitter of src/ir_codes.c).            *)
(*                                                                         *)
(* A call of the library is one step, except that a transmission is a      *)
(* step per attempt: ir_send runs the handlers of the application, which   *)
(* may bring the transmitter up or down and select another device.         *)
(***************************************************************************)
EXTENDS Naturals

CONSTANTS Devices,           (* the device types                           *)
          NoDevice,          (* connected_device = 0                       *)
          MaxRetries,        (* max_retries of the configuration           *)
          MaxTransmissions   (* bounds the transmissions                   *)

ASSUME LinkAssumption ==
  /\ NoDevice \notin Devices
  /\ MaxRetries \in 0..255
  /\ MaxTransmissions \in Nat

VARIABLES
  initialized,   (* connection_initialized                                 *)
  link,          (* connection_status, connected_device, and whether the   *)
                 (* last verification is within verify_interval_ms         *)
  ready,         (* ir_is_ready()                                          *)
  config,        (* auto_reconnect and verify_on_send                      *)
  stats,         (* connection_stats: the counters of transmissions        *)
  selected,      (* remote_state.current_device                            *)
  send           (* the connection_send_with_retry that is under way       *)

vars == <<initialized, link, ready, config, stats, selected, send>>

Config == [autoReconnect : BOOLEAN, verifyOnSend : BOOLEAN]

(***************************************************************************)
(* CONNECTION_CONNECTING and CONNECTION_VERIFYING do not outlast a call;   *)
(* CONNECTION_TIMEOUT is never assigned.                                   *)
(***************************************************************************)
Status == {"DISCONNECTED", "CONNECTED", "FAILED"}

(***************************************************************************)
(* A code of get_ir_code, and one of a protocol the transmitter does not   *)
(* know.  The zero code of a button that has none is refused before the    *)
(* link is looked at and changes nothing here.                             *)
(***************************************************************************)
IrCode == {"mapped", "unsupported"}
Idle == [code |-> "none", attempt |-> 0, for |-> NoDevice]
NoStats == [total |-> 0, successful |-> 0, failed |-> 0, retries |-> 0]
Disconnected == [status |-> "DISCONNECTED", device |-> NoDevice, fresh |-> FALSE]

Sending == send # Idle
IsConnected(l) == l.status = "CONNECTED"

-----------------------------------------------------------------------------
(***************************************************************************)
(* connection_establish, whose probe only looks at the transmitter.        *)
(***************************************************************************)
(* Mutant: the device is stored before the probe. *)
EstablishedEarly(l, d) ==
  [status |-> IF ready THEN "CONNECTED" ELSE "DISCONNECTED", device |-> d, fresh |-> ready]

Established(l, d) ==
  IF IsConnected(l) /\ l.device = d THEN l
  ELSE IF ready THEN [status |-> "CONNECTED", device |-> d, fresh |-> TRUE]
  ELSE [l EXCEPT !.status = "FAILED"]

Dropped(l) ==
  IF l.status = "DISCONNECTED" THEN l
  ELSE [l EXCEPT !.status = "DISCONNECTED", !.device = NoDevice]

(***************************************************************************)
(* connection_reconnect disconnects, which forgets the device, and         *)
(* connects to the device it had.                                          *)
(***************************************************************************)
Reconnected(l) ==
  IF l.device = NoDevice THEN l ELSE Established(Dropped(l), l.device)

(***************************************************************************)
(* connection_verify; it returns 0 if the link is connected afterwards.    *)
(***************************************************************************)
Verified(l) ==
  IF ~IsConnected(l) \/ l.fresh THEN l
  ELSE IF ready THEN [l EXCEPT !.fresh = TRUE]
  ELSE LET lost == [l EXCEPT !.status = "FAILED"]
       IN  IF config.autoReconnect THEN Reconnected(lost) ELSE lost

(***************************************************************************)
(* connection_is_connected.                                                *)
(***************************************************************************)
Checked(l) == IF IsConnected(l) /\ config.verifyOnSend THEN Verified(l) ELSE l

(***************************************************************************)
(* remote_ensure_connection.                                               *)
(***************************************************************************)
Ensured(l, d) ==
  LET checked == Checked(l)
  IN  IF IsConnected(checked) /\ checked.device = d THEN checked
      ELSE Established(checked, d)

(***************************************************************************)
(* The part of remote_press_button that sees to the link: it tries twice.  *)
(***************************************************************************)
(* Mutant: it reconnects instead of connecting. *)
ReconnectedForPress(l, d) == IF IsConnected(l) THEN l ELSE Reconnected(l)

ReadyForPress(l, d) ==
  LET once == Ensured(l, d)
  IN  IF IsConnected(once) /\ once.device = d THEN once ELSE Ensured(once, d)

(***************************************************************************)
(* The verification at the start of connection_send_with_retry.            *)
(***************************************************************************)
VerifiedForSend(l) ==
  LET verified == Verified(l)
  IN  IF ~config.verifyOnSend THEN l
      ELSE IF ~IsConnected(verified) /\ config.autoReconnect THEN Reconnected(verified)
      ELSE verified

MaySend(l) == config.verifyOnSend => IsConnected(l)

-----------------------------------------------------------------------------
Init ==
  /\ initialized = FALSE
  /\ link = Disconnected
  /\ ready = FALSE
  /\ config = [autoReconnect |-> TRUE, verifyOnSend |-> FALSE]
  /\ stats = NoStats
  /\ selected \in Devices
  /\ send = Idle

(***************************************************************************)
(* What the application may do at any time, and in its handlers.           *)
(***************************************************************************)
IrInit ==
  /\ ~ready
  /\ ready' = TRUE
  /\ UNCHANGED <<initialized, link, config, stats, selected, send>>

IrCleanup ==
  /\ ready
  /\ ready' = FALSE
  /\ UNCHANGED <<initialized, link, config, stats, selected, send>>

SetDevice(d) ==
  /\ selected' = d
  /\ UNCHANGED <<initialized, link, ready, config, stats, send>>

ResetStats ==
  /\ stats' = NoStats
  /\ UNCHANGED <<initialized, link, ready, config, selected, send>>

SetConfig(c) ==
  /\ config' = c
  /\ UNCHANGED <<initialized, link, ready, stats, selected, send>>

(***************************************************************************)
(* verify_interval_ms pass.                                                *)
(***************************************************************************)
IntervalPasses ==
  /\ link.fresh
  /\ link' = [link EXCEPT !.fresh = FALSE]
  /\ UNCHANGED <<initialized, ready, config, stats, selected, send>>

-----------------------------------------------------------------------------
ConnectionInit ==
  /\ ~Sending
  /\ ~initialized
  /\ initialized' = TRUE
  /\ link' = [link EXCEPT !.status = "DISCONNECTED"]
  /\ stats' = NoStats
  /\ UNCHANGED <<ready, config, selected, send>>

ConnectionCleanup ==
  /\ ~Sending
  /\ initialized
  /\ initialized' = FALSE
  /\ link' = Dropped(link)
  /\ UNCHANGED <<ready, config, stats, selected, send>>

(***************************************************************************)
(* The calls that only change the link.                                    *)
(***************************************************************************)
Relink(l) ==
  /\ link' = l
  /\ UNCHANGED <<initialized, ready, config, stats, selected, send>>

Establish(d) ==
  /\ ~Sending
  /\ initialized
  /\ Relink(Established(link, d))

Verify ==
  /\ ~Sending
  /\ initialized
  /\ Relink(Verified(link))

Reconnect ==
  /\ ~Sending
  /\ initialized
  /\ Relink(Reconnected(link))

Disconnect ==
  /\ ~Sending
  /\ link' = Dropped(link)
  /\ UNCHANGED <<initialized, ready, config, stats, selected, send>>

-----------------------------------------------------------------------------
IrSends(code) == ready /\ code = "mapped"

(* Mutant: a failed transmission is not counted. *)
CountOnlyGood(code) ==
  IF IrSends(code)
  THEN [stats EXCEPT !.total = @ + 1, !.successful = @ + 1]
  ELSE [stats EXCEPT !.total = @ + 1]

Counted(code) ==
  IF IrSends(code)
  THEN [stats EXCEPT !.total = @ + 1, !.successful = @ + 1]
  ELSE [stats EXCEPT !.total = @ + 1, !.failed = @ + 1]

(***************************************************************************)
(* connection_test sends the code of a button once, whatever the link.     *)
(***************************************************************************)
Test ==
  /\ ~Sending
  /\ initialized
  /\ stats.total < MaxTransmissions
  /\ stats' = Counted("mapped")
  /\ UNCHANGED <<initialized, link, ready, config, selected, send>>

(***************************************************************************)
(* connection_send_with_retry up to its first attempt, over the link `l`   *)
(* and for a press of the device `d`.                                      *)
(***************************************************************************)
BeginSend(l, code, d) ==
  /\ stats.total + MaxRetries < MaxTransmissions
  /\ LET verified == VerifiedForSend(l)
     IN  /\ link' = verified
         /\ send' = IF MaySend(verified)
                    THEN [code |-> code, attempt |-> 0, for |-> d]
                    ELSE Idle
  /\ UNCHANGED <<initialized, ready, config, stats, selected>>

SendWithRetry(code) ==
  /\ ~Sending
  /\ initialized
  /\ BeginSend(link, code, NoDevice)

(***************************************************************************)
(* remote_press_button of a button with a code: without a link nothing is  *)
(* sent.  The remote initializes the connection together with itself.      *)
(***************************************************************************)
(* Mutant: it goes on when the connection has failed twice. *)
PressAnyway ==
  /\ ~Sending
  /\ initialized
  /\ BeginSend(ReadyForPress(link, selected), "mapped", selected)

Press ==
  /\ ~Sending
  /\ initialized
  /\ LET l == ReadyForPress(link, selected)
     IN  \/ /\ ~(IsConnected(l) /\ l.device = selected)
            /\ Relink(l)
         \/ /\ IsConnected(l) /\ l.device = selected
            /\ BeginSend(l, "mapped", selected)

(***************************************************************************)
(* One attempt of the loop.  The last failed one reconnects.               *)
(***************************************************************************)
LastAttempt == send.attempt = MaxRetries

Attempt ==
  /\ Sending
  /\ \/ /\ IrSends(send.code)
        /\ stats' = Counted(send.code)
        /\ send' = Idle
        /\ UNCHANGED link
     \/ /\ ~IrSends(send.code)
        /\ ~LastAttempt
        /\ stats' = [Counted(send.code) EXCEPT !.retries = @ + 1]
        /\ send' = [send EXCEPT !.attempt = @ + 1]
        /\ UNCHANGED link
     \/ /\ ~IrSends(send.code)
        /\ LastAttempt
        /\ stats' = Counted(send.code)
        /\ send' = Idle
        /\ link' = IF config.autoReconnect /\ IsConnected(link)
                   THEN Reconnected(link) ELSE link
  /\ UNCHANGED <<initialized, ready, config, selected>>

Next ==
  \/ IrInit \/ IrCleanup
  \/ ResetStats
  \/ IntervalPasses
  \/ ConnectionInit \/ ConnectionCleanup
  \/ \E d \in Devices : SetDevice(d) \/ Establish(d)
  \/ \E c \in Config : SetConfig(c)
  \/ Verify \/ Reconnect \/ Disconnect
  \/ \E code \in IrCode : SendWithRetry(code)
  \/ Test \/ Press
  \/ Attempt

Spec == Init /\ [][Next]_vars

-----------------------------------------------------------------------------
Link == [status : Status, device : Devices \cup {NoDevice}, fresh : BOOLEAN]
Stats == [total : Nat, successful : Nat, failed : Nat, retries : Nat]
Send ==
  [code : IrCode \cup {"none"}, attempt : 0..MaxRetries, for : Devices \cup {NoDevice}]

TypeInv ==
  /\ initialized \in BOOLEAN
  /\ link \in Link
  /\ ready \in BOOLEAN
  /\ config \in Config
  /\ stats \in Stats
  /\ selected \in Devices
  /\ send \in Send

(***************************************************************************)
(* A connected link has a device and a disconnected one has none, so that  *)
(* connection_get_connected_device and connection_reconnect agree with the *)
(* status.  connection_init, which resets the status only, relies on what  *)
(* connection_cleanup left.                                                *)
(***************************************************************************)
UpOnlyInitialized ==
  ~initialized => link.status = "DISCONNECTED" /\ ~Sending

StatusFitsDevice ==
  /\ link.status = "CONNECTED" => link.device # NoDevice
  /\ link.status = "DISCONNECTED" => link.device = NoDevice

(***************************************************************************)
(* The counters add up in whatever order sends, retries, tests and resets  *)
(* come, also when a handler resets them between two attempts.             *)
(***************************************************************************)
StatsAddUp ==
  /\ stats.total = stats.successful + stats.failed
  /\ stats.retries <= stats.failed

(***************************************************************************)
(* What a press transmits, it transmits over a link to the device that was *)
(* selected when the button was pressed, whatever the link was before.     *)
(***************************************************************************)
PressReachesItsDevice ==
  Sending /\ send.for # NoDevice => IsConnected(link) /\ link.device = send.for

(***************************************************************************)
(* While the transmitter works, a press gets as far as a transmission to   *)
(* its device, whatever happened to the link before: remote_press_button   *)
(* connects again on its own.                                              *)
(***************************************************************************)
PressRecovers ==
  ready => LET l == VerifiedForSend(ReadyForPress(link, selected))
           IN  IsConnected(l) /\ l.device = selected

=============================================================================
