-------------------------- MODULE ConnectionProofs --------------------------
(***************************************************************************)
(* Theorems about Connection, for every set of devices and every retry     *)
(* limit.                                                                  *)
(***************************************************************************)
EXTENDS Connection, TLAPS

-----------------------------------------------------------------------------
(* What the calls make of a link. *)

(***************************************************************************)
(* The links that occur: the status fits the device.                       *)
(***************************************************************************)
Fits(l) ==
  /\ l \in Link
  /\ l.status = "CONNECTED" => l.device # NoDevice
  /\ l.status = "DISCONNECTED" => l.device = NoDevice

LEMMA DroppedFits ==
  ASSUME NEW l, Fits(l)
  PROVE  Fits(Dropped(l)) /\ Dropped(l).status = "DISCONNECTED"
BY DEF Fits, Dropped, Link, Status

LEMMA EstablishedFits ==
  ASSUME NEW l, Fits(l), NEW d \in Devices, ready \in BOOLEAN
  PROVE  /\ Fits(Established(l, d))
         /\ ready => IsConnected(Established(l, d))
         /\ IsConnected(Established(l, d)) => Established(l, d).device = d
BY LinkAssumption DEF Fits, Established, Link, Status, IsConnected

LEMMA ReconnectedFits ==
  ASSUME NEW l, Fits(l), ready \in BOOLEAN
  PROVE  /\ Fits(Reconnected(l))
         /\ ready /\ l.device # NoDevice => IsConnected(Reconnected(l))
         /\ IsConnected(Reconnected(l)) => Reconnected(l).device = l.device
<1>1. CASE l.device = NoDevice
  BY <1>1 DEF Reconnected
<1>2. CASE l.device # NoDevice
  <2>1. l.device \in Devices /\ Reconnected(l) = Established(Dropped(l), l.device)
    BY <1>2 DEF Reconnected, Fits, Link
  <2> QED BY <2>1, DroppedFits, EstablishedFits
<1> QED BY <1>1, <1>2

(***************************************************************************)
(* A verification never moves a link to another device, and with a ready   *)
(* transmitter it never loses one.                                         *)
(***************************************************************************)
LEMMA VerifiedFits ==
  ASSUME NEW l, Fits(l), ready \in BOOLEAN
  PROVE  /\ Fits(Verified(l))
         /\ ready /\ IsConnected(l) => IsConnected(Verified(l))
         /\ IsConnected(Verified(l)) => Verified(l).device = l.device
<1> DEFINE lost == [l EXCEPT !.status = "FAILED"]
<1>1. CASE ~IsConnected(l) \/ l.fresh
  BY <1>1 DEF Verified
<1>2. CASE IsConnected(l) /\ ~l.fresh /\ ready
  <2>1. Verified(l) = [l EXCEPT !.fresh = TRUE]
    BY <1>2 DEF Verified
  <2> QED BY <1>2, <2>1 DEF Fits, Link, IsConnected
<1>3. CASE IsConnected(l) /\ ~l.fresh /\ ~ready
  <2>1. Fits(lost) /\ lost.device = l.device /\ ~IsConnected(lost)
    BY <1>3 DEF Fits, Link, Status, IsConnected
  <2>2. Verified(l) = Reconnected(lost) \/ Verified(l) = lost
    BY <1>3 DEF Verified
  <2> HIDE DEF lost
  <2> QED BY <1>3, <2>1, <2>2, ReconnectedFits
<1> QED BY <1>1, <1>2, <1>3

LEMMA CheckedFits ==
  ASSUME NEW l, Fits(l), ready \in BOOLEAN
  PROVE  /\ Fits(Checked(l))
         /\ IsConnected(Checked(l)) => Checked(l).device = l.device
BY VerifiedFits DEF Checked

LEMMA EnsuredFits ==
  ASSUME NEW l, Fits(l), NEW d \in Devices, ready \in BOOLEAN
  PROVE  /\ Fits(Ensured(l, d))
         /\ ready => IsConnected(Ensured(l, d))
         /\ IsConnected(Ensured(l, d)) => Ensured(l, d).device = d
BY CheckedFits, EstablishedFits DEF Ensured

LEMMA ReadyForPressFits ==
  ASSUME NEW l, Fits(l), NEW d \in Devices, ready \in BOOLEAN
  PROVE  /\ Fits(ReadyForPress(l, d))
         /\ ready => IsConnected(ReadyForPress(l, d))
         /\ IsConnected(ReadyForPress(l, d)) => ReadyForPress(l, d).device = d
BY EnsuredFits DEF ReadyForPress

LEMMA VerifiedForSendFits ==
  ASSUME NEW l, Fits(l), ready \in BOOLEAN
  PROVE  /\ Fits(VerifiedForSend(l))
         /\ ready /\ IsConnected(l) => IsConnected(VerifiedForSend(l))
         /\ IsConnected(l) /\ IsConnected(VerifiedForSend(l))
              => VerifiedForSend(l).device = l.device
<1> DEFINE v == Verified(l)
<1>1. Fits(v) /\ (ready /\ IsConnected(l) => IsConnected(v))
      /\ (IsConnected(v) => v.device = l.device)
  BY VerifiedFits
<1>2. CASE ~config.verifyOnSend
  BY <1>2 DEF VerifiedForSend
<1>3. CASE config.verifyOnSend /\ (IsConnected(v) \/ ~config.autoReconnect)
  <2>1. VerifiedForSend(l) = v
    BY <1>3 DEF VerifiedForSend
  <2> QED BY <1>1, <2>1
<1>4. CASE config.verifyOnSend /\ ~IsConnected(v) /\ config.autoReconnect
  <2>1. VerifiedForSend(l) = Reconnected(v)
    BY <1>4 DEF VerifiedForSend
  <2>2. IsConnected(l) => v.device \in {l.device, NoDevice}
    BY <1>4 DEF Verified, Reconnected, Established, Dropped, Fits, Link, Status, IsConnected
  <2>3. IsConnected(Reconnected(v)) => v.device # NoDevice
    BY <1>1, <1>4 DEF Reconnected
  <2>4. ~(ready /\ IsConnected(l))
    BY <1>1, <1>4
  <2> HIDE DEF v
  <2> QED BY <1>1, <2>1, <2>2, <2>3, <2>4, ReconnectedFits
<1> QED BY <1>2, <1>3, <1>4

-----------------------------------------------------------------------------
(* The invariant. *)

Inv ==
  TypeInv /\ StatusFitsDevice /\ UpOnlyInitialized /\ StatsAddUp /\ PressReachesItsDevice

LEMMA FitsLink == TypeInv /\ StatusFitsDevice <=> Fits(link) /\ TypeInv
BY DEF TypeInv, StatusFitsDevice, Fits

LEMMA InvInit == Init => Inv
<1> SUFFICES ASSUME Init PROVE Inv
  OBVIOUS
<1>1. /\ link \in Link /\ link.status = "DISCONNECTED" /\ link.device = NoDevice
      /\ stats \in Stats /\ config \in Config
  BY DEF Init, Disconnected, NoStats, Link, Status, Stats, Config
<1>2. send \in Send /\ ~Sending
  BY LinkAssumption DEF Init, Idle, Send, IrCode, Sending
<1>3. StatsAddUp
  BY DEF Init, NoStats, StatsAddUp
<1>4. TypeInv
  BY <1>1, <1>2 DEF Init, TypeInv
<1> QED BY <1>1, <1>2, <1>3, <1>4 DEF Inv, StatusFitsDevice, UpOnlyInitialized, PressReachesItsDevice

LEMMA CountedType ==
  ASSUME stats \in Stats, StatsAddUp, NEW code
  PROVE  /\ Counted(code) \in Stats
         /\ Counted(code).total = Counted(code).successful + Counted(code).failed
         /\ Counted(code).retries = stats.retries
         /\ Counted(code).retries <= Counted(code).failed
         /\ ~IrSends(code) => Counted(code).retries + 1 <= Counted(code).failed
<1> DEFINE good == IF IrSends(code) THEN 1 ELSE 0
<1>0. /\ stats.total \in Nat /\ stats.successful \in Nat
      /\ stats.failed \in Nat /\ stats.retries \in Nat
      /\ stats = [total |-> stats.total, successful |-> stats.successful,
                  failed |-> stats.failed, retries |-> stats.retries]
  BY DEF Stats
<1>1. good \in {0, 1} /\ (good = 1 <=> IrSends(code))
  OBVIOUS
<1>2. Counted(code) = [total |-> stats.total + 1, successful |-> stats.successful + good,
                       failed |-> stats.failed + (1 - good), retries |-> stats.retries]
  <2>1. CASE IrSends(code)
    <3>1. Counted(code) = [stats EXCEPT !.total = @ + 1, !.successful = @ + 1]
      BY <2>1 DEF Counted
    <3>2. good = 1 /\ stats.failed + (1 - good) = stats.failed
      BY <1>0, <2>1
    <3> HIDE DEF good
    <3> QED BY <1>0, <3>1, <3>2
  <2>2. CASE ~IrSends(code)
    <3>1. Counted(code) = [stats EXCEPT !.total = @ + 1, !.failed = @ + 1]
      BY <2>2 DEF Counted
    <3>2. /\ stats.successful + good = stats.successful
          /\ stats.failed + (1 - good) = stats.failed + 1
      BY <1>0, <2>2
    <3> HIDE DEF good
    <3> QED BY <1>0, <3>1, <3>2
  <2> QED BY <2>1, <2>2
<1> HIDE DEF good
<1>3. /\ stats.total + 1 \in Nat /\ stats.successful + good \in Nat
      /\ stats.failed + (1 - good) \in Nat
  BY <1>0, <1>1
<1>4. Counted(code) \in Stats
  BY <1>0, <1>2, <1>3 DEF Stats
<1>5. /\ Counted(code).total = stats.total + 1
      /\ Counted(code).successful = stats.successful + good
      /\ Counted(code).failed = stats.failed + (1 - good)
      /\ Counted(code).retries = stats.retries
  BY <1>2
<1> QED BY <1>0, <1>1, <1>4, <1>5 DEF StatsAddUp

(***************************************************************************)
(* A call that replaces the link by one that fits keeps the invariant.     *)
(***************************************************************************)
LEMMA RelinkKeeps ==
  ASSUME Inv, ~Sending, initialized, NEW l, Fits(l), Relink(l)
  PROVE  Inv'
BY DEF UpOnlyInitialized, Relink, Inv, TypeInv, Fits, StatusFitsDevice, StatsAddUp, PressReachesItsDevice,
   Sending, Idle, IsConnected, Link

LEMMA BeginSendKeeps ==
  ASSUME Inv, ~Sending, initialized, NEW l, Fits(l), NEW code \in IrCode,
         NEW d \in Devices \cup {NoDevice},
         d # NoDevice => IsConnected(l) /\ l.device = d,
         BeginSend(l, code, d)
  PROVE  Inv'
<1> DEFINE v == VerifiedForSend(l)
<1>1. /\ link' = v
      /\ send' = IF MaySend(v)
                 THEN [code |-> code, attempt |-> 0, for |-> d] ELSE Idle
      /\ UNCHANGED <<initialized, ready, config, stats, selected>>
  BY DEF BeginSend
<1>2. ready \in BOOLEAN
  BY DEF Inv, TypeInv
<1>3. Fits(v) /\ (IsConnected(l) /\ IsConnected(v) => v.device = l.device)
  BY <1>2, VerifiedForSendFits
<1>4. d # NoDevice /\ MaySend(v) => IsConnected(v) /\ v.device = d
  <2>1. CASE config.verifyOnSend
    BY <1>3, <2>1 DEF MaySend
  <2>2. CASE ~config.verifyOnSend
    BY <2>2 DEF VerifiedForSend
  <2> QED BY <2>1, <2>2
<1> HIDE DEF v
<1>5. send' \in Send
  BY <1>1, LinkAssumption DEF Send, Idle, IrCode
<1>6. TypeInv'
  BY <1>1, <1>3, <1>5 DEF Inv, TypeInv, Fits, Link
<1>7. StatusFitsDevice' /\ UpOnlyInitialized' /\ StatsAddUp'
  BY <1>1, <1>3 DEF Inv, StatusFitsDevice, UpOnlyInitialized, StatsAddUp, Fits
<1>8. PressReachesItsDevice'
  BY <1>1, <1>4 DEF PressReachesItsDevice, Sending, Idle, IsConnected
<1> QED BY <1>6, <1>7, <1>8 DEF Inv

LEMMA AttemptKeeps == ASSUME Inv, Attempt PROVE Inv'
<1>1. stats \in Stats /\ StatsAddUp /\ ready \in BOOLEAN /\ Fits(link) /\ send \in Send
  BY FitsLink DEF Inv, TypeInv
<1> DEFINE counted == Counted(send.code)
<1>2. /\ counted \in Stats
      /\ counted.total = counted.successful + counted.failed
      /\ counted.retries = stats.retries
      /\ counted.retries <= counted.failed
      /\ ~IrSends(send.code) => counted.retries + 1 <= counted.failed
  BY <1>1, CountedType
<1>3. UNCHANGED <<initialized, ready, config, selected>> /\ initialized
  BY DEF Attempt, Inv, UpOnlyInitialized, TypeInv
<1>4. Idle \in Send
  BY LinkAssumption DEF Idle, Send, IrCode
<1> HIDE DEF counted
<1>5. CASE stats' = counted /\ send' = Idle /\ UNCHANGED link
  BY <1>1, <1>2, <1>3, <1>4, <1>5 DEF Inv, TypeInv, StatusFitsDevice, UpOnlyInitialized,
     StatsAddUp, PressReachesItsDevice, Sending
<1>6. CASE /\ ~IrSends(send.code) /\ ~LastAttempt
           /\ stats' = [counted EXCEPT !.retries = @ + 1]
           /\ send' = [send EXCEPT !.attempt = @ + 1]
           /\ UNCHANGED link
  <2>1. /\ stats' \in Stats
        /\ stats'.total = counted.total /\ stats'.successful = counted.successful
        /\ stats'.failed = counted.failed /\ stats'.retries = counted.retries + 1
    BY <1>2, <1>6 DEF Stats
  <2>2. send' \in Send /\ send'.for = send.for
    BY <1>1, <1>6, LinkAssumption DEF Send, LastAttempt
  <2>3. Sending
    BY DEF Attempt
  <2>4. StatsAddUp'
    BY <1>2, <1>6, <2>1 DEF StatsAddUp
  <2>5. PressReachesItsDevice'
    BY <1>6, <2>2, <2>3 DEF Inv, PressReachesItsDevice, IsConnected
  <2> QED BY <1>3, <1>6, <2>1, <2>2, <2>4, <2>5 DEF Inv, TypeInv, StatusFitsDevice, UpOnlyInitialized
<1>7. CASE stats' = counted /\ send' = Idle /\ link' = Reconnected(link)
  <2>1. Fits(link')
    BY <1>1, <1>7, ReconnectedFits
  <2> QED BY <1>1, <1>2, <1>3, <1>4, <1>7, <2>1 DEF Inv, TypeInv, StatusFitsDevice,
         UpOnlyInitialized, StatsAddUp, PressReachesItsDevice, Sending, Fits
<1> QED BY <1>5, <1>6, <1>7 DEF Attempt, counted

LEMMA InvNext == Inv /\ [Next]_vars => Inv'
<1> SUFFICES ASSUME Inv, [Next]_vars PROVE Inv'
  OBVIOUS
<1>0. TypeInv /\ Fits(link) /\ ready \in BOOLEAN
  BY FitsLink DEF Inv, TypeInv
<1> USE DEF Inv, TypeInv, StatusFitsDevice, UpOnlyInitialized, StatsAddUp, PressReachesItsDevice
<1>1. CASE IrInit
  BY <1>1 DEF IrInit, Sending, IsConnected
<1>2. CASE IrCleanup
  BY <1>2 DEF IrCleanup, Sending, IsConnected
<1>3. CASE ResetStats
  <2>1. stats' \in Stats /\ StatsAddUp'
    BY <1>3 DEF ResetStats, NoStats, Stats
  <2> QED BY <1>3, <2>1 DEF ResetStats, Sending, IsConnected
<1>4. CASE IntervalPasses
  <2>1. link' \in Link /\ link'.status = link.status /\ link'.device = link.device
    BY <1>4 DEF IntervalPasses, Link
  <2> QED BY <1>4, <2>1 DEF IntervalPasses, Sending, IsConnected
<1>5. CASE ConnectionInit
  <2>1. stats' \in Stats /\ StatsAddUp'
    BY <1>5 DEF ConnectionInit, NoStats, Stats
  <2>2. link' \in Link
    BY <1>5 DEF ConnectionInit, Link, Status
  <2>3. link'.status = "DISCONNECTED" /\ link'.device = link.device
    BY <1>5 DEF ConnectionInit, Link
  <2> QED BY <1>5, <2>1, <2>2, <2>3 DEF ConnectionInit, Sending
<1>6. CASE ConnectionCleanup
  BY <1>0, <1>6, DroppedFits DEF ConnectionCleanup, Fits, Sending
<1>7. ASSUME NEW d \in Devices, SetDevice(d) PROVE Inv'
  BY <1>7 DEF SetDevice, Sending, IsConnected
<1>8. ASSUME NEW d \in Devices, Establish(d) PROVE Inv'
  BY <1>0, <1>8, EstablishedFits, RelinkKeeps DEF Establish
<1>9. ASSUME NEW c \in Config, SetConfig(c) PROVE Inv'
  BY <1>9 DEF SetConfig, Sending, IsConnected
<1>10. CASE Verify
  BY <1>0, <1>10, VerifiedFits, RelinkKeeps DEF Verify
<1>11. CASE Reconnect
  BY <1>0, <1>11, ReconnectedFits, RelinkKeeps DEF Reconnect
<1>12. CASE Disconnect
  BY <1>0, <1>12, DroppedFits DEF Disconnect, Fits, Sending
<1>13. CASE Test
  <2>1. stats' \in Stats /\ StatsAddUp'
    BY <1>13, CountedType DEF Test
  <2> QED BY <1>13, <2>1 DEF Test, Sending, IsConnected
<1>14. ASSUME NEW code \in IrCode, SendWithRetry(code) PROVE Inv'
  BY <1>0, <1>14, BeginSendKeeps DEF SendWithRetry
<1>15. CASE Press
  <2> DEFINE l == ReadyForPress(link, selected)
  <2>1. Fits(l)
    BY <1>0, ReadyForPressFits
  <2>2. ~Sending /\ initialized /\ selected \in Devices
    BY <1>15 DEF Press
  <2>4. CASE Relink(l)
    BY <2>1, <2>2, <2>4, RelinkKeeps
  <2>5. CASE IsConnected(l) /\ l.device = selected /\ BeginSend(l, "mapped", selected)
    BY <2>1, <2>2, <2>5, BeginSendKeeps DEF IrCode
  <2> QED BY <1>15, <2>4, <2>5 DEF Press
<1>16. CASE Attempt
  BY <1>16, AttemptKeeps
<1>17. CASE UNCHANGED vars
  BY <1>17 DEF vars, Sending, IsConnected
<1> QED
  BY <1>1, <1>2, <1>3, <1>4, <1>5, <1>6, <1>7, <1>8, <1>9, <1>10, <1>11, <1>12,
     <1>13, <1>14, <1>15, <1>16, <1>17
  DEF Next

LEMMA InvHolds == Spec => []Inv
BY InvInit, InvNext, PTL DEF Spec

(***************************************************************************)
(* The connection record, the counters and the send under way stay well    *)
(* formed (connection.c).                                                  *)
(***************************************************************************)
THEOREM TypeCorrect == Spec => []TypeInv
<1>1. Inv => TypeInv
  BY DEF Inv
<1> QED BY <1>1, InvHolds, PTL

(***************************************************************************)
(* A connected link has a device and a disconnected one has none           *)
(* (connection_establish, connection_reconnect, connection_disconnect).    *)
(***************************************************************************)
THEOREM StatusIsRight == Spec => []StatusFitsDevice
<1>1. Inv => StatusFitsDevice
  BY DEF Inv
<1> QED BY <1>1, InvHolds, PTL

(***************************************************************************)
(* The transmission counters add up for every retry limit, with resets and *)
(* tests at any time (connection_send_with_retry, connection_test).        *)
(***************************************************************************)
THEOREM StatsCorrect == Spec => []StatsAddUp
<1>1. Inv => StatsAddUp
  BY DEF Inv
<1> QED BY <1>1, InvHolds, PTL

(***************************************************************************)
(* Every attempt of a press goes out over a link to the device that was    *)
(* selected when the button was pressed (remote_press_button).             *)
(***************************************************************************)
THEOREM PressGoesToItsDevice == Spec => []PressReachesItsDevice
<1>1. Inv => PressReachesItsDevice
  BY DEF Inv
<1> QED BY <1>1, InvHolds, PTL

(***************************************************************************)
(* With a ready transmitter a press always gets its link, whatever         *)
(* happened before (remote_ensure_connection).                             *)
(***************************************************************************)
THEOREM PressGetsLink == Spec => []PressRecovers
<1>1. Inv => PressRecovers
  <2> SUFFICES ASSUME Inv, ready
               PROVE  LET l == VerifiedForSend(ReadyForPress(link, selected))
                      IN  IsConnected(l) /\ l.device = selected
    BY DEF PressRecovers
  <2>1. Fits(link) /\ ready \in BOOLEAN /\ selected \in Devices
    BY FitsLink DEF Inv, TypeInv
  <2> DEFINE l == ReadyForPress(link, selected)
  <2>2. Fits(l) /\ IsConnected(l) /\ l.device = selected
    BY <2>1, ReadyForPressFits
  <2> HIDE DEF l
  <2>3. IsConnected(VerifiedForSend(l)) /\ VerifiedForSend(l).device = selected
    BY <2>1, <2>2, VerifiedForSendFits
  <2> QED BY <2>3 DEF l
<1> QED BY <1>1, InvHolds, PTL

=============================================================================
