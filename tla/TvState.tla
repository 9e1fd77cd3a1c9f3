------------------------------ MODULE TvState ------------------------------
(***************************************************************************)
(* The dictionaries tv_state and room_state of the web server and what     *)
(* each branch of handle_button_press assigns to them                      *)
(* (test_simulator/web_server.py).                                         *)
(*                                                                         *)
(* A branch computes from what it has read (`seen`) and stores into the    *)
(* dictionaries as they are when it stores (`now`).  The two differ when   *)
(* another thread stored in between: nothing locks the dictionaries.       *)
(***************************************************************************)
EXTENDS Integers, Sequences

Code == 0..255

(***************************************************************************)
(* The button codes the handler tells apart.                               *)
(***************************************************************************)
YouTube == 1
Netflix == 2
AmazonPrime == 3
HboMax == 4
Power == 16
VolumeUp == 17
VolumeDown == 18
Mute == 19
ChannelUp == 20
ChannelDown == 21
Home == 32
Menu == 33
Back == 34
Input == 37
Source == 38
Info == 112
Settings == 114
LiveTv == 130
GameMode == 160
Apps   == {YouTube, Netflix, AmazonPrime, HboMax}
Digits == 80..89                     \* the number pad, 0x50-0x59

RoomMovie == 224
RoomRelax == 225
RoomOff == 226
LightsDim == 227
LightsFull == 228
DeviceToggles == 229..243            \* 0xE5-0xF3

(***************************************************************************)
(* The switched devices, in the order of the codes that toggle them.       *)
(***************************************************************************)
DeviceOrder == << "smart_plug_1", "smart_speaker", "ambient_strip",
                  "smart_plug_2", "smart_plug_3", "kitchen_light",
                  "fridge_on", "oven_on", "bedroom_lamp", "bathroom_light",
                  "upstairs_hall", "entry_light", "upstairs_bedroom_lamp",
                  "upstairs_bathroom_light", "hood_light" >>
Devices == { DeviceOrder[i] : i \in 1..15 }
DeviceOf(b) == DeviceOrder[b - 228]
Lamps == {"lights_main", "lights_lamp_left", "lights_lamp_right"}

NumInputs == 7                       \* HDMI 1-4, TV, Component, AV
MaxChannel == 999
EntryLength == 3                     \* digits that complete a channel entry

(***************************************************************************)
(* current_app: the code of the app, Home, or NoApp for the channel view.  *)
(***************************************************************************)
NoApp == 0
AppView == Apps \cup {Home, NoApp}

(***************************************************************************)
(* The texts of tv_state['notification']: a kind and a number are enough   *)
(* to tell equal texts from different ones.                                *)
(***************************************************************************)
NoNote == <<"None", 0>>
NoteKind == {"None", "Button", "Power", "Volume", "Mute", "Channel", "Input",
             "Opening", "Live", "Game", "Room", "Invalid"} \cup Devices
Note == NoteKind \X Int
Flag(on) == IF on THEN 1 ELSE 0

Tv == [powered : BOOLEAN, volume : 0..100, channel : 0..MaxChannel,
       muted : BOOLEAN, app : AppView, input : 1..NumInputs, game : BOOLEAN,
       menu : BOOLEAN, info : BOOLEAN, settings : BOOLEAN]

Room == [scene : {"default", "movie", "relax", "off"},
         lamp : [Lamps -> 0..100],
         on : [Devices -> BOOLEAN]]

InitTv == [powered |-> FALSE, volume |-> 50, channel |-> 1, muted |-> FALSE,
           app |-> NoApp, input |-> 1, game |-> FALSE,
           menu |-> FALSE, info |-> FALSE, settings |-> FALSE]

InitRoom == [scene |-> "default",
             lamp |-> [l \in Lamps |-> 100],
             on |-> [d \in Devices |-> d # "oven_on"]]

-----------------------------------------------------------------------------
(***************************************************************************)
(* Mutants: a bound that was forgotten.                                    *)
(***************************************************************************)
Unbounded(n, bound) == n

AtMost(n, bound) == IF n > bound THEN bound ELSE n
AtLeast(n, bound) == IF n < bound THEN bound ELSE n

NextChannel(c) == (c % MaxChannel) + 1
PreviousChannel(c) == ((c - 2) % MaxChannel) + 1

(***************************************************************************)
(* The buttons of the on-screen overlays.                                  *)
(***************************************************************************)
Overlays == {Home, Menu, Back, Info, Settings}

OverlayAfter(b, seen, now) ==
  CASE b = Home     -> [now EXCEPT !.app = Home, !.menu = FALSE,
                                   !.settings = FALSE, !.info = FALSE]
    [] b = Menu     -> [now EXCEPT !.menu = ~seen.menu]
    [] b = Back     -> [now EXCEPT !.menu = FALSE, !.settings = FALSE, !.info = FALSE]
    [] b = Info     -> [now EXCEPT !.info = ~seen.info]
    [] b = Settings -> [now EXCEPT !.settings = ~seen.settings]

(***************************************************************************)
(* Menu and Settings first store their own flag and then close the other   *)
(* overlays.                                                               *)
(***************************************************************************)
(* Mutant: Settings does not close the menu. *)
SettingsOverMenu(b, now) ==
  IF b = Menu THEN [now EXCEPT !.settings = FALSE, !.info = FALSE] ELSE now

OthersClosed(b, now) ==
  IF b = Menu THEN [now EXCEPT !.settings = FALSE, !.info = FALSE]
              ELSE [now EXCEPT !.menu = FALSE]

(***************************************************************************)
(* Every TV branch but Power is guarded by powered_on.                     *)
(***************************************************************************)
TvAfter(b, seen, now) ==
  IF b = Power THEN
    IF seen.powered THEN [now EXCEPT !.powered = FALSE]
                    ELSE [now EXCEPT !.powered = TRUE, !.app = NoApp]
  ELSE IF ~seen.powered THEN now
  ELSE CASE b = VolumeUp    -> [now EXCEPT !.volume = AtMost(seen.volume + 1, 100)]
         [] b = VolumeDown  -> [now EXCEPT !.volume = AtLeast(seen.volume - 1, 0)]
         [] b = Mute        -> [now EXCEPT !.muted = ~seen.muted]
         [] b = ChannelUp   -> [now EXCEPT !.channel = NextChannel(seen.channel),
                                           !.app = NoApp]
         [] b = ChannelDown -> [now EXCEPT !.channel = PreviousChannel(seen.channel),
                                           !.app = NoApp]
         [] b \in Overlays  -> OverlayAfter(b, seen, now)
         [] b \in {Input, Source} ->
                               [now EXCEPT !.input = (seen.input % NumInputs) + 1]
         [] b \in Apps      -> [now EXCEPT !.app = b]
         [] b = LiveTv      -> [now EXCEPT !.app = NoApp]
         [] b = GameMode    -> [now EXCEPT !.game = ~seen.game]
         [] OTHER           -> now

(***************************************************************************)
(* A press that no other thread interferes with.                           *)
(***************************************************************************)
ClosesOthers(b, seen) == b \in {Menu, Settings} /\ seen.powered

AfterPress(b, s) ==
  IF ClosesOthers(b, s) THEN OthersClosed(b, TvAfter(b, s, s)) ELSE TvAfter(b, s, s)

(***************************************************************************)
(* The room branches are not guarded by the power state of the TV.         *)
(***************************************************************************)
Lights(main, left, right) ==
  [l \in Lamps |-> CASE l = "lights_main"       -> main
                     [] l = "lights_lamp_left"  -> left
                     [] l = "lights_lamp_right" -> right]

RoomAfter(b, seen, now) ==
  CASE b = RoomMovie  -> [now EXCEPT !.scene = "movie", !.lamp = Lights(15, 10, 10),
                                     !.on["ambient_strip"] = TRUE]
    [] b = RoomRelax  -> [now EXCEPT !.scene = "relax", !.lamp = Lights(40, 60, 50),
                                     !.on["ambient_strip"] = TRUE]
    [] b = RoomOff    -> [now EXCEPT !.scene = "off", !.lamp = Lights(0, 0, 0),
                                     !.on = [d \in Devices |-> FALSE]]
    [] b = LightsDim  -> [now EXCEPT !.lamp = [l \in Lamps |-> AtLeast(seen.lamp[l] - 25, 0)]]
    [] b = LightsFull -> [now EXCEPT !.lamp = Lights(100, 100, 100), !.scene = "default"]
    [] b \in DeviceToggles ->
                         [now EXCEPT !.on[DeviceOf(b)] = ~seen.on[DeviceOf(b)]]
    [] OTHER          -> now

(***************************************************************************)
(* The notification a branch stores, NoNote when it stores none.           *)
(***************************************************************************)
BranchNote(b, seen, tv, room) ==
  CASE b \in RoomMovie..LightsFull -> <<"Room", b>>
    [] b \in DeviceToggles         -> <<DeviceOf(b), Flag(room.on[DeviceOf(b)])>>
    [] b = Power                   -> <<"Power", Flag(tv.powered)>>
    [] seen.powered /\ b \in {VolumeUp, VolumeDown}   -> <<"Volume", tv.volume>>
    [] seen.powered /\ b = Mute                       -> <<"Mute", Flag(tv.muted)>>
    [] seen.powered /\ b \in {ChannelUp, ChannelDown} -> <<"Channel", tv.channel>>
    [] seen.powered /\ b \in {Input, Source}          -> <<"Input", tv.input>>
    [] seen.powered /\ b \in Apps                     -> <<"Opening", b>>
    [] seen.powered /\ b = LiveTv                     -> <<"Live", 0>>
    [] seen.powered /\ b = GameMode                   -> <<"Game", Flag(tv.game)>>
    [] OTHER                                          -> NoNote

=============================================================================
