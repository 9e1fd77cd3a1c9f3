--------------------------- MODULE TvStateProofs ---------------------------
(***************************************************************************)
(* What the branches of handle_button_press store is well typed: lemmas    *)
(* for the modules that are built on TvState.                              *)
(***************************************************************************)
EXTENDS TvState, TLAPS

LEMMA OverlayAfterType ==
  ASSUME NEW b \in Overlays, NEW s \in Tv, NEW n \in Tv
  PROVE  OverlayAfter(b, s, n) \in Tv
<1> USE DEF Home, Menu, Back, Info, Settings
<1>0. s.menu \in BOOLEAN /\ s.info \in BOOLEAN /\ s.settings \in BOOLEAN
  BY DEF Tv
<1>1. [n EXCEPT !.menu = FALSE, !.settings = FALSE, !.info = FALSE] \in Tv
  BY DEF Tv
<1>1a. [n EXCEPT !.app = Home, !.menu = FALSE, !.settings = FALSE, !.info = FALSE] \in Tv
  <2>1. Home \in AppView
    BY DEF AppView
  <2> HIDE DEF Home
  <2> QED
  BY <2>1 DEF Tv
<1>1b. ASSUME NEW x \in BOOLEAN
       PROVE  /\ [n EXCEPT !.info = x] \in Tv
              /\ [n EXCEPT !.menu = x] \in Tv
              /\ [n EXCEPT !.settings = x] \in Tv
  BY DEF Tv
<1>2. CASE b = Home
  <2>1. OverlayAfter(b, s, n) = [n EXCEPT !.app = Home, !.menu = FALSE, !.settings = FALSE, !.info = FALSE]
    BY <1>2 DEF OverlayAfter
  <2> QED BY <2>1, <1>1a
<1>3. CASE b = Menu
  <2>1. OverlayAfter(b, s, n) = [n EXCEPT !.menu = ~s.menu]
    BY <1>3 DEF OverlayAfter
  <2> QED BY <2>1, <1>1b, <1>0
<1>4. CASE b = Back
  <2>1. OverlayAfter(b, s, n) = [n EXCEPT !.menu = FALSE, !.settings = FALSE, !.info = FALSE]
    BY <1>4 DEF OverlayAfter
  <2> QED BY <2>1, <1>1
<1>5. CASE b = Info
  <2>1. OverlayAfter(b, s, n) = [n EXCEPT !.info = ~s.info]
    BY <1>5 DEF OverlayAfter
  <2> QED BY <2>1, <1>1b, <1>0
<1>6. CASE b = Settings
  <2>1. OverlayAfter(b, s, n) = [n EXCEPT !.settings = ~s.settings]
    BY <1>6 DEF OverlayAfter
  <2> QED BY <2>1, <1>1b, <1>0
<1> QED BY <1>2, <1>3, <1>4, <1>5, <1>6 DEF Overlays

LEMMA OthersClosedType ==
  ASSUME NEW b \in Code, NEW n \in Tv
  PROVE  OthersClosed(b, n) \in Tv
<1>1. [n EXCEPT !.settings = FALSE, !.info = FALSE] \in Tv
  BY DEF Tv
<1>2. [n EXCEPT !.menu = FALSE] \in Tv
  BY DEF Tv
<1> QED BY <1>1, <1>2 DEF OthersClosed

LEMMA ChannelType ==
  ASSUME NEW c \in 0..MaxChannel
  PROVE  NextChannel(c) \in 0..MaxChannel /\ PreviousChannel(c) \in 0..MaxChannel
BY DEF NextChannel, PreviousChannel, MaxChannel

LEMMA TvAfterType ==
  ASSUME NEW b \in Code, NEW s \in Tv, NEW n \in Tv
  PROVE  TvAfter(b, s, n) \in Tv
<1> DEFINE Result == TvAfter(b, s, n)
<1> USE DEF Power, VolumeUp, VolumeDown, Mute, ChannelUp, ChannelDown, Overlays,
            Home, Menu, Back, Info, Settings, Input, Source, Apps, YouTube,
            Netflix, AmazonPrime, HboMax, LiveTv, GameMode
<1>0. /\ s.volume \in 0..100
      /\ s.channel \in 0..MaxChannel
      /\ s.muted \in BOOLEAN
      /\ s.input \in 1..NumInputs
      /\ s.game \in BOOLEAN
      /\ s.powered \in BOOLEAN
  BY DEF Tv
<1>1. CASE b = Power
  <2>1. ASSUME NEW x \in AppView PROVE [n EXCEPT !.powered = TRUE, !.app = x] \in Tv
    BY DEF Tv
  <2>2. [n EXCEPT !.powered = FALSE] \in Tv
    BY DEF Tv
  <2>3. NoApp \in AppView
    BY DEF AppView
  <2>4. Result \in {[n EXCEPT !.powered = FALSE],
                    [n EXCEPT !.powered = TRUE, !.app = NoApp]}
    BY <1>1 DEF TvAfter
  <2> QED BY <2>1, <2>2, <2>3, <2>4
<1>2. CASE b # Power /\ ~s.powered
  BY <1>2 DEF TvAfter
<1>3. CASE b # Power /\ s.powered
  <2>1. CASE b \in {VolumeUp, VolumeDown}
    <3>1. ASSUME NEW v \in 0..100 PROVE [n EXCEPT !.volume = v] \in Tv
      BY DEF Tv
    <3>2. /\ AtMost(s.volume + 1, 100) \in 0..100
          /\ AtLeast(s.volume - 1, 0) \in 0..100
      BY <1>0 DEF AtMost, AtLeast
    <3>3. /\ [n EXCEPT !.volume = AtMost(s.volume + 1, 100)] \in Tv
          /\ [n EXCEPT !.volume = AtLeast(s.volume - 1, 0)] \in Tv
      BY <3>1, <3>2
    <3>4. b = VolumeUp => Result = [n EXCEPT !.volume = AtMost(s.volume + 1, 100)]
      BY <1>3 DEF TvAfter
    <3>5. b = VolumeDown => Result = [n EXCEPT !.volume = AtLeast(s.volume - 1, 0)]
      BY <1>3 DEF TvAfter
    <3> QED BY <2>1, <3>3, <3>4, <3>5
  <2>2. CASE b = Mute
    <3>1. Result = [n EXCEPT !.muted = ~s.muted]
      BY <1>3, <2>2 DEF TvAfter
    <3> QED BY <3>1, <1>0 DEF Tv
  <2>3. CASE b \in {ChannelUp, ChannelDown}
    <3>1. ASSUME NEW c \in 0..MaxChannel, NEW x \in AppView
          PROVE  [n EXCEPT !.channel = c, !.app = x] \in Tv
      BY DEF Tv
    <3>2. NoApp \in AppView
      BY DEF AppView
    <3>3. b = ChannelUp =>
            Result = [n EXCEPT !.channel = NextChannel(s.channel), !.app = NoApp]
      BY <1>3 DEF TvAfter
    <3>6. b = ChannelDown =>
            Result = [n EXCEPT !.channel = PreviousChannel(s.channel), !.app = NoApp]
      BY <1>3 DEF TvAfter
    <3>4. [n EXCEPT !.channel = NextChannel(s.channel), !.app = NoApp] \in Tv
      BY <3>1, <3>2, <1>0, ChannelType
    <3>5. [n EXCEPT !.channel = PreviousChannel(s.channel), !.app = NoApp] \in Tv
      BY <3>1, <3>2, <1>0, ChannelType
    <3> QED BY <2>3, <3>3, <3>4, <3>5, <3>6
  <2>4. CASE b \in Overlays
    <3>1. Result = OverlayAfter(b, s, n)
      BY <1>3, <2>4 DEF TvAfter
    <3> QED BY <3>1, <2>4, OverlayAfterType
  <2>5. CASE b \in {Input, Source}
    <3>1. (s.input % NumInputs) + 1 \in 1..NumInputs
      BY <1>0 DEF NumInputs
    <3>2. Result = [n EXCEPT !.input = (s.input % NumInputs) + 1]
      BY <1>3, <2>5 DEF TvAfter
    <3> QED BY <3>1, <3>2 DEF Tv
  <2>6. CASE b \in Apps \cup {LiveTv}
    <3>1. ASSUME NEW x \in AppView PROVE [n EXCEPT !.app = x] \in Tv
      BY DEF Tv
    <3>2. \/ Result = [n EXCEPT !.app = b] /\ b \in AppView
          \/ Result = [n EXCEPT !.app = NoApp] /\ NoApp \in AppView
      BY <1>3, <2>6 DEF TvAfter, AppView
    <3> QED BY <3>1, <3>2
  <2>7. CASE b = GameMode
    <3>1. Result = [n EXCEPT !.game = ~s.game]
      BY <1>3, <2>7 DEF TvAfter
    <3> QED BY <3>1, <1>0 DEF Tv
  <2>8. CASE b \notin {VolumeUp, VolumeDown, Mute, ChannelUp, ChannelDown, Input,
                       Source, GameMode, LiveTv} \cup Overlays \cup Apps
    BY <1>3, <2>8 DEF TvAfter
  <2> QED BY <2>1, <2>2, <2>3, <2>4, <2>5, <2>6, <2>7, <2>8
<1> QED BY <1>0, <1>1, <1>2, <1>3

LEMMA DeviceOfType == \A b \in DeviceToggles : DeviceOf(b) \in Devices
BY DEF DeviceToggles, DeviceOf, Devices

LEMMA RoomAfterType ==
  ASSUME NEW b \in Code, NEW s \in Room, NEW n \in Room
  PROVE  RoomAfter(b, s, n) \in Room
<1> USE DEF RoomMovie, RoomRelax, RoomOff, LightsDim, LightsFull, DeviceToggles
<1>0. "ambient_strip" \in Devices
  BY DEF Devices, DeviceOrder
<1>1. ASSUME NEW sc \in {"default", "movie", "relax", "off"},
             NEW l \in [Lamps -> 0..100], NEW on \in [Devices -> BOOLEAN]
      PROVE  [scene |-> sc, lamp |-> l, on |-> on] \in Room
  BY DEF Room
<1>2. /\ n.scene \in {"default", "movie", "relax", "off"}
      /\ n.lamp \in [Lamps -> 0..100]
      /\ n.on \in [Devices -> BOOLEAN]
      /\ n = [scene |-> n.scene, lamp |-> n.lamp, on |-> n.on]
  BY DEF Room
<1>3. CASE b \in {RoomMovie, RoomRelax}
  <2>1. Lights(15, 10, 10) \in [Lamps -> 0..100] /\ Lights(40, 60, 50) \in [Lamps -> 0..100]
    BY DEF Lights, Lamps
  <2>2. ASSUME NEW sc \in {"movie", "relax"}, NEW l \in [Lamps -> 0..100]
        PROVE  [n EXCEPT !.scene = sc, !.lamp = l, !.on["ambient_strip"] = TRUE] \in Room
    BY <1>0 DEF Room
  <2>3. b = RoomMovie => RoomAfter(b, s, n) =
          [n EXCEPT !.scene = "movie", !.lamp = Lights(15, 10, 10), !.on["ambient_strip"] = TRUE]
    BY DEF RoomAfter
  <2>4. b = RoomRelax => RoomAfter(b, s, n) =
          [n EXCEPT !.scene = "relax", !.lamp = Lights(40, 60, 50), !.on["ambient_strip"] = TRUE]
    BY DEF RoomAfter
  <2>5. /\ [n EXCEPT !.scene = "movie", !.lamp = Lights(15, 10, 10),
                      !.on["ambient_strip"] = TRUE] \in Room
        /\ [n EXCEPT !.scene = "relax", !.lamp = Lights(40, 60, 50),
                      !.on["ambient_strip"] = TRUE] \in Room
    BY <2>1, <2>2
  <2> QED BY <1>3, <2>3, <2>4, <2>5
<1>4. CASE b = RoomOff
  <2>1. RoomAfter(b, s, n) = [n EXCEPT !.scene = "off", !.lamp = Lights(0, 0, 0),
                                       !.on = [d \in Devices |-> FALSE]]
    BY <1>4 DEF RoomAfter
  <2>2. Lights(0, 0, 0) \in [Lamps -> 0..100]
    BY DEF Lights, Lamps
  <2>3. [d \in Devices |-> FALSE] \in [Devices -> BOOLEAN]
    OBVIOUS
  <2>4. ASSUME NEW l \in [Lamps -> 0..100], NEW on \in [Devices -> BOOLEAN]
        PROVE  [n EXCEPT !.scene = "off", !.lamp = l, !.on = on] \in Room
    BY DEF Room
  <2>5. [n EXCEPT !.scene = "off", !.lamp = Lights(0, 0, 0),
                  !.on = [d \in Devices |-> FALSE]] \in Room
    BY <2>2, <2>3, <2>4
  <2> QED BY <2>1, <2>5
<1>5. CASE b = LightsDim
  <2>1. RoomAfter(b, s, n) =
          [n EXCEPT !.lamp = [l \in Lamps |-> AtLeast(s.lamp[l] - 25, 0)]]
    BY <1>5 DEF RoomAfter
  <2>2. [l \in Lamps |-> AtLeast(s.lamp[l] - 25, 0)] \in [Lamps -> 0..100]
    BY DEF Room, AtLeast
  <2> QED BY <2>1, <2>2 DEF Room
<1>6. CASE b = LightsFull
  <2>1. RoomAfter(b, s, n) = [n EXCEPT !.lamp = Lights(100, 100, 100), !.scene = "default"]
    BY <1>6 DEF RoomAfter
  <2>2. Lights(100, 100, 100) \in [Lamps -> 0..100]
    BY DEF Lights, Lamps
  <2>3. ASSUME NEW l \in [Lamps -> 0..100]
        PROVE  [n EXCEPT !.lamp = l, !.scene = "default"] \in Room
    BY DEF Room
  <2>4. [n EXCEPT !.lamp = Lights(100, 100, 100), !.scene = "default"] \in Room
    BY <2>2, <2>3
  <2> QED BY <2>1, <2>4
<1>7. CASE b \in DeviceToggles
  <2>1. RoomAfter(b, s, n) = [n EXCEPT !.on[DeviceOf(b)] = ~s.on[DeviceOf(b)]]
    BY <1>7 DEF RoomAfter
  <2>2. DeviceOf(b) \in Devices /\ s.on[DeviceOf(b)] \in BOOLEAN
    BY <1>7, DeviceOfType DEF Room
  <2>3. ASSUME NEW d \in Devices, NEW x \in BOOLEAN
        PROVE  [n EXCEPT !.on[d] = x] \in Room
    BY DEF Room
  <2> QED BY <2>1, <2>2, <2>3
<1>8. CASE b \notin RoomMovie..LightsFull \cup DeviceToggles
  BY <1>8 DEF RoomAfter
<1> QED BY <1>3, <1>4, <1>5, <1>6, <1>7, <1>8

LEMMA InitType == InitTv \in Tv /\ InitRoom \in Room
<1>1. InitTv \in Tv
  BY DEF InitTv, Tv, AppView, NoApp, NumInputs, MaxChannel
<1>2. InitRoom \in Room
  BY DEF InitRoom, Room
<1> QED BY <1>1, <1>2

LEMMA NoteType == \A k \in NoteKind, i \in Int : <<k, i>> \in Note
BY DEF Note

LEMMA BranchNoteType ==
  ASSUME NEW b \in Code, NEW s \in Tv, NEW v \in Tv, NEW r \in Room
  PROVE  BranchNote(b, s, v, r) \in Note
<1>1. \A f : Flag(f) \in Int
  BY DEF Flag
<1>2. v.volume \in Int /\ v.channel \in Int /\ v.input \in Int /\ b \in Int
  BY DEF Tv, MaxChannel, NumInputs, Code
<1>3. ASSUME b \in DeviceToggles PROVE DeviceOf(b) \in NoteKind
  BY <1>3, DeviceOfType DEF NoteKind
<1>4. \A k \in {"None", "Room", "Power", "Volume", "Mute", "Channel", "Input",
                "Opening", "Live", "Game"} : k \in NoteKind
  BY DEF NoteKind
<1>5. /\ <<"Room", b>> \in Note
      /\ b \in DeviceToggles => <<DeviceOf(b), Flag(r.on[DeviceOf(b)])>> \in Note
      /\ <<"Power", Flag(v.powered)>> \in Note
      /\ <<"Volume", v.volume>> \in Note
      /\ <<"Mute", Flag(v.muted)>> \in Note
      /\ <<"Channel", v.channel>> \in Note
      /\ <<"Input", v.input>> \in Note
      /\ <<"Opening", b>> \in Note
      /\ <<"Live", 0>> \in Note
      /\ <<"Game", Flag(v.game)>> \in Note
      /\ NoNote \in Note
  BY <1>1, <1>2, <1>3, <1>4, NoteType DEF NoNote
<1> QED BY <1>5 DEF BranchNote

LEMMA AfterPressType ==
  ASSUME NEW b \in Code, NEW s \in Tv
  PROVE  AfterPress(b, s) \in Tv
BY TvAfterType, OthersClosedType DEF AfterPress

=============================================================================
