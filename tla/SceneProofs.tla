----------------------------- MODULE SceneProofs -----------------------------
(***************************************************************************)
(* Theorems about the scene of the page: the picture of its television     *)
(* (TvPicture), for any buttons, any number of presses, lost connections   *)
(* and repeated broadcasts, and any times between two frames; the walk in  *)
(* first person (WalkMode), for any order of its handlers; and the canvas  *)
(* context (TvScreens), for any contents and order of the frames.  The     *)
(* three share no variable.                                                *)
(***************************************************************************)
EXTENDS TvPicture, WalkPromises, ScreenPromises, TvStateProofs, FiniteSetTheorems, TLAPS

IInv == TypeInv /\ CanvasIsCurrent /\ OneBeamOneButton

-----------------------------------------------------------------------------
(* Animations *)

LEMMA DurationType == Duration \in [Anims -> 1..12]
BY DEF Duration, Anims

LEMMA Restarted ==
  ASSUME NEW a \in Animations, InTime(a), NEW n \in Anims
  PROVE  /\ [a.clock EXCEPT ![n] = 0] \in Clocks
         /\ \A m \in Anims : [a.clock EXCEPT ![n] = 0][m] <= Duration[m]
<1>1. \A m \in Anims : Duration[m] \in Nat /\ 0 <= Duration[m] /\ 0 \in 0..12
  BY DurationType
<1> QED BY <1>1 DEF Animations, InTime, Clocks

LEMMA PowerStarts ==
  ASSUME NEW a \in Animations, InTime(a), NEW on \in BOOLEAN
  PROVE  StartPower(a, on) \in Animations /\ InTime(StartPower(a, on))
<1>0. "power" \in Anims
  BY DEF Anims
<1>1. StartPower(a, on).clock = [a.clock EXCEPT !["power"] = 0]
  BY DEF StartPower, Animations
<1>2. StartPower(a, on) \in Animations
  <2>1. (IF on THEN 0 ELSE 100) \in 0..100
    OBVIOUS
  <2>2. StartPower(a, on).clock \in Clocks
    BY Restarted, <1>0, <1>1
  <2> QED BY <1>1, <2>1, <2>2 DEF StartPower, Animations
<1> QED BY Restarted, <1>0, <1>1, <1>2 DEF InTime

LEMMA ChannelStarts ==
  ASSUME NEW a \in Animations, InTime(a), NEW c \in 0..MaxChannel
  PROVE  StartChannel(a, c) \in Animations /\ InTime(StartChannel(a, c))
<1>0. "channel" \in Anims
  BY DEF Anims
<1>1. StartChannel(a, c).clock = [a.clock EXCEPT !["channel"] = 0]
  BY DEF StartChannel, Animations
<1>2. StartChannel(a, c) \in Animations
  BY Restarted, <1>0, <1>1 DEF StartChannel, Animations
<1> QED BY Restarted, <1>0, <1>1, <1>2 DEF InTime

LEMMA OverlayStarts ==
  ASSUME NEW a \in Animations, InTime(a), NEW c \in 0..MaxChannel
  PROVE  ShowOverlay(a, c) \in Animations /\ InTime(ShowOverlay(a, c))
<1>0. "overlay" \in Anims
  BY DEF Anims
<1>1. ShowOverlay(a, c).clock = [a.clock EXCEPT !["overlay"] = 0]
  BY DEF ShowOverlay, Animations
<1>2. ShowOverlay(a, c) \in Animations
  BY Restarted, <1>0, <1>1 DEF ShowOverlay, Animations
<1> QED BY Restarted, <1>0, <1>1, <1>2 DEF InTime

LEMMA AppStarts ==
  ASSUME NEW a \in Animations, InTime(a), NEW v \in AppView
  PROVE  StartApp(a, v) \in Animations /\ InTime(StartApp(a, v))
<1>0. "app" \in Anims
  BY DEF Anims
<1>1. StartApp(a, v).clock = [a.clock EXCEPT !["app"] = 0]
  BY DEF StartApp, Animations
<1>2. StartApp(a, v) \in Animations
  BY Restarted, <1>0, <1>1 DEF StartApp, Animations, Phases
<1> QED BY Restarted, <1>0, <1>1, <1>2 DEF InTime

LEMMA VolumeStarts ==
  ASSUME NEW a \in Animations, InTime(a), NEW x \in 0..100, NEW y \in 0..100
  PROVE  StartVolume(a, x, y) \in Animations /\ InTime(StartVolume(a, x, y))
<1>0. "volume" \in Anims
  BY DEF Anims
<1>1. StartVolume(a, x, y).clock = [a.clock EXCEPT !["volume"] = 0]
  BY DEF StartVolume, Animations
<1>2. StartVolume(a, x, y) \in Animations
  BY Restarted, <1>0, <1>1 DEF StartVolume, Animations
<1> QED BY Restarted, <1>0, <1>1, <1>2 DEF InTime

LEMMA AdvanceType ==
  ASSUME NEW a \in Animations, InTime(a), NEW g \in Nat
  PROVE  /\ Advance(a, g) \in Clocks
         /\ \A n \in Anims : Advance(a, g)[n] <= Duration[n]
<1>1. \A n \in Anims : Duration[n] \in 1..12 /\ a.clock[n] \in 0..12
  BY DurationType DEF Animations, Clocks
<1> QED BY <1>1 DEF Advance, Clocks

LEMMA LevelsType ==
  ASSUME NEW on \in BOOLEAN, NEW t \in 0..8
  PROVE  Levels(on, t) \subseteq 0..100
<1>1. t \in {0, 1, 2, 3, 4, 5, 6, 7, 8}
  OBVIOUS
<1>2. \A u \in {0, 1, 2, 3, 4, 5, 6, 7, 8} : OnLevels[u + 1] \subseteq 0..100
  BY DEF OnLevels
<1>3. \A u \in {0, 1, 2, 3, 4, 5, 6, 7, 8} : OffLevels[u + 1] \subseteq 0..100
  BY DEF OffLevels
<1> QED BY <1>1, <1>2, <1>3 DEF Levels

LEMMA LedType ==
  ASSUME NEW on \in BOOLEAN, NEW t \in 0..8
  PROVE  Led(on, t) \in {"red", "orange", "mixed", "green"}
<1>1. t \in {0, 1, 2, 3, 4, 5, 6, 7, 8}
  OBVIOUS
<1>2. \A u \in {0, 1, 2, 3, 4, 5, 6, 7, 8} :
        OnLed[u + 1] \in {"red", "orange", "mixed", "green"}
  BY DEF OnLed
<1>3. \A u \in {0, 1, 2, 3, 4, 5, 6, 7, 8} :
        OffLed[u + 1] \in {"red", "orange", "mixed", "green"}
  BY DEF OffLed
<1> QED BY <1>1, <1>2, <1>3 DEF Led

(* An animation that every clock has run out of stays as it is.            *)
LEMMA AdvanceAtEnd ==
  ASSUME NEW a \in Animations, InTime(a), AllOver(a), NEW g \in Nat
  PROVE  Advance(a, g) = a.clock
<1>1. \A n \in Anims : a.clock[n] = Duration[n] /\ Duration[n] \in Nat
  <2> SUFFICES ASSUME NEW n \in Anims
               PROVE  a.clock[n] = Duration[n] /\ Duration[n] \in Nat
    OBVIOUS
  <2>1. a.clock[n] \in 0..12 /\ Duration[n] \in 1..12
    BY DurationType DEF Animations, Clocks
  <2> QED BY <2>1 DEF InTime, AllOver, Runs
<1>2. \A n \in Anims : Advance(a, g)[n] = a.clock[n]
  BY <1>1 DEF Advance
<1>3. a.clock \in [Anims -> 0..12] /\ Advance(a, g) = [n \in Anims |-> Advance(a, g)[n]]
  BY DEF Advance, Animations, Clocks
<1> QED BY <1>2, <1>3

LEMMA DiffRight ==
  ASSUME TypeInv, NEW s \in Tv, NEW a \in Animations, InTime(a)
  PROVE  /\ PowerDiff(a, s) \in Animations /\ InTime(PowerDiff(a, s))
         /\ ChannelDiff(a, s) \in Animations /\ InTime(ChannelDiff(a, s))
         /\ AppDiff(a, s) \in Animations /\ InTime(AppDiff(a, s))
         /\ VolumeDiff(a, s) \in Animations /\ InTime(VolumeDiff(a, s))
<1>1. /\ s.powered \in BOOLEAN /\ s.channel \in 0..MaxChannel
      /\ s.volume \in 0..100 /\ tv.volume \in 0..100 /\ tv.app \in AppView
      /\ tv.channel \in 0..MaxChannel
  BY DEF TypeInv, Tv
<1>2. OldChannel \in 0..MaxChannel
  BY <1>1 DEF OldChannel, MaxChannel
<1>3. PowerDiff(a, s) \in Animations /\ InTime(PowerDiff(a, s))
  BY <1>1, PowerStarts DEF PowerDiff
<1>4. ChannelDiff(a, s) \in Animations /\ InTime(ChannelDiff(a, s))
  <2> DEFINE c == StartChannel(a, OldChannel)
  <2>1. c \in Animations /\ InTime(c)
    BY <1>2, ChannelStarts
  <2> HIDE DEF c
  <2>2. ShowOverlay(c, s.channel) \in Animations /\ InTime(ShowOverlay(c, s.channel))
    BY <1>1, <2>1, OverlayStarts
  <2>3. ChannelDiff(a, s) \in {ShowOverlay(c, s.channel), a}
    BY DEF ChannelDiff, c
  <2> QED BY <2>2, <2>3
<1>5. AppDiff(a, s) \in Animations /\ InTime(AppDiff(a, s))
  BY <1>1, AppStarts DEF AppDiff
<1>6. VolumeDiff(a, s) \in Animations /\ InTime(VolumeDiff(a, s))
  BY <1>1, VolumeStarts DEF VolumeDiff
<1> QED BY <1>3, <1>4, <1>5, <1>6

-----------------------------------------------------------------------------
(* The picture *)

(* What the last frame left in the context does not matter.                *)
LEMMA DrawForgets == \A s, a, x, y : Draw(s, a, x) = Draw(s, a, y)
BY DEF Draw, Dark, Reset

LEMMA DrawType ==
  ASSUME NEW s \in Tv, NEW a \in Animations, NEW x
  PROVE  Draw(s, a, x).content[1] \in ContentKinds
<1> DEFINE l == Level(s, a)
           d == [Dark(x) EXCEPT !.level = l, !.effects = Effects(l)]
           c == IF Runs(a, "app") THEN Opening(s, a) ELSE Content(s)
<1>1. l \in 0..100
  BY DEF Level, Animations
<1>2. a.phase \in Phases
  BY DEF Animations
<1>3. c[1] \in ContentKinds
  BY <1>2 DEF Opening, Content, ContentKinds, Phases
<1>4. d.content[1] = "black"
  BY DEF Dark
<1>5. Draw(s, a, x).content \in {d.content, <<"background", 0>>, c}
  <2>1. CASE l <= 10
    BY <2>1 DEF Draw, Dark
  <2>2. CASE l \in 11..30
    BY <2>2 DEF Draw, Dark
  <2>3. CASE ~(l <= 10) /\ l \notin 11..30
    BY <2>3 DEF Draw, Dark
  <2> QED BY <2>1, <2>2, <2>3
<1> HIDE DEF d, c
<1> QED BY <1>3, <1>4, <1>5 DEF ContentKinds

(* The picture of a TV whose power animation is over.                      *)
LEMMA DrawAfterFade ==
  ASSUME NEW s \in Tv, NEW a \in Animations, ~Runs(a, "power"), NEW x
  PROVE  /\ Draw(s, a, x).level = IF s.powered THEN 100 ELSE 0
         /\ ~s.powered => Draw(s, a, x).content = <<"black", 0>>
         /\ s.powered =>
              /\ Draw(s, a, x).content = IF Runs(a, "app") THEN Opening(s, a)
                                         ELSE Content(s)
              /\ Draw(s, a, x).text = ChannelText(s, a)
              /\ Draw(s, a, x).volume = VolumeShown(s, a)
              /\ Draw(s, a, x).overlay = OverlayShown(a)
<1> DEFINE c == IF Runs(a, "app") THEN Opening(s, a) ELSE Content(s)
<1>1. CASE s.powered
  <2>1. Level(s, a) = 100
    BY <1>1 DEF Level
  <2>2. ~(100 <= 10) /\ 100 \notin 11..30
    OBVIOUS
  <2> HIDE DEF c
  <2>3. Draw(s, a, x) = [Dark(x) EXCEPT !.level = 100, !.effects = Effects(100),
                           !.content = c, !.text = ChannelText(s, a),
                           !.volume = VolumeShown(s, a),
                           !.overlay = OverlayShown(a), !.leaves = "center"]
    BY <2>1, <2>2 DEF Draw, Dark, c
  <2>4. /\ Draw(s, a, x).level = 100 /\ Draw(s, a, x).content = c
        /\ Draw(s, a, x).text = ChannelText(s, a)
        /\ Draw(s, a, x).volume = VolumeShown(s, a)
        /\ Draw(s, a, x).overlay = OverlayShown(a)
    BY <2>3 DEF Dark
  <2> QED BY <1>1, <2>4 DEF c
<1>2. CASE ~s.powered
  <2>1. Level(s, a) = 0 /\ 0 <= 10
    BY <1>2 DEF Level
  <2>2. Draw(s, a, x) = [Dark(x) EXCEPT !.level = 0, !.effects = Effects(0)]
    BY <2>1 DEF Draw
  <2>3. Draw(s, a, x).level = 0 /\ Draw(s, a, x).content = <<"black", 0>>
    BY <2>2 DEF Dark
  <2> QED BY <1>2, <2>3
<1> QED BY <1>1, <1>2

-----------------------------------------------------------------------------
(* Beam and buttons *)

BeamRight(n) ==
  /\ n.beams = {n.current} \ {NoBeam}
  /\ n.beams \subseteq n.loops
  /\ n.lit = {n.active} \ {0}

LEMMA TriggerRight ==
  ASSUME NEW n \in Scene, BeamRight(n), NEW b \in Code
  PROVE  TriggerIRSignal(n, b) \in Scene /\ BeamRight(TriggerIRSignal(n, b))
<1> DEFINE m == DropBeam(n)
           k == CHOOSE k \in Beams : k \notin m.beams \/ m.beams = Beams
           t == [m EXCEPT !.beams = @ \cup {k}, !.loops = @ \cup {k},
                          !.current = k, !.age = 0]
<1>1. /\ m \in Scene /\ m.beams = {} /\ m.lit = n.lit /\ m.active = n.active
  BY DEF DropBeam, DisposeBeam, Scene, BeamRight, NoBeam, Beams
<1>2. k \in Beams /\ k # NoBeam
  BY <1>1 DEF Beams, NoBeam
<1> HIDE DEF m, k
<1>3. /\ t \in Scene /\ t.beams = {k} /\ t.current = k /\ k \in t.loops
      /\ t.lit = n.lit /\ t.active = n.active
  BY <1>1, <1>2 DEF Scene
<1>4. TriggerBeam(n) = t
  BY DEF TriggerBeam, m, k
<1> HIDE DEF t
<1>5. ASSUME b # 0
      PROVE  LightButton(t, b) \in Scene /\ BeamRight(LightButton(t, b))
  <2>1. n.lit = {n.active} \ {0} /\ n.active \in Code
    BY DEF BeamRight, Scene
  <2>2. (t.lit \ {t.active}) \cup {b} = {b}
    BY <1>3, <2>1
  <2>3. LightButton(t, b) = [t EXCEPT !.lit = {b}, !.active = b]
    BY <2>2 DEF LightButton
  <2> DEFINE r == [t EXCEPT !.lit = {b}, !.active = b]
  <2>4. r \in Scene
    BY <1>3 DEF Scene
  <2>5. /\ r.beams = {k} /\ r.current = k /\ k \in r.loops
        /\ r.lit = {b} /\ r.active = b
    BY <1>3 DEF Scene
  <2> HIDE DEF r
  <2>6. BeamRight(r)
    BY <1>2, <1>5, <2>5 DEF BeamRight
  <2> QED BY <2>3, <2>4, <2>6 DEF r
<1> QED BY <1>4, <1>5 DEF TriggerIRSignal

LEMMA FrameOfScene ==
  ASSUME NEW n \in Scene, BeamRight(n), NEW g \in Nat,
         NEW led \in {"red", "orange", "mixed", "green"}
  PROVE  LET t == [ReleaseButton(AnimateIR(n, g), g) EXCEPT !.led = led]
         IN  t \in Scene /\ BeamRight(t)
<1> DEFINE m == [n EXCEPT !.loops = @ \cap {n.current}]
           k == AnimateIR(n, g)
           t == ReleaseButton(k, g)
<1>1. m \in Scene /\ BeamRight(m) /\ m.current = n.current
  BY DEF Scene, BeamRight
<1>2. k \in Scene /\ BeamRight(k)
  <2>1. CASE n.current = NoBeam
    <3>1. k = m
      BY <2>1 DEF AnimateIR
    <3> QED BY <1>1, <3>1
  <2>2. CASE n.current # NoBeam /\ n.age + g >= 2
    <3>1. k = DisposeBeam([m EXCEPT !.age = 0], n.current)
      BY <2>2 DEF AnimateIR
    <3> HIDE DEF m, k
    <3> QED BY <1>1, <3>1 DEF DisposeBeam, Scene, BeamRight, NoBeam
  <2>3. CASE n.current # NoBeam /\ ~(n.age + g >= 2)
    <3>1. k = [m EXCEPT !.age = @ + g]
      BY <2>3 DEF AnimateIR
    <3> HIDE DEF m, k
    <3> QED BY <1>1, <3>1 DEF Scene, BeamRight
  <2> QED BY <2>1, <2>2, <2>3
<1> HIDE DEF m, k
<1>3. t \in Scene /\ BeamRight(t)
  <2>1. t \in {[k EXCEPT !.active = 0, !.lit = @ \ {k.active}], k}
    BY DEF ReleaseButton
  <2>2. /\ [k EXCEPT !.active = 0, !.lit = @ \ {k.active}] \in Scene
        /\ BeamRight([k EXCEPT !.active = 0, !.lit = @ \ {k.active}])
    <3> DEFINE r == [k EXCEPT !.active = 0, !.lit = @ \ {k.active}]
    <3>1. 0 \in Code
      BY DEF Code
    <3>2. r \in Scene
      BY <1>2, <3>1 DEF Scene
    <3>3. /\ r.beams = k.beams /\ r.current = k.current /\ r.loops = k.loops
          /\ r.lit = k.lit \ {k.active} /\ r.active = 0
      BY <1>2 DEF Scene
    <3> HIDE DEF r
    <3>4. BeamRight(r)
      BY <1>2, <3>3 DEF BeamRight
    <3> QED BY <3>2, <3>4 DEF r
  <2> HIDE DEF t
  <2> QED BY <1>2, <2>1, <2>2
<1> HIDE DEF t
<1>4. [t EXCEPT !.led = led] \in Scene /\ BeamRight([t EXCEPT !.led = led])
  BY <1>3 DEF Scene, BeamRight
<1> QED BY <1>4 DEF t, k

-----------------------------------------------------------------------------
(* The steps *)

(* What an update of the page establishes, whatever was running before.    *)
PageRight ==
  /\ known \in BOOLEAN /\ tv \in Tv
  /\ anim \in Animations /\ InTime(anim)
  /\ scene \in Scene /\ OneBeamOneButton
  /\ canvas.content[1] \in ContentKinds
  /\ known => canvas = Draw(tv, anim, "start")

LEMMA UpdateRight ==
  ASSUME IInv, NEW s \in Tv, NEW b \in Code, UpdateTVState(s, b)
  PROVE  PageRight'
<1> DEFINE p == PowerDiff(anim, s)
           c == ChannelDiff(p, s)
           d == AppDiff(c, s)
           a == VolumeDiff(d, s)
<1>1. p \in Animations /\ InTime(p)
  BY DiffRight DEF IInv, TypeInv
<1>2. c \in Animations /\ InTime(c)
  <2> HIDE DEF p
  <2> QED BY <1>1, DiffRight DEF IInv
<1>3. d \in Animations /\ InTime(d)
  <2> HIDE DEF c
  <2> QED BY <1>2, DiffRight DEF IInv
<1>4. a \in Animations /\ InTime(a)
  <2> HIDE DEF d
  <2> QED BY <1>3, DiffRight DEF IInv
<1>5. /\ known' = TRUE /\ tv' = s /\ anim' = a
      /\ scene' = TriggerIRSignal(scene, b)
      /\ canvas' = Draw(s, a, canvas.leaves)
  BY DEF UpdateTVState
<1> HIDE DEF a
<1>6. scene \in Scene /\ BeamRight(scene)
  BY DEF IInv, TypeInv, OneBeamOneButton, BeamRight
<1>7. scene' \in Scene /\ BeamRight(scene')
  BY <1>5, <1>6, TriggerRight
<1>8. canvas'.content[1] \in ContentKinds
  BY <1>4, <1>5, DrawType
<1>9. canvas' = Draw(tv', anim', "start")
  BY <1>5, DrawForgets
<1> QED BY <1>4, <1>5, <1>7, <1>8, <1>9 DEF PageRight, OneBeamOneButton, BeamRight

LEMMA RightInit == Init => IInv
<1> SUFFICES ASSUME Init PROVE IInv
  OBVIOUS
<1>1. server \in Tv /\ tv \in Tv
  <2>1. InitTv \in Tv /\ Netflix \in AppView
    BY InitType DEF AppView, Apps
  <2> HIDE DEF InitTv
  <2>2. [InitTv EXCEPT !.powered = TRUE, !.app = Netflix] \in Tv
    BY <2>1 DEF Tv
  <2> QED BY <2>1, <2>2 DEF Init
<1>2. anim \in Animations /\ InTime(anim)
  <2>1. Duration \in Clocks /\ \A n \in Anims : Duration[n] <= Duration[n]
    BY DurationType DEF Clocks
  <2>2. 1 \in 0..MaxChannel /\ Home \in AppView /\ "loading" \in Phases
    BY DEF MaxChannel, AppView, Phases
  <2>3. anim = [clock |-> Duration, on |-> FALSE, level |-> 0, left |-> 1,
                named |-> 1, closed |-> Home, phase |-> "loading",
                from |-> 50, to |-> 50]
    BY DEF Init
  <2> QED BY <2>1, <2>2, <2>3 DEF Animations, InTime
<1>3. scene \in Scene /\ OneBeamOneButton
  BY DEF Init, Scene, OneBeamOneButton, NoBeam, Code
<1>4. canvas.content[1] \in ContentKinds
  BY DEF Init, Dark, ContentKinds
<1>5. /\ clearing \in BOOLEAN /\ online \in BOOLEAN
      /\ known \in BOOLEAN /\ known = FALSE
  BY Zenon DEF Init
<1>6. button \in Code /\ presses \in 0..MaxPresses /\ losses \in 0..MaxLosses
  BY PictureAssumption DEF Init, Code
<1> QED BY <1>1, <1>2, <1>3, <1>4, <1>5, <1>6 DEF IInv, TypeInv, CanvasIsCurrent

(* The server's side of the invariant *)
ServerRight ==
  /\ server \in Tv /\ button \in Code /\ clearing \in BOOLEAN
  /\ online \in BOOLEAN /\ presses \in 0..MaxPresses
  /\ losses \in 0..MaxLosses

LEMMA BothSides == ServerRight' /\ PageRight' => IInv'
BY DEF ServerRight, PageRight, IInv, TypeInv, CanvasIsCurrent

LEMMA ServerSide == IInv => ServerRight
BY DEF IInv, TypeInv, ServerRight

(* As long as the page does not change, the invariant holds on.            *)
LEMMA PageRests ==
  ASSUME IInv, ServerRight', UNCHANGED pageVars, online' => online
  PROVE  IInv'
BY DEF IInv, TypeInv, ServerRight, pageVars, CanvasIsCurrent, OneBeamOneButton

LEMMA PressRight == ASSUME IInv, NEW b \in Pressed, Press(b) PROVE IInv'
<1>1. b \in Code
  BY PictureAssumption
<1>2. AfterPress(b, server) \in Tv
  BY <1>1, AfterPressType DEF IInv, TypeInv
<1>3. ServerRight'
  BY <1>1, <1>2, ServerSide, PictureAssumption DEF Press, ServerRight
<1>4. CASE online
  <2>1. UpdateTVState(server', b) /\ server' \in Tv
    BY <1>2, <1>4 DEF Press
  <2>2. PageRight'
    BY <1>1, <2>1, UpdateRight
  <2> QED BY <1>3, <2>2, BothSides
<1>5. CASE ~online
  BY <1>3, <1>5, PageRests DEF Press
<1> QED BY <1>4, <1>5

LEMMA ClearRight == ASSUME IInv, ClearNotification PROVE IInv'
<1>1. ServerRight'
  BY ServerSide DEF ClearNotification, ServerRight
<1>2. CASE online
  <2>1. UpdateTVState(server, button) /\ server \in Tv /\ button \in Code
    BY <1>2 DEF ClearNotification, IInv, TypeInv
  <2>2. PageRight'
    BY <2>1, UpdateRight
  <2> QED BY <1>1, <2>2, BothSides
<1>3. CASE ~online
  BY <1>1, <1>3, PageRests DEF ClearNotification
<1> QED BY <1>2, <1>3

LEMMA ConnectRight == ASSUME IInv, Connect PROVE IInv'
<1>1. ServerRight'
  BY ServerSide DEF Connect, ServerRight, serverVars
<1>2. UpdateTVState(server, button) /\ server \in Tv /\ button \in Code
  BY DEF Connect, IInv, TypeInv
<1>3. PageRight'
  BY <1>2, UpdateRight
<1> QED BY <1>1, <1>3, BothSides

LEMMA DisconnectRight == ASSUME IInv, Disconnect PROVE IInv'
<1>1. ServerRight'
  <2>1. losses' \in 0..MaxLosses
    BY ServerSide, PictureAssumption DEF Disconnect, ServerRight
  <2>2. online' \in BOOLEAN
    BY Zenon DEF Disconnect
  <2> QED BY <2>1, <2>2, ServerSide DEF Disconnect, ServerRight, serverVars
<1> QED BY <1>1, PageRests DEF Disconnect

LEMMA OfflineRight == ASSUME IInv, UseOffline PROVE IInv'
<1>1. tv.powered \in BOOLEAN /\ tv' \in Tv
  BY DEF UseOffline, IInv, TypeInv, Tv
<1>2. anim' \in Animations /\ InTime(anim')
  <2>1. anim' = StartPower(anim, ~tv.powered)
    BY DEF UseOffline
  <2>1a. (~tv.powered) \in BOOLEAN
    OBVIOUS
  <2>2. anim \in Animations /\ InTime(anim)
    BY DEF IInv, TypeInv
  <2> QED BY <2>1, <2>1a, <2>2, PowerStarts
<1>3. anim'.clock["power"] = 0
  <2>1. anim.clock \in [Anims -> 0..12] /\ "power" \in Anims
    BY DEF IInv, TypeInv, Animations, Clocks, Anims
  <2>2. anim'.clock = [anim.clock EXCEPT !["power"] = 0]
    BY DEF UseOffline, StartPower, IInv, TypeInv, Animations
  <2> QED BY <2>1, <2>2
<1>4. ServerRight' /\ ~online'
  BY ServerSide, PictureAssumption DEF UseOffline, ServerRight, serverVars
<1> QED BY <1>1, <1>2, <1>3, <1>4
        DEF UseOffline, IInv, TypeInv, ServerRight, CanvasIsCurrent,
            OneBeamOneButton

(* A frame in which nothing was animated changes no animation.             *)
LEMMA StillFrame ==
  ASSUME NEW a \in Animations, InTime(a), AllOver(a), NEW g \in Nat,
         NEW f \in Fade(a, Advance(a, g))
  PROVE  [AdvanceApp(f, Advance(a, g)) EXCEPT !.clock = Advance(a, g)] = a
<1>1. ~Runs(a, "power") /\ ~Runs(a, "app")
  BY DEF AllOver, Anims
<1>2. f = a
  BY <1>1 DEF Fade
<1>3. AdvanceApp(f, Advance(a, g)) = a
  BY <1>1, <1>2 DEF AdvanceApp
<1>4. Advance(a, g) = a.clock
  BY AdvanceAtEnd
<1> QED BY <1>3, <1>4 DEF Animations

LEMMA FrameAnimation ==
  ASSUME NEW a \in Animations, InTime(a), NEW g \in Nat,
         NEW f \in Fade(a, Advance(a, g))
  PROVE  LET b == [AdvanceApp(f, Advance(a, g)) EXCEPT !.clock = Advance(a, g)]
         IN  b \in Animations /\ InTime(b)
<1> DEFINE t == Advance(a, g)
           h == AdvanceApp(f, t)
<1>1. t \in Clocks /\ \A n \in Anims : t[n] <= Duration[n]
  BY AdvanceType
<1> HIDE DEF t
<1>2. t["power"] \in 0..8
  <2>1. "power" \in Anims /\ Duration["power"] = 8
    BY DEF Anims, Duration
  <2> QED BY <1>1, <2>1 DEF Clocks
<1>3. f \in Animations
  <2>1. CASE Runs(a, "power")
    <3>1. PICK l \in Levels(a.on, t["power"]) : f = [a EXCEPT !.level = l]
      BY <2>1 DEF Fade, t
    <3>2. a.on \in BOOLEAN
      BY DEF Animations
    <3>3. l \in 0..100
      BY <1>2, <3>2, LevelsType
    <3> QED BY <3>1, <3>3 DEF Animations
  <2>2. CASE ~Runs(a, "power")
    BY <2>2 DEF Fade
  <2> QED BY <2>1, <2>2
<1>4. h \in Animations
  <2>1. PhaseAt(t["app"]) \in Phases
    BY DEF PhaseAt, Phases
  <2>2. [f EXCEPT !.phase = PhaseAt(t["app"])] \in Animations
    BY <1>3, <2>1 DEF Animations
  <2> QED BY <1>3, <2>2 DEF AdvanceApp
<1> HIDE DEF h
<1> DEFINE b == [h EXCEPT !.clock = t]
<1>5. b \in Animations /\ b.clock = t
  BY <1>1, <1>4 DEF Animations
<1> HIDE DEF b
<1>6. b \in Animations /\ InTime(b)
  BY <1>1, <1>5 DEF InTime
<1> QED BY <1>6 DEF b, h, t

LEMMA LedOfType ==
  ASSUME NEW a \in Animations, InTime(a), NEW g \in Nat, NEW s \in Tv
  PROVE  LedOf(a, Advance(a, g), s) \in {"red", "orange", "mixed", "green"}
<1>1. /\ Advance(a, g) \in Clocks
      /\ \A n \in Anims : Advance(a, g)[n] <= Duration[n]
  BY AdvanceType
<1>2. "power" \in Anims /\ Duration["power"] = 8
  BY DEF Anims, Duration
<1>3. Advance(a, g)["power"] \in 0..8
  BY <1>1, <1>2 DEF Clocks
<1>4. a.on \in BOOLEAN
  BY DEF Animations
<1>5. Led(a.on, Advance(a, g)["power"]) \in {"red", "orange", "mixed", "green"}
  BY <1>3, <1>4, LedType
<1> QED BY <1>5 DEF LedOf

LEMMA FrameRight == ASSUME IInv, NEW g \in Gaps, Frame(g) PROVE IInv'
<1>1. g \in Nat
  BY PictureAssumption
<1>2. /\ anim \in Animations /\ InTime(anim) /\ tv \in Tv
      /\ scene \in Scene /\ BeamRight(scene)
  BY DEF IInv, TypeInv, OneBeamOneButton, BeamRight
<1>3. PICK a \in Fade(anim, Advance(anim, g)) :
        LET b == [AdvanceApp(a, Advance(anim, g))
                    EXCEPT !.clock = Advance(anim, g)]
        IN  /\ anim' = b
            /\ canvas' = IF Dirty(anim, b, tv) THEN Draw(tv, b, canvas.leaves)
                         ELSE canvas
            /\ scene' = [ReleaseButton(AnimateIR(scene, g), g)
                           EXCEPT !.led = LedOf(anim, Advance(anim, g), tv)]
            /\ UNCHANGED <<serverVars, online, losses, known, tv>>
  BY DEF Frame
<1> DEFINE b == [AdvanceApp(a, Advance(anim, g)) EXCEPT !.clock = Advance(anim, g)]
<1>4. b \in Animations /\ InTime(b)
  BY <1>1, <1>2, FrameAnimation
<1>5. AllOver(anim) => b = anim
  BY <1>1, <1>2, StillFrame
<1> HIDE DEF b
<1>6. /\ anim' = b
      /\ canvas' = IF Dirty(anim, b, tv) THEN Draw(tv, b, canvas.leaves)
                   ELSE canvas
      /\ scene' = [ReleaseButton(AnimateIR(scene, g), g)
                     EXCEPT !.led = LedOf(anim, Advance(anim, g), tv)]
      /\ UNCHANGED <<serverVars, online, losses, known, tv>>
  BY <1>3 DEF b
<1>7. scene' \in Scene /\ BeamRight(scene')
  <2>1. LedOf(anim, Advance(anim, g), tv) \in {"red", "orange", "mixed", "green"}
    BY <1>1, <1>2, LedOfType
  <2> DEFINE led == LedOf(anim, Advance(anim, g), tv)
             t == [ReleaseButton(AnimateIR(scene, g), g) EXCEPT !.led = led]
  <2>2. t \in Scene /\ BeamRight(t)
    <3> HIDE DEF led
    <3>1. led \in {"red", "orange", "mixed", "green"}
      BY <2>1 DEF led
    <3> QED BY <1>1, <1>2, <3>1, FrameOfScene
  <2> QED BY <1>6, <2>2
<1>8. ServerRight'
  BY <1>6, ServerSide DEF ServerRight, serverVars
<1>9. CASE Dirty(anim, b, tv)
  <2>1. canvas' = Draw(tv, b, canvas.leaves)
    BY <1>6, <1>9
  <2>2. canvas'.content[1] \in ContentKinds
    BY <1>2, <1>4, <2>1, DrawType
  <2>3. canvas' = Draw(tv', anim', "start")
    BY <1>6, <2>1, DrawForgets
  <2>4. known' \in BOOLEAN /\ tv' \in Tv
    BY <1>6 DEF IInv, TypeInv
  <2>5. PageRight'
    BY <1>4, <1>6, <1>7, <2>2, <2>3, <2>4
       DEF PageRight, OneBeamOneButton, BeamRight
  <2> QED BY <1>8, <2>5, BothSides
<1>10. CASE ~Dirty(anim, b, tv)
  <2>1. AllOver(anim) /\ canvas' = canvas
    BY <1>6, <1>10 DEF Dirty
  <2>2. anim' = anim
    BY <1>5, <1>6, <2>1
  <2> QED BY <1>6, <1>7, <1>8, <2>1, <2>2
          DEF IInv, TypeInv, ServerRight, CanvasIsCurrent, OneBeamOneButton,
              BeamRight
<1> QED BY <1>9, <1>10

LEMMA StutterRight == IInv /\ UNCHANGED vars => IInv'
BY DEF IInv, TypeInv, vars, serverVars, pageVars, CanvasIsCurrent,
       OneBeamOneButton

LEMMA RightNext == IInv /\ [Next]_vars => IInv'
<1> SUFFICES ASSUME IInv, [Next]_vars PROVE IInv'
  OBVIOUS
<1>1. CASE Next
  <2>1. ASSUME NEW b \in Pressed, Press(b) PROVE IInv'
    BY <2>1, PressRight
  <2>2. CASE ClearNotification
    BY <2>2, ClearRight
  <2>3. CASE Connect
    BY <2>3, ConnectRight
  <2>4. CASE Disconnect
    BY <2>4, DisconnectRight
  <2>5. CASE UseOffline
    BY <2>5, OfflineRight
  <2>6. ASSUME NEW g \in Gaps, Frame(g) PROVE IInv'
    BY <2>6, FrameRight
  <2> QED BY <1>1, <2>1, <2>2, <2>3, <2>4, <2>5, <2>6 DEF Next
<1>2. CASE UNCHANGED vars
  BY <1>2, StutterRight
<1> QED BY <1>1, <1>2

LEMMA Right == Spec => []IInv
BY RightInit, RightNext, PTL DEF Spec

-----------------------------------------------------------------------------
(* Whatever is pressed, lost or delayed, every variable keeps its type and *)
(* no clock overtakes its duration.                                        *)
THEOREM TypeCorrect == Spec => []TypeInv
<1>1. IInv => TypeInv
  BY DEF IInv
<1> QED BY <1>1, Right, PTL

(* The canvas always shows what state and animations call for, also while  *)
(* no frame is drawn: what updateTVScreen leaves in the context of the     *)
(* canvas is nothing the next frame could see, and the frames main.js      *)
(* skips would have drawn the same picture.                                *)
THEOREM CanvasCurrent == Spec => []CanvasIsCurrent
<1>1. IInv => CanvasIsCurrent
  BY DEF IInv
<1> QED BY <1>1, Right, PTL

(* At most one beam is in the scene and one button lit, however fast the   *)
(* buttons follow each other.                                              *)
THEOREM OneOfEach == Spec => []OneBeamOneButton
<1>1. IInv => OneBeamOneButton
  BY DEF IInv
<1> QED BY <1>1, Right, PTL

(* Once the power animation is over, no press waits for a frame.           *)
LEMMA Drawn ==
  ASSUME IInv, known, ~Runs(anim, "power")
  PROVE  canvas = Draw(tv, anim, "start")
<1>1. Duration["power"] = 8
  BY DEF Duration
<1>2. anim.clock["power"] # 0
  BY <1>1 DEF Runs
<1> QED BY <1>2 DEF IInv, CanvasIsCurrent

(* A TV that has faded out is black and one that has come on is bright,    *)
(* whatever else was running when it was switched.                         *)
THEOREM DarkAfterFade == Spec => []DarkWhenOff
<1>1. IInv => DarkWhenOff
  <2> SUFFICES ASSUME IInv, known, ~Runs(anim, "power")
               PROVE  /\ canvas.level = (IF tv.powered THEN 100 ELSE 0)
                      /\ (canvas.content = <<"black", 0>> <=> ~tv.powered)
    BY DEF DarkWhenOff
  <2>1. canvas = Draw(tv, anim, "start") /\ tv \in Tv /\ anim \in Animations
    BY Drawn DEF IInv, TypeInv
  <2> DEFINE c == IF Runs(anim, "app") THEN Opening(tv, anim) ELSE Content(tv)
  <2>2. /\ canvas.level = IF tv.powered THEN 100 ELSE 0
        /\ ~tv.powered => canvas.content = <<"black", 0>>
        /\ tv.powered => canvas.content = c
    BY <2>1, DrawAfterFade
  <2>3. c[1] # "black"
    <3>1. anim.phase \in Phases
      BY <2>1 DEF Animations
    <3> QED BY <3>1 DEF Opening, Content, Phases
  <2> HIDE DEF c
  <2>4. c # <<"black", 0>>
    BY <2>3
  <2> QED BY <2>2, <2>4
<1> QED BY <1>1, Right, PTL

(* When every animation is over, the picture is that of the state alone.   *)
THEOREM RestIsState == Spec => []AtRest
<1>1. IInv => AtRest
  <2> SUFFICES ASSUME IInv, known, tv.powered, AllOver(anim)
               PROVE  /\ canvas.content = Content(tv)
                      /\ canvas.text = {tv.channel}
                      /\ canvas.volume = tv.volume /\ canvas.overlay = 0
    BY DEF AtRest
  <2>1. \A n \in Anims : ~Runs(anim, n)
    BY DEF AllOver
  <2>2. {"power", "channel", "overlay", "app", "volume"} \subseteq Anims
    BY DEF Anims
  <2>3. canvas = Draw(tv, anim, "start") /\ tv \in Tv /\ anim \in Animations
    BY <2>1, <2>2, Drawn DEF IInv, TypeInv
  <2>4. /\ canvas.content = IF Runs(anim, "app") THEN Opening(tv, anim)
                            ELSE Content(tv)
        /\ canvas.text = ChannelText(tv, anim)
        /\ canvas.volume = VolumeShown(tv, anim)
        /\ canvas.overlay = OverlayShown(anim)
    BY <2>1, <2>2, <2>3, DrawAfterFade
  <2>5. /\ anim.clock["channel"] \in Nat /\ ~(anim.clock["channel"] < 4)
        /\ anim.clock["volume"] \in Nat /\ ~(anim.clock["volume"] < 2)
    <3>1. Duration["channel"] = 4 /\ Duration["volume"] = 2
      BY DEF Duration
    <3> QED BY <2>1, <2>2, <2>3, <3>1 DEF Runs, Animations, Clocks
  <2>6. ChannelText(tv, anim) = {tv.channel}
    BY <2>5 DEF ChannelText
  <2>7. VolumeShown(tv, anim) = tv.volume
    BY <2>5 DEF VolumeShown
  <2>8. OverlayShown(anim) = 0
    BY <2>1, <2>2 DEF OverlayShown
  <2> QED BY <2>1, <2>2, <2>4, <2>6, <2>7, <2>8
<1> QED BY <1>1, Right, PTL

-----------------------------------------------------------------------------
(***************************************************************************)
(* How far the page is from rest: the quarters of a second each animation  *)
(* has to run, and the frames that beam, lit button and LED need.          *)
(***************************************************************************)
Parts == Anims \cup {"beam", "light", "led"}

LedFits == scene.led = IF tv.powered THEN "green" ELSE "red"

Pending ==
  [x \in Parts |->
     CASE x = "beam" -> IF scene.current = NoBeam THEN 0 ELSE IF scene.age = 0 THEN 2 ELSE 1
       [] x = "light" -> IF scene.active = 0 THEN 0 ELSE 1
       [] x = "led" -> IF Runs(anim, "power") THEN 9 - anim.clock["power"]
                       ELSE IF LedFits THEN 0 ELSE 1
       [] OTHER -> Duration[x] - anim.clock[x]]

(* A frame brings nothing back, and one that takes time brings everything  *)
(* that is not at rest nearer to it.                                       *)
Settling ==
  \A g \in Gaps : Frame(g) =>
    \A x \in Parts : /\ Pending'[x] <= Pending[x]
                     /\ g > 0 => Pending'[x] = 0 \/ Pending'[x] < Pending[x]

PartByPart ==
  /\ Pending["beam"] = IF scene.current = NoBeam THEN 0
                       ELSE IF scene.age = 0 THEN 2 ELSE 1
  /\ Pending["light"] = IF scene.active = 0 THEN 0 ELSE 1
  /\ Pending["led"] = IF Runs(anim, "power") THEN 9 - anim.clock["power"]
                      ELSE IF LedFits THEN 0 ELSE 1
  /\ \A n \in Anims : Pending[n] = Duration[n] - anim.clock[n]

LEMMA PendingParts == PartByPart
BY DEF PartByPart, Pending, Parts, Anims

LEMMA PendingNext == PartByPart'
BY PendingParts, PTL

LEMMA ClockRight ==
  ASSUME IInv, NEW n \in Anims
  PROVE  /\ anim.clock[n] \in Nat /\ Duration[n] \in 1..12
         /\ anim.clock[n] <= Duration[n]
         /\ Runs(anim, n) <=> anim.clock[n] # Duration[n]
<1>1. anim.clock[n] \in 0..12 /\ Duration[n] \in 1..12 /\ anim.clock[n] <= Duration[n]
  BY DurationType DEF IInv, TypeInv, Animations, Clocks, InTime
<1> QED BY <1>1 DEF Runs

LEMMA PendingRest ==
  IInv => /\ Pending \in [Parts -> 0..12]
          /\ (\A x \in Parts : Pending[x] = 0) <=> Resting
<1> SUFFICES ASSUME IInv
             PROVE  /\ \A x \in Parts : Pending[x] \in 0..12
                    /\ (\A x \in Parts : Pending[x] = 0) <=> Resting
  BY DEF Pending
<1>1. "power" \in Anims /\ Duration["power"] = 8
  BY DEF Anims, Duration
<1>2. ASSUME NEW n \in Anims
      PROVE  Pending[n] \in 0..12 /\ (Pending[n] = 0 <=> ~Runs(anim, n))
  <2>1. Pending[n] = Duration[n] - anim.clock[n]
    BY PendingParts DEF PartByPart
  <2> QED BY <2>1, ClockRight
<1>3. /\ Pending["led"] \in 0..12
      /\ Pending["led"] = 0 <=> ~Runs(anim, "power") /\ LedFits
  <2>1. anim.clock["power"] \in 0..8
    BY <1>1, ClockRight
  <2> QED BY <2>1, PendingParts DEF PartByPart
<1>4. /\ Pending["beam"] \in 0..12 /\ Pending["light"] \in 0..12
      /\ Pending["beam"] = 0 <=> scene.current = NoBeam
      /\ Pending["light"] = 0 <=> scene.active = 0
  BY PendingParts DEF PartByPart
<1>5. /\ scene.beams = {} <=> scene.current = NoBeam
      /\ scene.lit = {} <=> scene.active = 0
  BY DEF IInv, OneBeamOneButton
<1>6. \A x \in Parts : x \in Anims \/ x = "beam" \/ x = "light" \/ x = "led"
  BY DEF Parts
<1>7. Anims \subseteq Parts /\ {"beam", "light", "led"} \subseteq Parts
  BY DEF Parts
<1>8. \A x \in Parts : Pending[x] \in 0..12
  BY <1>2, <1>3, <1>4, <1>6
<1>9. (\A x \in Parts : Pending[x] = 0)
        <=> (\A n \in Anims : Pending[n] = 0) /\ Pending["beam"] = 0
              /\ Pending["light"] = 0 /\ Pending["led"] = 0
  BY <1>6, <1>7
<1>10. (\A n \in Anims : Pending[n] = 0) <=> AllOver(anim)
  BY <1>2 DEF AllOver
<1>11. AllOver(anim) => ~Runs(anim, "power")
  BY <1>1 DEF AllOver
<1> QED BY <1>3, <1>4, <1>5, <1>8, <1>9, <1>10, <1>11 DEF Resting, LedFits

LEMMA PendingRestNext == IInv' => Pending' \in [Parts -> 0..12]
<1> DEFINE P == Pending \in [Parts -> 0..12]
<1>1. IInv => P
  BY PendingRest
<1> HIDE DEF P
<1>2. IInv' => P'
  BY <1>1, PTL
<1> QED BY <1>2 DEF P

LEMMA SceneSettles ==
  ASSUME NEW n \in Scene, NEW g \in Nat, NEW l \in {"red", "orange", "mixed", "green"}
  PROVE  LET t == [ReleaseButton(AnimateIR(n, g), g) EXCEPT !.led = l]
         IN  /\ t.led = l
             /\ \/ t.current = NoBeam
                \/ /\ n.current # NoBeam /\ t.current = n.current
                   /\ t.age = n.age + g /\ t.age < 2
             /\ \/ t.active = 0
                \/ g = 0 /\ t.active = n.active
<1> DEFINE m == [n EXCEPT !.loops = @ \cap {n.current}]
           k == AnimateIR(n, g)
           r == ReleaseButton(k, g)
           t == [r EXCEPT !.led = l]
<1>0. n.age \in Nat
  BY DEF Scene
<1>1. m \in Scene /\ m.current = n.current /\ m.active = n.active /\ m.age = n.age
  BY DEF Scene
<1>2. /\ k \in Scene /\ k.active = n.active
      /\ \/ k.current = NoBeam
         \/ /\ n.current # NoBeam /\ k.current = n.current
            /\ k.age = n.age + g /\ k.age < 2
  <2>1. CASE n.current = NoBeam
    <3>1. k = m
      BY <2>1 DEF AnimateIR
    <3> QED BY <1>1, <2>1, <3>1
  <2>2. CASE n.current # NoBeam /\ n.age + g >= 2
    <3>1. k = DisposeBeam([m EXCEPT !.age = 0], n.current)
      BY <2>2 DEF AnimateIR
    <3> HIDE DEF m, k
    <3> QED BY <1>1, <3>1 DEF DisposeBeam, Scene, NoBeam
  <2>3. CASE n.current # NoBeam /\ ~(n.age + g >= 2)
    <3>1. k = [m EXCEPT !.age = @ + g]
      BY <2>3 DEF AnimateIR
    <3> HIDE DEF m, k
    <3> QED BY <1>0, <1>1, <2>3, <3>1 DEF Scene
  <2> QED BY <2>1, <2>2, <2>3
<1> HIDE DEF m, k
<1>3. /\ r \in Scene /\ r.current = k.current /\ r.age = k.age
      /\ \/ r.active = 0
         \/ g = 0 /\ r.active = k.active
  <2>1. r = IF k.active # 0 /\ g > 0 THEN [k EXCEPT !.active = 0, !.lit = @ \ {k.active}] ELSE k
    BY DEF ReleaseButton
  <2>2. 0 \in Code
    BY DEF Code
  <2> HIDE DEF r
  <2>3. CASE k.active # 0 /\ g > 0
    <3>1. r = [k EXCEPT !.active = 0, !.lit = @ \ {k.active}]
      BY <2>1, <2>3
    <3> QED BY <1>2, <2>2, <3>1 DEF Scene
  <2>4. CASE ~(k.active # 0 /\ g > 0)
    <3>1. r = k
      BY <2>1, <2>4
    <3>2. k.active = 0 \/ g = 0
      BY <2>4
    <3> QED BY <1>2, <3>1, <3>2
  <2> QED BY <2>3, <2>4
<1> HIDE DEF r
<1>4. t.led = l /\ t.current = r.current /\ t.age = r.age /\ t.active = r.active
  BY <1>3 DEF Scene
<1> HIDE DEF t
<1>5. /\ t.led = l
      /\ \/ t.current = NoBeam
         \/ /\ n.current # NoBeam /\ t.current = n.current
            /\ t.age = n.age + g /\ t.age < 2
      /\ \/ t.active = 0
         \/ g = 0 /\ t.active = n.active
  BY <1>2, <1>3, <1>4
<1> QED BY <1>5 DEF t, r, k

(* A frame moves the clocks of the animations and no other part of them.   *)
LEMMA FrameClock ==
  ASSUME IInv, NEW g \in Gaps, Frame(g)
  PROVE  anim'.clock = Advance(anim, g)
<1> DEFINE t == Advance(anim, g)
<1>1. PICK a \in Fade(anim, t) : anim' = [AdvanceApp(a, t) EXCEPT !.clock = t]
  BY DEF Frame
<1> HIDE DEF t
<1>2. a = anim \/ \E l : a = [anim EXCEPT !.level = l]
  BY DEF Fade
<1>3. AdvanceApp(a, t) = a \/ AdvanceApp(a, t) = [a EXCEPT !.phase = PhaseAt(t["app"])]
  BY DEF AdvanceApp
<1>4. anim \in Animations
  BY DEF IInv, TypeInv
<1>5. "clock" \in DOMAIN anim
  BY <1>4 DEF Animations
<1>6. "clock" \in DOMAIN a
  BY <1>2, <1>5
<1>7. "clock" \in DOMAIN AdvanceApp(a, t)
  BY <1>3, <1>6
<1> QED BY <1>1, <1>7 DEF t

LEMMA FrameSettles ==
  ASSUME IInv, IInv', NEW g \in Gaps, Frame(g), NEW x \in Parts
  PROVE  /\ Pending'[x] <= Pending[x]
         /\ g > 0 => Pending'[x] = 0 \/ Pending'[x] < Pending[x]
<1>1. g \in Nat /\ anim \in Animations /\ scene \in Scene
  BY PictureAssumption DEF IInv, TypeInv
<1>2. anim'.clock = Advance(anim, g) /\ tv' = tv
  BY FrameClock DEF Frame
<1>3. /\ scene'.led = LedOf(anim, Advance(anim, g), tv)
      /\ \/ scene'.current = NoBeam
         \/ /\ scene.current # NoBeam
            /\ scene'.age = scene.age + g /\ scene'.age < 2
      /\ \/ scene'.active = 0
         \/ g = 0 /\ scene'.active = scene.active
  <2> DEFINE l == LedOf(anim, Advance(anim, g), tv)
  <2>1. scene' = [ReleaseButton(AnimateIR(scene, g), g) EXCEPT !.led = l]
    BY DEF Frame
  <2>2. l \in {"red", "orange", "mixed", "green"}
    BY <1>1, LedOfType DEF IInv, TypeInv
  <2> HIDE DEF l
  <2> QED BY <1>1, <2>1, <2>2, SceneSettles DEF l
<1>4. ASSUME NEW n \in Anims
      PROVE  \/ Pending'[n] = 0
             \/ Pending'[n] = Pending[n] - g
  <2>1. Pending[n] = Duration[n] - anim.clock[n] /\ Pending'[n] = Duration[n] - anim'.clock[n]
    BY PendingParts, PendingNext DEF PartByPart
  <2>2. anim'.clock[n] = IF anim.clock[n] + g >= Duration[n] THEN Duration[n]
                         ELSE anim.clock[n] + g
    BY <1>2 DEF Advance
  <2>3. anim.clock[n] \in Nat /\ Duration[n] \in Nat
    BY ClockRight
  <2> QED BY <1>1, <2>1, <2>2, <2>3
<1>5. CASE x \in Anims
  <2>1. Pending[x] \in Nat /\ Pending'[x] \in Nat
    BY <1>5, PendingRest, PendingRestNext DEF Parts
  <2> QED BY <1>1, <1>4, <1>5, <2>1
<1>6. CASE x = "beam"
  <2>1. scene.age \in Nat
    BY <1>1 DEF Scene
  <2> QED BY <1>1, <1>3, <1>6, <2>1, PendingParts, PendingNext DEF PartByPart
<1>7. CASE x = "light"
  BY <1>1, <1>3, <1>7, PendingParts, PendingNext DEF PartByPart
<1>8. CASE x = "led"
  <2>1. "power" \in Anims /\ Duration["power"] = 8
    BY DEF Anims, Duration
  <2>2. /\ anim.clock["power"] \in Nat /\ anim.clock["power"] <= 8
        /\ Runs(anim, "power") <=> anim.clock["power"] < 8
        /\ Runs(anim, "power")' <=> anim'.clock["power"] < 8
    BY <2>1, ClockRight DEF Runs
  <2>3. anim'.clock["power"] = IF anim.clock["power"] + g >= 8 THEN 8
                               ELSE anim.clock["power"] + g
    BY <1>2, <2>1 DEF Advance
  <2>4. CASE Runs(anim, "power")
    <3>1. Pending["led"] = 9 - anim.clock["power"]
      BY <2>4, PendingParts DEF PartByPart
    <3>2. CASE anim'.clock["power"] < 8
      <4>1. Pending'["led"] = 9 - anim'.clock["power"]
        BY <2>2, <3>2, PendingNext DEF PartByPart
      <4> QED BY <1>1, <1>8, <2>2, <2>3, <3>1, <3>2, <4>1
    <3>3. CASE ~(anim'.clock["power"] < 8)
      <4>1. Pending'["led"] \in 0..1
        BY <2>2, <3>3, PendingNext DEF PartByPart
      <4>2. Pending["led"] >= 2
        BY <2>2, <2>4, <3>1
      <4>3. g > 0
        BY <1>1, <2>2, <2>3, <2>4, <3>3
      <4> QED BY <1>8, <3>1, <2>2, <4>1, <4>2, <4>3
    <3> QED BY <3>2, <3>3
  <2>5. CASE ~Runs(anim, "power")
    <3>1. LedFits' /\ ~Runs(anim, "power")'
      BY <1>1, <1>2, <1>3, <2>2, <2>3, <2>5 DEF LedFits, LedOf
    <3>2. Pending'["led"] = 0
      BY <3>1, PendingNext DEF PartByPart
    <3>3. Pending["led"] \in 0..1
      BY <2>5, PendingParts DEF PartByPart
    <3> QED BY <1>8, <3>2, <3>3
  <2> QED BY <2>4, <2>5
<1> QED BY <1>5, <1>6, <1>7, <1>8 DEF Parts

(***************************************************************************)
(* Frames alone bring the page to rest: whatever the animations, beams and *)
(* lights under way and however late the frames, each of them that takes   *)
(* time brings every part nearer to rest, no part is more than 12 away     *)
(* from it, and at rest the LED is right (animate of main.js, animateIR).  *)
(* Settles is this with the fairness of the frames.                        *)
(***************************************************************************)
THEOREM FramesBringRest ==
  Spec => /\ [](/\ Pending \in [Parts -> 0..12]
                /\ (\A x \in Parts : Pending[x] = 0) <=> Resting)
          /\ [][Settling]_vars
<1>1. IInv /\ IInv' /\ [Next]_vars => [Settling]_vars
  BY FrameSettles DEF Settling
<1> QED BY <1>1, PendingRest, Right, PTL DEF Spec

-----------------------------------------------------------------------------
(***************************************************************************)
(* Walk mode.                                                              *)
(***************************************************************************)
(* What a handler leaves alone, by group of fields.                        *)
SameWalk(s, t) == /\ t.walkMode = s.walkMode /\ t.exitRequested = s.exitRequested
                  /\ t.move = s.move /\ t.shift = s.shift
SamePanels(s, t) == t.menu = s.menu /\ t.overlay = s.overlay
SameFingers(s, t) == t.stick = s.stick /\ t.moveY = s.moveY /\ t.look = s.look
SameRemote(s, t) == /\ t.held = s.held /\ t.listed = s.listed /\ t.focus = s.focus
                    /\ t.remote = s.remote /\ t.firstPerson = s.firstPerson

(* The part of the invariant that is about the page alone.                 *)
WalkRight(s) ==
  /\ s \in Walk!Page
  /\ s.menu \/ s.overlay \/ s.exitRequested \/ s.move => s.walkMode
  /\ ~(s.menu /\ s.overlay)
  /\ s.moveY => s.stick
  /\ s.menu => ~s.stick /\ ~s.look
  /\ s.listed = ~s.held
  /\ s.focus = "remote" => s.listed
  /\ s.remote = "floor" => s.listed
  /\ s.held /\ s.firstPerson => s.remote = "holder"

InHand(s) == s.held /\ s.remote = "holder" /\ s.firstPerson

LEMMA MenuHides ==
  ASSUME NEW s \in Walk!Page
  PROVE  LET t == Walk!HideMenu(s)
         IN  /\ t \in Walk!Page /\ ~t.menu /\ t.overlay = s.overlay
             /\ SameWalk(s, t) /\ SameFingers(s, t) /\ SameRemote(s, t)
BY DEF Walk!HideMenu, Walk!Page, SameWalk, SameFingers, SameRemote

LEMMA OverlayHides ==
  ASSUME NEW s \in Walk!Page
  PROVE  LET t == Walk!HideResumeOverlay(s)
         IN  /\ t \in Walk!Page /\ ~t.overlay /\ t.menu = s.menu
             /\ SameWalk(s, t) /\ SameFingers(s, t) /\ SameRemote(s, t)
BY DEF Walk!HideResumeOverlay, Walk!Page, SameWalk, SameFingers, SameRemote

LEMMA FingersReleased ==
  ASSUME NEW s \in Walk!Page
  PROVE  LET t == Walk!ReleaseTouchInput(s)
         IN  /\ t \in Walk!Page /\ ~t.stick /\ ~t.moveY /\ ~t.look
             /\ SameWalk(s, t) /\ SamePanels(s, t) /\ SameRemote(s, t)
BY DEF Walk!ReleaseTouchInput, Walk!Page, SameWalk, SamePanels, SameRemote

Same(s, t) ==
  /\ SameWalk(s, t) /\ SamePanels(s, t) /\ SameFingers(s, t) /\ SameRemote(s, t)

LEMMA TogglesSet ==
  ASSUME NEW s \in Walk!Page, NEW on \in BOOLEAN
  PROVE  /\ Walk!CrouchTo(s, on) \in Walk!Page /\ Same(s, Walk!CrouchTo(s, on))
         /\ Walk!SprintTo(s, on) \in Walk!Page /\ Same(s, Walk!SprintTo(s, on))
<1>1. Walk!CrouchTo(s, on) \in Walk!Page /\ Same(s, Walk!CrouchTo(s, on))
  BY ZenonT(30) DEF Walk!CrouchTo, Walk!Page, Same, SameWalk, SamePanels, SameFingers,
                  SameRemote
<1>2. Walk!SprintTo(s, on) \in Walk!Page /\ Same(s, Walk!SprintTo(s, on))
  BY ZenonT(30) DEF Walk!SprintTo, Walk!Page, Same, SameWalk, SamePanels, SameFingers,
                  SameRemote
<1> QED BY <1>1, <1>2

LEMMA SameTransitive ==
  ASSUME NEW s, NEW t, NEW u, Same(s, t), Same(t, u)
  PROVE  Same(s, u)
BY DEF Same, SameWalk, SamePanels, SameFingers, SameRemote

LEMMA SameItself == \A s : Same(s, s)
BY DEF Same, SameWalk, SamePanels, SameFingers, SameRemote

LEMMA TogglesClicked ==
  ASSUME NEW s \in Walk!Page
  PROVE  /\ Walk!ClickCrouch(s) \in Walk!Page /\ Same(s, Walk!ClickCrouch(s))
         /\ Walk!ClickSprint(s) \in Walk!Page /\ Same(s, Walk!ClickSprint(s))
<1>1. (~s.ariaCrouch) \in BOOLEAN /\ (~s.ariaSprint) \in BOOLEAN
  OBVIOUS
<1>2. PICK c \in BOOLEAN : c = ~s.ariaCrouch
  BY <1>1
<1>3. PICK p \in BOOLEAN : p = ~s.ariaSprint
  BY <1>1
<1> DEFINE t == Walk!CrouchTo(s, c)
           u == Walk!SprintTo(s, p)
<1>4. t \in Walk!Page /\ Same(s, t) /\ u \in Walk!Page /\ Same(s, u)
  BY TogglesSet
<1>5. Walk!ClickCrouch(s) = IF c /\ t.ariaSprint THEN Walk!SprintTo(t, FALSE) ELSE t
  BY <1>2 DEF Walk!ClickCrouch
<1>6. Walk!ClickSprint(s) = IF p /\ u.ariaCrouch THEN Walk!CrouchTo(u, FALSE) ELSE u
  BY <1>3 DEF Walk!ClickSprint
<1> HIDE DEF t, u
<1>7. Walk!SprintTo(t, FALSE) \in Walk!Page /\ Same(t, Walk!SprintTo(t, FALSE))
  BY <1>4, TogglesSet
<1>8. Walk!CrouchTo(u, FALSE) \in Walk!Page /\ Same(u, Walk!CrouchTo(u, FALSE))
  BY <1>4, TogglesSet
<1>9. Same(s, Walk!SprintTo(t, FALSE)) /\ Same(s, Walk!CrouchTo(u, FALSE))
  BY <1>4, <1>7, <1>8, SameTransitive
<1> QED BY <1>4, <1>5, <1>6, <1>7, <1>8, <1>9

LEMMA TogglesReset ==
  ASSUME NEW s \in Walk!Page
  PROVE  /\ Walk!ResetTouchToggles(s) \in Walk!Page
         /\ Same(s, Walk!ResetTouchToggles(s))
<1>1. PICK t : t = IF s.ariaCrouch THEN Walk!ClickCrouch(s) ELSE s
  OBVIOUS
<1>2. t \in Walk!Page /\ Same(s, t)
  BY <1>1, TogglesClicked, SameItself
<1>3. PICK u : u = IF s.ariaSprint THEN Walk!ClickSprint(t) ELSE t
  OBVIOUS
<1>4. u \in Walk!Page /\ Same(t, u)
  BY <1>2, <1>3, TogglesClicked, SameItself
<1>5. Same(s, u)
  BY <1>2, <1>4, SameTransitive
<1>6. u = Walk!ResetTouchToggles(s)
  BY <1>1, <1>3 DEF Walk!ResetTouchToggles
<1> QED BY <1>4, <1>5, <1>6

LEMMA MenuShows ==
  ASSUME NEW s, WalkRight(s), s.walkMode
  PROVE  /\ WalkRight(Walk!ShowMenu(s)) /\ SameWalk(s, Walk!ShowMenu(s))
         /\ Walk!ShowMenu(s).menu
<1>1. CASE s.menu
  BY <1>1, SameItself DEF Walk!ShowMenu, Same
<1>2. CASE ~s.menu
  <2> DEFINE t == [s EXCEPT !.menu = TRUE, !.settings = FALSE, !.overlay = FALSE]
             u == Walk!ReleaseTouchInput(t)
  <2>1. t \in Walk!Page /\ t.menu /\ ~t.overlay /\ SameWalk(s, t) /\ SameRemote(s, t)
    BY DEF WalkRight, Walk!Page, SameWalk, SameRemote
  <2>2. u = Walk!ShowMenu(s)
    BY <1>2 DEF Walk!ShowMenu
  <2> HIDE DEF t
  <2>3. /\ u \in Walk!Page /\ ~u.stick /\ ~u.moveY /\ ~u.look
        /\ SameWalk(t, u) /\ SamePanels(t, u) /\ SameRemote(t, u)
    BY <2>1, FingersReleased
  <2> HIDE DEF u
  <2>4. SameWalk(s, u) /\ u.menu /\ ~u.overlay /\ SameRemote(s, u)
    BY <2>1, <2>3 DEF SameWalk, SamePanels, SameRemote
  <2>5. WalkRight(u)
    BY <2>3, <2>4 DEF WalkRight, SameWalk, SameRemote
  <2> QED BY <2>2, <2>4, <2>5
<1> QED BY <1>1, <1>2 DEF WalkRight, Walk!Page

LEMMA MenuHidesRight ==
  ASSUME NEW s, WalkRight(s)
  PROVE  /\ WalkRight(Walk!HideMenu(s)) /\ SameWalk(s, Walk!HideMenu(s))
         /\ WalkRight(Walk!HideResumeOverlay(s))
         /\ SameWalk(s, Walk!HideResumeOverlay(s))
         /\ ~Walk!HideMenu(s).menu /\ Walk!HideResumeOverlay(s).menu = s.menu
<1>1. s \in Walk!Page
  BY DEF WalkRight
<1>2. PICK t : t = Walk!HideMenu(s)
  OBVIOUS
<1>3. /\ t \in Walk!Page /\ ~t.menu /\ t.overlay = s.overlay
      /\ SameWalk(s, t) /\ SameFingers(s, t) /\ SameRemote(s, t)
  BY <1>1, <1>2, MenuHides
<1>4. PICK u : u = Walk!HideResumeOverlay(s)
  OBVIOUS
<1>5. /\ u \in Walk!Page /\ ~u.overlay /\ u.menu = s.menu
      /\ SameWalk(s, u) /\ SameFingers(s, u) /\ SameRemote(s, u)
  BY <1>1, <1>4, OverlayHides
<1>6. WalkRight(t)
  BY <1>3 DEF WalkRight, SameWalk, SameFingers, SameRemote
<1>7. WalkRight(u)
  BY <1>5 DEF WalkRight, SameWalk, SameFingers, SameRemote
<1> QED BY <1>2, <1>3, <1>4, <1>5, <1>6, <1>7

LEMMA OverlayShows ==
  ASSUME NEW s, WalkRight(s)
  PROVE  /\ WalkRight(Walk!ShowResumeOverlay(s))
         /\ SameWalk(s, Walk!ShowResumeOverlay(s))
         /\ Walk!ShowResumeOverlay(s).menu => s.menu
         /\ InHand(s) => InHand(Walk!ShowResumeOverlay(s))
<1>1. CASE ~s.walkMode
  BY <1>1, SameItself DEF Walk!ShowResumeOverlay, Same
<1>2. CASE s.walkMode
  <2>1. PICK t : t = Walk!HideMenu(s)
    OBVIOUS
  <2>2. WalkRight(t) /\ ~t.menu /\ SameWalk(s, t)
    BY <2>1, MenuHidesRight
  <2> DEFINE u == [t EXCEPT !.overlay = TRUE]
  <2>3. u = Walk!ShowResumeOverlay(s)
    BY <1>2, <2>1 DEF Walk!ShowResumeOverlay
  <2>4. u \in Walk!Page /\ u.overlay /\ SameWalk(t, u) /\ u.menu = t.menu
        /\ SameFingers(t, u) /\ SameRemote(t, u)
    BY <2>2 DEF WalkRight, Walk!Page, SameWalk, SameFingers, SameRemote
  <2> HIDE DEF u
  <2>5. SameWalk(s, u)
    BY <2>2, <2>4 DEF SameWalk
  <2>6. WalkRight(u)
    BY <1>2, <2>2, <2>4, <2>5 DEF WalkRight, SameWalk, SameFingers, SameRemote
  <2>7. t.held = s.held /\ t.remote = s.remote /\ t.firstPerson = s.firstPerson
    BY <2>1 DEF WalkRight, Walk!HideMenu, Walk!Page
  <2>8. u.held = t.held /\ u.remote = t.remote /\ u.firstPerson = t.firstPerson
    BY <2>2 DEF WalkRight, Walk!Page, u
  <2> QED BY <2>2, <2>3, <2>4, <2>5, <2>6, <2>7, <2>8 DEF InHand
<1> QED BY <1>1, <1>2 DEF WalkRight, Walk!Page

LEMMA RemoteMoves ==
  ASSUME NEW s, WalkRight(s)
  PROVE  /\ WalkRight(Walk!StowRemote(s)) /\ SameWalk(s, Walk!StowRemote(s))
         /\ Walk!StowRemote(s).menu = s.menu
         /\ WalkRight(Walk!Detach(s)) /\ SameWalk(s, Walk!Detach(s))
         /\ Walk!Detach(s).menu = s.menu
         /\ WalkRight(Walk!SwitchViewToRemote(s))
         /\ SameWalk(s, Walk!SwitchViewToRemote(s))
         /\ Walk!SwitchViewToRemote(s).menu = s.menu
<1>0. s \in Walk!Page
  BY DEF WalkRight
<1>1. /\ WalkRight(Walk!StowRemote(s)) /\ SameWalk(s, Walk!StowRemote(s))
      /\ Walk!StowRemote(s).menu = s.menu
  <2>1. CASE ~s.held
    BY <2>1, SameItself DEF Walk!StowRemote, Same
  <2>2. CASE s.held
    <3> DEFINE t == [s EXCEPT !.remote = "floor", !.held = FALSE, !.listed = TRUE]
    <3>1. /\ t \in Walk!Page /\ t.listed /\ ~t.held /\ SameWalk(s, t)
          /\ SamePanels(s, t) /\ SameFingers(s, t)
      BY <1>0 DEF Walk!Page, SameWalk, SamePanels, SameFingers
    <3>2. t = Walk!StowRemote(s)
      BY <2>2 DEF Walk!StowRemote
    <3> HIDE DEF t
    <3>3. WalkRight(t)
      BY <3>1 DEF WalkRight, SameWalk, SamePanels, SameFingers
    <3> QED BY <3>1, <3>2, <3>3 DEF SamePanels
  <2> QED BY <2>1, <2>2 DEF WalkRight, Walk!Page
<1> DEFINE Moved(t) == /\ t \in Walk!Page /\ SameWalk(s, t) /\ SamePanels(s, t)
                       /\ SameFingers(s, t) /\ t.held = s.held
                       /\ t.listed = s.listed /\ t.focus = s.focus
<1>2. ASSUME NEW t, Moved(t), t.remote = "floor" => s.remote = "floor",
             ~t.firstPerson \/ t.remote = "holder"
      PROVE  WalkRight(t) /\ SameWalk(s, t) /\ t.menu = s.menu
  BY <1>2 DEF WalkRight, SameWalk, SamePanels, SameFingers
<1>3. WalkRight(Walk!Detach(s)) /\ SameWalk(s, Walk!Detach(s))
      /\ Walk!Detach(s).menu = s.menu
  <2> DEFINE r == IF s.remote = "holder" THEN "stand" ELSE s.remote
             t == [s EXCEPT !.firstPerson = FALSE, !.remote = r]
  <2>1. r \in {"stand", "floor", "holder"} /\ (r = "floor" => s.remote = "floor")
    BY <1>0 DEF Walk!Page
  <2>2. t = Walk!Detach(s)
    BY DEF Walk!Detach
  <2> HIDE DEF r
  <2>3. Moved(t) /\ ~t.firstPerson /\ t.remote = r
    BY <1>0, <2>1 DEF Walk!Page, SameWalk, SamePanels, SameFingers
  <2> HIDE DEF t, Moved
  <2> QED BY <1>2, <2>1, <2>2, <2>3
<1>4. /\ WalkRight(Walk!SwitchViewToRemote(s))
      /\ SameWalk(s, Walk!SwitchViewToRemote(s))
      /\ Walk!SwitchViewToRemote(s).menu = s.menu
  <2> DEFINE t == [s EXCEPT !.firstPerson = TRUE, !.remote = "holder"]
  <2>1. Moved(t) /\ t.remote = "holder"
    BY <1>0 DEF Walk!Page, SameWalk, SamePanels, SameFingers
  <2>2. Walk!SwitchViewToRemote(s) = IF s.firstPerson THEN Walk!Detach(s) ELSE t
    BY DEF Walk!SwitchViewToRemote
  <2> HIDE DEF t, Moved
  <2>3. WalkRight(t) /\ SameWalk(s, t) /\ t.menu = s.menu
    BY <1>2, <2>1
  <2> QED BY <1>0, <1>3, <2>2, <2>3 DEF Walk!Page
<1> QED BY <1>1, <1>3, <1>4

LEMMA RemoteDrawn ==
  ASSUME NEW s, WalkRight(s)
  PROVE  /\ WalkRight(Walk!DrawRemote(s)) /\ SameWalk(s, Walk!DrawRemote(s))
         /\ Walk!DrawRemote(s).menu = s.menu
         /\ s.remote = "holder" /\ s.firstPerson => InHand(Walk!DrawRemote(s))
<1>1. CASE s.held
  BY <1>1, SameItself DEF Walk!DrawRemote, Same, InHand
<1>2. CASE ~s.held
  <2> DEFINE t == [s EXCEPT !.listed = FALSE, !.remote = "holder", !.held = TRUE,
                            !.focus = "nothing"]
  <2>1. /\ t \in Walk!Page /\ ~t.listed /\ t.held /\ t.focus = "nothing"
        /\ t.remote = "holder" /\ t.firstPerson = s.firstPerson
        /\ SameWalk(s, t) /\ SamePanels(s, t) /\ SameFingers(s, t)
    <3>1. s \in Walk!Page /\ "nothing" \in Walk!InView
      BY DEF WalkRight, Walk!InView
    <3> QED BY <3>1 DEF Walk!Page, SameWalk, SamePanels, SameFingers
  <2>2. t = Walk!DrawRemote(s)
    BY <1>2 DEF Walk!DrawRemote
  <2> HIDE DEF t
  <2>3. WalkRight(t)
    <3>1. t.listed = ~t.held /\ t.focus # "remote"
      BY <2>1 DEF Walk!Page
    <3> QED BY <2>1, <3>1 DEF WalkRight, SameWalk, SamePanels, SameFingers
  <2> QED BY <2>1, <2>2, <2>3 DEF InHand, SamePanels
<1> QED BY <1>1, <1>2 DEF WalkRight, Walk!Page

-----------------------------------------------------------------------------
(* Beginning and leaving a walk.                                           *)

LEMMA WalkBegins ==
  ASSUME NEW s, WalkRight(s), NEW l \in BOOLEAN
  PROVE  LET t == Walk!BeginWalk(s, l)
         IN  /\ WalkRight(t) /\ t.walkMode /\ t.exitRequested = s.exitRequested
             /\ t.move => s.move
             /\ t.shift = s.shift
             /\ t.menu => s.menu
             /\ ~s.walkMode => InHand(t)
<1>0. s \in Walk!Page
  BY DEF WalkRight
<1>1. CASE s.walkMode
  BY <1>1 DEF Walk!BeginWalk
<1>2. CASE ~s.walkMode
  <2> DEFINE a == [s EXCEPT !.walkMode = TRUE, !.move = FALSE, !.firstPerson = TRUE,
                            !.remote = "holder"]
             b == [a EXCEPT !.usingLock = l]
             c == Walk!HideResumeOverlay(b)
             d == Walk!DrawRemote(c)
  <2>1. /\ a \in Walk!Page /\ a.walkMode /\ ~a.move
        /\ a.exitRequested = s.exitRequested /\ a.shift = s.shift
        /\ a.firstPerson /\ a.remote = "holder"
        /\ SamePanels(s, a) /\ SameFingers(s, a)
        /\ a.held = s.held /\ a.listed = s.listed /\ a.focus = s.focus
    BY <1>0 DEF Walk!Page, SamePanels, SameFingers
  <2> HIDE DEF a
  <2>2. /\ b \in Walk!Page /\ SameWalk(a, b) /\ b.firstPerson = a.firstPerson
        /\ b.remote = a.remote
        /\ SamePanels(a, b) /\ SameFingers(a, b) /\ SameRemote(a, b)
    BY <2>1 DEF Walk!Page, SameWalk, SamePanels, SameFingers, SameRemote
  <2> HIDE DEF b
  <2>3. WalkRight(b)
    BY <1>2, <2>1, <2>2
       DEF WalkRight, SameWalk, SamePanels, SameFingers, SameRemote
  <2>4. WalkRight(c) /\ SameWalk(b, c) /\ c.menu = b.menu
    BY <2>3, MenuHidesRight
  <2>5. c.remote = b.remote /\ c.firstPerson = b.firstPerson
    BY <2>2 DEF Walk!HideResumeOverlay, Walk!Page
  <2> HIDE DEF c
  <2>6. WalkRight(d) /\ SameWalk(c, d) /\ d.menu = c.menu /\ InHand(d)
    BY <2>1, <2>2, <2>4, <2>5, RemoteDrawn
  <2>7. d = Walk!BeginWalk(s, l)
    BY <1>2 DEF Walk!BeginWalk, Walk!InteractEnter, Walk!HudEnter, a, b, c
  <2> HIDE DEF d
  <2> QED BY <1>2, <2>1, <2>2, <2>4, <2>6, <2>7 DEF SameWalk, SamePanels
<1> QED BY <1>0, <1>1, <1>2 DEF Walk!Page

LEMMA WalkLeft ==
  ASSUME NEW s, WalkRight(s), ~s.exitRequested
  PROVE  LET t == Walk!LeaveWalk(s)
         IN  /\ WalkRight(t) /\ ~t.walkMode /\ ~t.exitRequested /\ ~t.move
             /\ t.shift => s.shift
             /\ ~t.menu
<1>0. s \in Walk!Page
  BY DEF WalkRight
<1> DEFINE a == [s EXCEPT !.walkMode = FALSE, !.move = FALSE]
<1>1. /\ a \in Walk!Page /\ ~a.walkMode /\ ~a.move /\ ~a.exitRequested
      /\ a.shift = s.shift
      /\ SamePanels(s, a) /\ SameFingers(s, a) /\ SameRemote(s, a)
  BY <1>0 DEF Walk!Page, SamePanels, SameFingers, SameRemote
<1>2. Walk!LeaveWalk(s) = IF s.walkMode THEN Walk!MoveExit(Walk!HudExit(a)) ELSE a
  BY DEF Walk!LeaveWalk
<1> HIDE DEF a
<1>3. CASE s.walkMode
  <2> DEFINE b == Walk!HideMenu(a)
             c == Walk!HideResumeOverlay(b)
             d == Walk!ReleaseTouchInput(c)
             e == Walk!ResetTouchToggles(d)
             f == Walk!MoveExit(e)
  <2>1. b \in Walk!Page /\ ~b.menu /\ SameWalk(a, b) /\ SameRemote(a, b)
    BY <1>1, MenuHides
  <2> HIDE DEF b
  <2>2. /\ c \in Walk!Page /\ ~c.menu /\ ~c.overlay
        /\ SameWalk(b, c) /\ SameRemote(b, c)
    <3>1. c.menu = b.menu
      BY <2>1, OverlayHides
    <3> QED BY <2>1, <3>1, OverlayHides
  <2> HIDE DEF c
  <2>3. /\ d \in Walk!Page /\ ~d.stick /\ ~d.moveY /\ ~d.look
        /\ SameWalk(c, d) /\ SamePanels(c, d) /\ SameRemote(c, d)
    BY <2>2, FingersReleased
  <2> HIDE DEF d
  <2>4. e \in Walk!Page /\ Same(d, e)
    BY <2>3, TogglesReset
  <2> HIDE DEF e
  <2>5. /\ f \in Walk!Page /\ ~f.moveY /\ ~f.shift
        /\ f.walkMode = e.walkMode /\ f.exitRequested = e.exitRequested
        /\ f.move = e.move /\ f.stick = e.stick /\ f.look = e.look
        /\ SamePanels(e, f) /\ SameRemote(e, f)
    BY <2>4 DEF Walk!MoveExit, Walk!Page, SamePanels, SameRemote
  <2>6. f = Walk!LeaveWalk(s)
    BY <1>2, <1>3 DEF Walk!HudExit, b, c, d, e
  <2> HIDE DEF f
  <2>7. ~f.walkMode /\ ~f.exitRequested /\ ~f.move
    BY <1>1, <2>1, <2>2, <2>3, <2>4, <2>5 DEF Same, SameWalk
  <2>8. ~f.menu /\ ~f.overlay /\ ~f.stick /\ ~f.moveY /\ ~f.look
    BY <2>2, <2>3, <2>4, <2>5 DEF Same, SamePanels, SameFingers
  <2>9. SameRemote(s, f)
    BY <1>1, <2>1, <2>2, <2>3, <2>4, <2>5 DEF Same, SameRemote
  <2>10. WalkRight(f)
    BY <2>5, <2>7, <2>8, <2>9 DEF WalkRight, SameRemote
  <2> QED BY <2>5, <2>6, <2>7, <2>8, <2>10
<1>4. CASE ~s.walkMode
  <2>1. WalkRight(a)
    BY <1>1, <1>4 DEF WalkRight, SamePanels, SameFingers, SameRemote
  <2>2. ~a.menu
    BY <2>1, <1>1 DEF WalkRight
  <2> QED BY <1>1, <1>2, <1>4, <2>1, <2>2
<1> QED BY <1>0, <1>3, <1>4 DEF Walk!Page

LEMMA LockComes ==
  ASSUME NEW s, WalkRight(s)
  PROVE  LET t == Walk!OnLocked(s)
         IN  /\ WalkRight(t) /\ t.walkMode /\ t.exitRequested = s.exitRequested
             /\ t.move => s.move
             /\ t.shift = s.shift
             /\ ~t.menu
             /\ ~s.walkMode => InHand(t)
<1> DEFINE a == Walk!HideMenu(s)
           b == Walk!HideResumeOverlay(a)
           c == Walk!BeginWalk(b, TRUE)
<1>1. WalkRight(a) /\ SameWalk(s, a) /\ ~a.menu
  BY MenuHidesRight
<1> HIDE DEF a
<1>2. WalkRight(b) /\ SameWalk(a, b) /\ b.menu = a.menu
  BY <1>1, MenuHidesRight
<1> HIDE DEF b
<1>3. /\ WalkRight(c) /\ c.walkMode /\ c.exitRequested = b.exitRequested
      /\ c.move => b.move
      /\ c.shift = b.shift
      /\ c.menu => b.menu
      /\ ~b.walkMode => InHand(c)
  BY <1>2, WalkBegins
<1>4. c = Walk!OnLocked(s)
  BY DEF Walk!OnLocked, a, b
<1> HIDE DEF c
<1> QED BY <1>1, <1>2, <1>3, <1>4 DEF SameWalk

LEMMA LockGoes ==
  ASSUME NEW s, WalkRight(s), NEW f \in BOOLEAN
  PROVE  LET t == Walk!OnUnlocked(s, f)
         IN  /\ WalkRight(t) /\ ~t.exitRequested /\ ~t.move
             /\ t.shift => s.shift
             /\ t.walkMode => s.walkMode /\ ~s.exitRequested
<1>0. s \in Walk!Page
  BY DEF WalkRight
<1> DEFINE a == [s EXCEPT !.exitRequested = FALSE]
<1>1. /\ a \in Walk!Page /\ ~a.exitRequested /\ a.walkMode = s.walkMode
      /\ a.move = s.move /\ a.shift = s.shift
      /\ SamePanels(s, a) /\ SameFingers(s, a) /\ SameRemote(s, a)
  BY <1>0 DEF Walk!Page, SamePanels, SameFingers, SameRemote
<1>2. Walk!OnUnlocked(s, f) =
        IF ~s.exitRequested /\ s.walkMode
        THEN [Walk!OnPointerLockLost(a, f) EXCEPT !.move = FALSE]
        ELSE Walk!LeaveWalk(a)
  BY DEF Walk!OnUnlocked
<1> HIDE DEF a
<1>3. WalkRight(a)
  BY <1>1 DEF WalkRight, SamePanels, SameFingers, SameRemote
<1>4. CASE ~s.exitRequested /\ s.walkMode
  <2> DEFINE b == Walk!OnPointerLockLost(a, f)
             c == [b EXCEPT !.move = FALSE]
  <2>1. WalkRight(b) /\ SameWalk(a, b)
    BY <1>1, <1>3, <1>4, MenuShows, OverlayShows DEF Walk!OnPointerLockLost
  <2> HIDE DEF b
  <2>2. /\ c \in Walk!Page /\ ~c.move /\ c.walkMode = b.walkMode
        /\ c.exitRequested = b.exitRequested /\ c.shift = b.shift
        /\ SamePanels(b, c) /\ SameFingers(b, c) /\ SameRemote(b, c)
    BY <2>1 DEF WalkRight, Walk!Page, SamePanels, SameFingers, SameRemote
  <2>3. c = Walk!OnUnlocked(s, f)
    BY <1>2, <1>4 DEF b
  <2> HIDE DEF c
  <2>4. WalkRight(c)
    BY <2>1, <2>2 DEF WalkRight, SamePanels, SameFingers, SameRemote
  <2> QED BY <1>1, <1>4, <2>1, <2>2, <2>3, <2>4 DEF SameWalk
<1>5. CASE ~(~s.exitRequested /\ s.walkMode)
  BY <1>1, <1>2, <1>3, <1>5, WalkLeft
<1> QED BY <1>4, <1>5

LEMMA LockFails ==
  ASSUME NEW s, WalkRight(s)
  PROVE  LET t == Walk!OnLockError(s)
         IN  /\ WalkRight(t) /\ t.walkMode /\ t.exitRequested = s.exitRequested
             /\ t.move => s.move
             /\ t.shift = s.shift
             /\ t.menu => s.menu
             /\ ~s.walkMode => InHand(t)
<1>0. s \in Walk!Page
  BY DEF WalkRight
<1>1. CASE s.walkMode
  <2>1. Walk!OnLockError(s) = Walk!ShowResumeOverlay(s)
    BY <1>1 DEF Walk!OnLockError
  <2> QED BY <1>1, <2>1, OverlayShows DEF SameWalk
<1>2. CASE ~s.walkMode
  <2>1. Walk!OnLockError(s) = Walk!BeginWalk(s, FALSE)
    BY <1>2 DEF Walk!OnLockError
  <2> DEFINE t == Walk!BeginWalk(s, FALSE)
  <2>2. /\ WalkRight(t) /\ t.walkMode /\ t.exitRequested = s.exitRequested
        /\ t.move => s.move
        /\ t.shift = s.shift
        /\ t.menu => s.menu
        /\ ~s.walkMode => InHand(t)
    BY WalkBegins
  <2> HIDE DEF t
  <2>3. t = Walk!OnLockError(s)
    BY <2>1 DEF t
  <2> QED BY <2>2, <2>3
<1> QED BY <1>0, <1>1, <1>2 DEF Walk!Page

-----------------------------------------------------------------------------
(***************************************************************************)
(* The inductive invariant: what is asked of the browser is under way, and *)
(* a key counts only while the window has the focus.                       *)
(***************************************************************************)
BrowserType == [locked : BOOLEAN, releasing : BOOLEAN, focused : BOOLEAN,
                pending : SUBSET Walk!Requests]
HandsType == [key : BOOLEAN, shift : BOOLEAN]

WalkInv ==
  /\ WalkRight(page)
  /\ browser \in BrowserType /\ hands \in HandsType
  /\ out \in {"press", "click", "nothing"}
  /\ page.exitRequested => browser.locked /\ browser.releasing
  /\ browser.locked => page.walkMode
  /\ page.move => hands.key /\ browser.focused
  /\ page.shift => hands.shift /\ browser.focused
  /\ page.menu => out # "press"

Entered == ~page.walkMode /\ page'.walkMode => InHand(page')

(* An exit asked for stays asked for until the walk is over.               *)
ExitKept == page.exitRequested => page'.exitRequested \/ ~page'.walkMode

WalkStep == WalkInv' /\ Entered /\ ExitKept

LEMMA WalkStarts == Walk!Init => WalkInv
<1> SUFFICES ASSUME Walk!Init PROVE WalkInv
  OBVIOUS
<1>1. PICK t \in BOOLEAN :
        page = [walkMode |-> FALSE, firstPerson |-> FALSE,
                exitRequested |-> FALSE, remote |-> "stand", held |-> TRUE,
                listed |-> FALSE, focus |-> "nothing", menu |-> FALSE,
                settings |-> FALSE, overlay |-> FALSE, usingLock |-> FALSE,
                touch |-> t, move |-> FALSE, shift |-> FALSE,
                crouch |-> FALSE, sprint |-> FALSE, ariaSprint |-> FALSE,
                ariaCrouch |-> FALSE, stick |-> FALSE, moveY |-> FALSE,
                look |-> FALSE]
  BY DEF Walk!Init
<1>2. page \in Walk!Page
  BY <1>1 DEF Walk!Page, Walk!InView
<1>3. WalkRight(page)
  BY <1>1, <1>2 DEF WalkRight
<1> QED BY <1>1, <1>3 DEF Walk!Init, WalkInv, BrowserType, HandsType

(* Most handlers change neither the walk nor what the browser holds.       *)
LEMMA PageStep ==
  ASSUME WalkInv, WalkRight(page'), SameWalk(page, page'),
         browser' \in BrowserType, browser'.locked = browser.locked,
         browser'.focused = browser.focused, browser'.releasing = browser.releasing,
         UNCHANGED hands,
         out' \in {"press", "click", "nothing"}, page'.menu => out' # "press"
  PROVE  WalkStep
BY DEF WalkStep, WalkInv, Entered, ExitKept, SameWalk

LEMMA HandlerStep ==
  ASSUME WalkInv, WalkRight(page'), SameWalk(page, page'), UNCHANGED <<browser, hands>>,
         out' \in {"press", "click", "nothing"}, page'.menu => out' # "press"
  PROVE  WalkStep
BY PageStep DEF WalkInv

LEMMA GrantStep ==
  ASSUME WalkInv, NEW r \in Walk!Requests, Walk!Grant(r)
  PROVE  WalkStep
<1>1. /\ browser' \in BrowserType /\ browser'.locked /\ browser'.focused
      /\ browser'.releasing = browser.releasing
      /\ hands' = hands /\ out' = "nothing" /\ page' = Walk!OnLocked(page)
  BY DEF Walk!Grant, WalkInv, BrowserType
<1>2. /\ WalkRight(page') /\ page'.walkMode
      /\ page'.exitRequested = page.exitRequested
      /\ page'.move => page.move
      /\ page'.shift = page.shift
      /\ ~page.walkMode => InHand(page')
  BY <1>1, LockComes DEF WalkInv
<1> QED BY <1>1, <1>2 DEF WalkStep, WalkInv, Entered, ExitKept

(* A walk that begins or goes on while the pointer is not locked.          *)
LEMMA OnStep ==
  ASSUME WalkInv, browser' \in BrowserType, browser'.locked = browser.locked,
         browser'.focused = browser.focused, browser'.releasing = browser.releasing,
         UNCHANGED hands, out' = "nothing",
         WalkRight(page'), page'.walkMode, page'.exitRequested = page.exitRequested,
         page'.move => page.move, page'.shift = page.shift,
         ~page.walkMode => InHand(page')
  PROVE  WalkStep
BY DEF WalkStep, WalkInv, Entered, ExitKept

LEMMA DenyStep ==
  ASSUME WalkInv, NEW r \in Walk!Requests, Walk!Deny(r)
  PROVE  WalkStep
<1>1. /\ browser' \in BrowserType /\ browser'.locked = browser.locked
      /\ browser'.focused = browser.focused
      /\ browser'.releasing = browser.releasing
      /\ hands' = hands /\ out' = "nothing"
  BY DEF Walk!Deny, WalkInv, BrowserType
<1>2. WalkRight(page)
  BY DEF WalkInv
<1> DEFINE a == Walk!OnLockError(page)
           b == Walk!ShowResumeOverlay(a)
           c == Walk!ShowResumeOverlay(page)
           d == Walk!OnLockError(c)
           Fine(t) == /\ WalkRight(t) /\ t.walkMode
                      /\ t.exitRequested = page.exitRequested
                      /\ t.move => page.move
                      /\ t.shift = page.shift
                      /\ ~page.walkMode => InHand(t)
<1>3. Fine(a)
  BY <1>2, LockFails
<1>4. WalkRight(b) /\ SameWalk(a, b) /\ (InHand(a) => InHand(b))
  <2>1. WalkRight(a)
    BY <1>3
  <2> HIDE DEF a
  <2> QED BY <2>1, OverlayShows
<1>5. Fine(b)
  <2> HIDE DEF a, b
  <2> QED BY <1>3, <1>4 DEF SameWalk
<1>6. WalkRight(c) /\ SameWalk(page, c)
  BY <1>2, OverlayShows
<1>7. Fine(d)
  <2> HIDE DEF c
  <2>1. /\ WalkRight(d) /\ d.walkMode
        /\ d.exitRequested = c.exitRequested
        /\ d.move => c.move
        /\ d.shift = c.shift
        /\ ~c.walkMode => InHand(d)
    BY <1>6, LockFails
  <2> HIDE DEF d
  <2> QED BY <1>6, <2>1 DEF SameWalk
<1>8. page' = a \/ page' = b \/ page' = d
  BY DEF Walk!Deny
<1> HIDE DEF a, b, c, d
<1>9. Fine(page')
  BY <1>3, <1>5, <1>7, <1>8
<1> QED BY <1>1, <1>9, OnStep

LEMMA UnlockedStep == ASSUME WalkInv, Walk!Unlocked PROVE WalkStep
<1>1. /\ browser' \in BrowserType /\ ~browser'.locked /\ ~browser'.releasing
      /\ browser'.focused = browser.focused /\ browser.focused \in BOOLEAN
      /\ hands' = hands /\ out' = "nothing"
      /\ page' = Walk!OnUnlocked(page, browser.focused)
  BY DEF Walk!Unlocked, WalkInv, BrowserType
<1>2. /\ WalkRight(page') /\ ~page'.exitRequested /\ ~page'.move
      /\ page'.shift => page.shift
      /\ page'.walkMode => page.walkMode /\ ~page.exitRequested
  BY <1>1, LockGoes DEF WalkInv
<1> QED BY <1>1, <1>2 DEF WalkStep, WalkInv, Entered, ExitKept

LEMMA BlurStep == ASSUME WalkInv, Walk!Blur PROVE WalkStep
<1>1. /\ browser' \in BrowserType /\ browser'.locked = browser.locked
      /\ browser'.releasing = browser.locked
      /\ hands' = hands /\ out' = "nothing"
  BY DEF Walk!Blur, WalkInv, BrowserType
<1>2. /\ page' \in Walk!Page /\ ~page'.move /\ ~page'.shift
      /\ page'.walkMode = page.walkMode /\ page'.exitRequested = page.exitRequested
      /\ SamePanels(page, page') /\ SameFingers(page, page')
      /\ SameRemote(page, page')
  BY DEF Walk!Blur, Walk!ClearedAtBlur, WalkInv, WalkRight, Walk!Page, SamePanels,
         SameFingers, SameRemote
<1>3. WalkRight(page')
  BY <1>2 DEF WalkInv, WalkRight, SamePanels, SameFingers, SameRemote
<1> QED BY <1>1, <1>2, <1>3 DEF WalkStep, WalkInv, Entered, ExitKept

LEMMA BrowserStep ==
  ASSUME WalkInv, Walk!UserUnlocks \/ Walk!Focus
  PROVE  WalkStep
<1>1. /\ browser' \in BrowserType /\ browser'.locked = browser.locked
      /\ browser.focused => browser'.focused
      /\ browser.releasing => browser'.releasing
  BY DEF Walk!UserUnlocks, Walk!Focus, WalkInv, BrowserType
<1>2. UNCHANGED <<page, hands>> /\ out' = "nothing"
  BY DEF Walk!UserUnlocks, Walk!Focus
<1> QED BY <1>1, <1>2 DEF WalkStep, WalkInv, Entered, ExitKept

(* The flag of a key of movement, and that of Shift.                       *)
LEMMA MoveSet ==
  ASSUME NEW s, WalkRight(s), NEW on \in BOOLEAN, on => s.walkMode
  PROVE  LET t == [s EXCEPT !.move = on]
         IN  /\ WalkRight(t) /\ t.move = on /\ t.shift = s.shift
             /\ t.walkMode = s.walkMode /\ t.exitRequested = s.exitRequested
             /\ t.menu = s.menu
<1> DEFINE t == [s EXCEPT !.move = on]
<1>1. s \in Walk!Page
  BY DEF WalkRight
<1>2. /\ t \in Walk!Page /\ t.move = on /\ t.shift = s.shift
      /\ t.walkMode = s.walkMode /\ t.exitRequested = s.exitRequested
      /\ SamePanels(s, t) /\ SameFingers(s, t) /\ SameRemote(s, t)
  BY <1>1 DEF Walk!Page, SamePanels, SameFingers, SameRemote
<1> HIDE DEF t
<1>3. WalkRight(t)
  BY <1>2 DEF WalkRight, SamePanels, SameFingers, SameRemote
<1> QED BY <1>2, <1>3 DEF t, SamePanels

LEMMA ShiftSet ==
  ASSUME NEW s, WalkRight(s), NEW on \in BOOLEAN
  PROVE  LET t == [s EXCEPT !.shift = on]
         IN  /\ WalkRight(t) /\ t.shift = on /\ t.move = s.move
             /\ t.walkMode = s.walkMode /\ t.exitRequested = s.exitRequested
             /\ t.menu = s.menu
<1> DEFINE t == [s EXCEPT !.shift = on]
<1>1. s \in Walk!Page
  BY DEF WalkRight
<1>2. /\ t \in Walk!Page /\ t.shift = on /\ t.move = s.move
      /\ t.walkMode = s.walkMode /\ t.exitRequested = s.exitRequested
      /\ SamePanels(s, t) /\ SameFingers(s, t) /\ SameRemote(s, t)
  BY <1>1 DEF Walk!Page, SamePanels, SameFingers, SameRemote
<1> HIDE DEF t
<1>3. WalkRight(t)
  BY <1>2 DEF WalkRight, SamePanels, SameFingers, SameRemote
<1> QED BY <1>2, <1>3 DEF t, SamePanels

LEMMA KeyStep ==
  ASSUME WalkInv, Walk!HoldKey \/ Walk!ReleaseKey
  PROVE  WalkStep
<1>0. WalkRight(page) /\ page \in Walk!Page
  BY DEF WalkInv, WalkRight
<1>1. PICK on \in BOOLEAN :
        /\ page' = [page EXCEPT !.move = on]
        /\ on => page.walkMode /\ hands'.key /\ browser.focused
  <2>1. CASE Walk!HoldKey
    <3> DEFINE o == page.move \/ (browser.focused /\ ~page.menu /\ page.walkMode)
    <3>1. page' = [page EXCEPT !.move = o]
      BY <2>1 DEF Walk!HoldKey, Walk!Keyboard, Walk!Walking
    <3>2. o => page.walkMode /\ browser.focused
      BY DEF WalkInv, WalkRight
    <3>3. hands'.key
      BY <2>1 DEF Walk!HoldKey, WalkInv, HandsType
    <3>4. o \in BOOLEAN
      OBVIOUS
    <3> HIDE DEF o
    <3> QED BY <3>1, <3>2, <3>3, <3>4
  <2>2. CASE Walk!ReleaseKey
    <3> DEFINE o == page.move /\ ~(browser.focused /\ page.walkMode)
    <3>1. page' = [page EXCEPT !.move = o]
      BY <2>2 DEF Walk!ReleaseKey, Walk!Walking
    <3>2. ~o
      BY DEF WalkInv, WalkRight
    <3>3. o \in BOOLEAN
      OBVIOUS
    <3> HIDE DEF o
    <3> QED BY <3>1, <3>2, <3>3
  <2> QED BY <2>1, <2>2
<1>2. /\ WalkRight(page') /\ page'.move = on /\ page'.shift = page.shift
      /\ page'.walkMode = page.walkMode /\ page'.exitRequested = page.exitRequested
  BY <1>0, <1>1, MoveSet
<1>3. hands' \in HandsType /\ hands'.shift = hands.shift
  BY DEF Walk!HoldKey, Walk!ReleaseKey, WalkInv, HandsType
<1>4. browser' = browser /\ out' = "nothing"
  BY DEF Walk!HoldKey, Walk!ReleaseKey
<1> QED BY <1>1, <1>2, <1>3, <1>4 DEF WalkStep, WalkInv, Entered, ExitKept

LEMMA ShiftStep ==
  ASSUME WalkInv, Walk!HoldShift \/ Walk!ReleaseShift
  PROVE  WalkStep
<1>0. WalkRight(page) /\ page \in Walk!Page
  BY DEF WalkInv, WalkRight
<1>1. PICK on \in BOOLEAN :
        /\ page' = [page EXCEPT !.shift = on]
        /\ on => hands'.shift /\ browser.focused
  <2>1. CASE Walk!HoldShift
    <3> DEFINE o == page.shift \/ (browser.focused /\ ~page.menu /\ page.walkMode)
    <3>1. page' = [page EXCEPT !.shift = o]
      BY <2>1 DEF Walk!HoldShift, Walk!Keyboard, Walk!Walking
    <3>2. o => browser.focused
      BY DEF WalkInv
    <3>3. hands'.shift
      BY <2>1 DEF Walk!HoldShift, WalkInv, HandsType
    <3>4. o \in BOOLEAN
      OBVIOUS
    <3> HIDE DEF o
    <3> QED BY <3>1, <3>2, <3>3, <3>4
  <2>2. CASE Walk!ReleaseShift
    <3> DEFINE o == page.shift /\ ~browser.focused
    <3>1. page' = [page EXCEPT !.shift = o]
      BY <2>2 DEF Walk!ReleaseShift
    <3>2. ~o
      BY DEF WalkInv
    <3>3. o \in BOOLEAN
      OBVIOUS
    <3> HIDE DEF o
    <3> QED BY <3>1, <3>2, <3>3
  <2> QED BY <2>1, <2>2
<1>2. /\ WalkRight(page') /\ page'.shift = on /\ page'.move = page.move
      /\ page'.walkMode = page.walkMode /\ page'.exitRequested = page.exitRequested
  BY <1>0, <1>1, ShiftSet
<1>3. hands' \in HandsType /\ hands'.key = hands.key
  BY DEF Walk!HoldShift, Walk!ReleaseShift, WalkInv, HandsType
<1>4. browser' = browser /\ out' = "nothing"
  BY DEF Walk!HoldShift, Walk!ReleaseShift
<1> QED BY <1>1, <1>2, <1>3, <1>4 DEF WalkStep, WalkInv, Entered, ExitKept

(* A handler that leaves alone what the invariant speaks of.               *)
LEMMA SameRight ==
  ASSUME NEW s, WalkRight(s), NEW t \in Walk!Page, Same(s, t)
  PROVE  WalkRight(t) /\ SameWalk(s, t) /\ t.menu = s.menu
BY DEF WalkRight, Same, SameWalk, SamePanels, SameFingers, SameRemote

LEMMA WalkKeys ==
  ASSUME WalkInv,
         \/ Walk!KeyC \/ Walk!KeyR \/ Walk!UseFocused \/ Walk!KeyPress
         \/ Walk!KeyView \/ Walk!Escape
  PROVE  WalkStep
<1>0. WalkRight(page) /\ page \in Walk!Page
  BY DEF WalkInv, WalkRight
<1>1. CASE Walk!KeyC
  <2>1. PICK c \in BOOLEAN, p \in BOOLEAN :
          page' = [page EXCEPT !.crouch = c, !.sprint = p]
    BY <1>1 DEF Walk!KeyC
  <2>1a. page' \in Walk!Page /\ Same(page, page')
    BY <1>0, <2>1, ZenonT(30)
       DEF Walk!Page, Same, SameWalk, SamePanels, SameFingers, SameRemote
  <2> QED BY <1>0, <1>1, <2>1a, SameRight, HandlerStep DEF Walk!KeyC
<1>2. CASE Walk!KeyR
  <2>1. WalkRight(page') /\ SameWalk(page, page')
    BY <1>0, <1>2, RemoteMoves, RemoteDrawn DEF Walk!KeyR
  <2> QED BY <1>2, <2>1, HandlerStep DEF Walk!KeyR
<1>3. CASE Walk!UseFocused
  <2>1. CASE page' = Walk!DrawRemote(page) /\ out' = "nothing"
    BY <1>0, <1>3, <2>1, RemoteDrawn, HandlerStep DEF Walk!UseFocused
  <2>2. CASE UNCHANGED page /\ out' = "press"
    <3>1. ~page'.menu /\ SameWalk(page, page')
      BY <1>3, <2>2 DEF Walk!UseFocused, Walk!Keyboard, SameWalk
    <3> QED BY <1>0, <1>3, <2>2, <3>1, HandlerStep DEF Walk!UseFocused
  <2> QED BY <1>3, <2>1, <2>2 DEF Walk!UseFocused
<1>4. CASE Walk!KeyPress
  <2>1. ~page'.menu /\ SameWalk(page, page') /\ page' = page /\ out' = "press"
    BY <1>4 DEF Walk!KeyPress, Walk!Keyboard, SameWalk
  <2> QED BY <1>0, <1>4, <2>1, HandlerStep DEF Walk!KeyPress
<1>5. CASE Walk!KeyView
  <2>1. WalkRight(page') /\ SameWalk(page, page')
    BY <1>0, <1>5, RemoteMoves DEF Walk!KeyView
  <2> QED BY <1>5, <2>1, HandlerStep DEF Walk!KeyView
<1>6. CASE Walk!Escape
  <2>1. WalkRight(page') /\ SameWalk(page, page')
    BY <1>0, <1>6, MenuShows DEF Walk!Escape, Walk!Walking
  <2> QED BY <1>6, <2>1, HandlerStep DEF Walk!Escape
<1> QED BY <1>1, <1>2, <1>3, <1>4, <1>5, <1>6

LEMMA WalkMenus ==
  ASSUME WalkInv,
         \/ Walk!Enter \/ Walk!Resume \/ Walk!MenuView \/ Walk!ClickOverlay
  PROVE  WalkStep
<1>0. WalkRight(page) /\ page \in Walk!Page /\ browser \in BrowserType
  BY DEF WalkInv, WalkRight
<1>1. CASE Walk!Enter
  <2>1. CASE page' = Walk!BeginWalk(page, browser.locked) /\ UNCHANGED browser
    <3>1. browser.locked \in BOOLEAN
      BY <1>0 DEF BrowserType
    <3>2. /\ WalkRight(page') /\ page'.walkMode
          /\ page'.exitRequested = page.exitRequested
          /\ page'.move => page.move
          /\ page'.shift = page.shift
          /\ ~page.walkMode => InHand(page')
      BY <1>0, <2>1, <3>1, WalkBegins
    <3> QED BY <1>0, <1>1, <2>1, <3>2, OnStep DEF Walk!Enter
  <2>2. CASE /\ browser' = [browser EXCEPT !.pending = @ \cup {"enter"}]
             /\ UNCHANGED page
    <3>1. /\ browser' \in BrowserType /\ browser'.locked = browser.locked
          /\ browser'.focused = browser.focused
          /\ browser'.releasing = browser.releasing
      BY <1>0, <2>2 DEF BrowserType, Walk!Requests
    <3>2. SameWalk(page, page')
      BY <2>2 DEF SameWalk
    <3> QED BY <1>0, <1>1, <2>2, <3>1, <3>2, PageStep DEF Walk!Enter
  <2> QED BY <1>1, <2>1, <2>2 DEF Walk!Enter
<1>2. CASE Walk!Resume
  <2>1. /\ browser' \in BrowserType /\ browser'.locked = browser.locked
        /\ browser'.focused = browser.focused
        /\ browser'.releasing = browser.releasing
    <3>1. PICK p \in SUBSET Walk!Requests : browser' = [browser EXCEPT !.pending = p]
      BY <1>0, <1>2 DEF Walk!Resume, BrowserType, Walk!Requests
    <3> QED BY <1>0, <3>1 DEF BrowserType
  <2>2. WalkRight(page') /\ SameWalk(page, page')
    BY <1>0, <1>2, MenuHidesRight DEF Walk!Resume
  <2> QED BY <1>2, <2>1, <2>2, PageStep DEF Walk!Resume
<1>3. CASE Walk!MenuView
  <2>1. PICK v \in BOOLEAN : page' = [page EXCEPT !.settings = v]
    BY <1>3 DEF Walk!MenuView
  <2>2. page' \in Walk!Page /\ Same(page, page')
    BY <1>0, <2>1 DEF Walk!Page, Same, SameWalk, SamePanels, SameFingers, SameRemote
  <2> QED BY <1>0, <1>3, <2>2, SameRight, HandlerStep DEF Walk!MenuView
<1>4. CASE Walk!ClickOverlay
  <2>1. /\ browser' \in BrowserType /\ browser'.locked = browser.locked
        /\ browser'.focused = browser.focused
        /\ browser'.releasing = browser.releasing
    BY <1>0, <1>4 DEF Walk!ClickOverlay, BrowserType, Walk!Requests
  <2>2. WalkRight(page') /\ SameWalk(page, page')
    BY <1>0, <1>4, MenuHidesRight DEF Walk!ClickOverlay
  <2> QED BY <1>4, <2>1, <2>2, PageStep DEF Walk!ClickOverlay
<1> QED BY <1>1, <1>2, <1>3, <1>4

(* Leaving waits for the browser if it has the pointer locked.             *)
LEMMA ExitStep == ASSUME WalkInv, Walk!ExitToOverview PROVE WalkStep
<1>0. WalkRight(page) /\ page \in Walk!Page /\ page.walkMode
  BY DEF WalkInv, WalkRight, Walk!ExitToOverview
<1> DEFINE a == Walk!HideMenu(page)
<1>1. WalkRight(a) /\ SameWalk(page, a) /\ ~a.menu
  BY <1>0, MenuHidesRight
<1> HIDE DEF a
<1>2. hands' = hands /\ out' = "nothing"
  BY DEF Walk!ExitToOverview
<1>3. CASE /\ browser.locked
           /\ page' = [a EXCEPT !.exitRequested = TRUE]
           /\ browser' = [browser EXCEPT !.releasing = TRUE]
  <2>1. /\ browser' \in BrowserType /\ browser'.locked /\ browser'.releasing
        /\ browser'.focused = browser.focused
    BY <1>3 DEF WalkInv, BrowserType
  <2>2. /\ page' \in Walk!Page /\ page'.walkMode = a.walkMode /\ page'.move = a.move
        /\ page'.shift = a.shift /\ page'.exitRequested
        /\ SamePanels(a, page') /\ SameFingers(a, page') /\ SameRemote(a, page')
    BY <1>1, <1>3 DEF WalkRight, Walk!Page, SamePanels, SameFingers, SameRemote
  <2>3. page'.walkMode /\ page'.move = page.move /\ page'.shift = page.shift
    BY <1>0, <1>1, <2>2 DEF SameWalk
  <2>4. WalkRight(page')
    BY <1>1, <2>2, <2>3 DEF WalkRight, SamePanels, SameFingers, SameRemote
  <2>5. page'.exitRequested
    BY <2>2
  <2> QED BY <1>0, <1>2, <2>1, <2>3, <2>4, <2>5 DEF WalkStep, WalkInv, Entered, ExitKept
<1>4. CASE ~browser.locked /\ page' = Walk!LeaveWalk(a) /\ UNCHANGED browser
  <2>1. ~a.exitRequested
    BY <1>1, <1>4 DEF WalkInv, SameWalk
  <2>2. /\ WalkRight(page') /\ ~page'.walkMode /\ ~page'.exitRequested /\ ~page'.move
        /\ page'.shift => a.shift
        /\ ~page'.menu
    BY <1>1, <1>4, <2>1, WalkLeft
  <2>3. page'.shift => page.shift
    BY <1>1, <2>2 DEF SameWalk
  <2> QED BY <1>2, <1>4, <2>2, <2>3 DEF WalkStep, WalkInv, Entered, ExitKept
<1> QED BY <1>3, <1>4 DEF Walk!ExitToOverview, a

LEMMA WalkTouches ==
  ASSUME WalkInv,
         \/ Walk!TouchStart \/ Walk!TouchButton \/ Walk!FingerDown \/ Walk!StickMove
         \/ Walk!StickUp \/ Walk!LookUp \/ Walk!ClickCanvas
  PROVE  WalkStep
<1>0. WalkRight(page) /\ page \in Walk!Page
  BY DEF WalkInv, WalkRight
<1>a. ASSUME page' \in Walk!Page, SameWalk(page, page'), SamePanels(page, page'),
             SameRemote(page, page'),
             page'.moveY => page'.stick, page.menu => ~page'.stick /\ ~page'.look
      PROVE  WalkRight(page') /\ page'.menu = page.menu
  BY <1>0, <1>a DEF WalkRight, SameWalk, SamePanels, SameRemote
<1>b. page.moveY => page.stick
  BY <1>0 DEF WalkRight
<1>c. page.menu => ~page.stick /\ ~page.look
  BY <1>0 DEF WalkRight
<1>1. CASE Walk!TouchStart
  <2>1. page' \in Walk!Page /\ Same(page, page')
    BY <1>0, <1>1
       DEF Walk!TouchStart, Walk!Page, Same, SameWalk, SamePanels, SameFingers, SameRemote
  <2> QED BY <1>0, <1>1, <2>1, SameRight, HandlerStep DEF Walk!TouchStart
<1>2. CASE Walk!TouchButton
  <2>1. page.walkMode
    BY <1>2 DEF Walk!TouchButton, Walk!TouchControls, Walk!Walking
  <2>2. CASE page' = Walk!ShowMenu(page)
    BY <1>0, <1>2, <2>1, <2>2, MenuShows, HandlerStep DEF Walk!TouchButton
  <2>3. CASE page' = Walk!ClickCrouch(page) \/ page' = Walk!ClickSprint(page)
    <3>1. page' \in Walk!Page /\ Same(page, page')
      BY <1>0, <2>3, TogglesClicked
    <3> QED BY <1>0, <1>2, <3>1, SameRight, HandlerStep DEF Walk!TouchButton
  <2> QED BY <1>2, <2>2, <2>3 DEF Walk!TouchButton
<1>3. CASE Walk!FingerDown
  <2>1. ~page.menu
    BY <1>3 DEF Walk!FingerDown, Walk!TouchControls
  <2>2. /\ page' \in Walk!Page /\ SameWalk(page, page') /\ SamePanels(page, page')
        /\ SameRemote(page, page') /\ page'.moveY = page.moveY
        /\ page.stick => page'.stick
    BY <1>0, <1>3, ZenonT(30)
       DEF Walk!FingerDown, Walk!Page, SameWalk, SamePanels, SameRemote
  <2>3. WalkRight(page')
    BY <1>a, <1>b, <2>1, <2>2
  <2> QED BY <1>3, <2>2, <2>3, HandlerStep DEF Walk!FingerDown
<1>4. CASE Walk!StickMove
  <2>1. /\ page' \in Walk!Page /\ SameWalk(page, page') /\ SamePanels(page, page')
        /\ SameRemote(page, page') /\ page'.stick /\ page.stick
    BY <1>0, <1>4, ZenonT(30)
       DEF Walk!StickMove, Walk!Page, SameWalk, SamePanels, SameRemote
  <2>2. WalkRight(page')
    BY <1>a, <1>c, <2>1
  <2> QED BY <1>4, <2>1, <2>2, HandlerStep DEF Walk!StickMove
<1>5. CASE Walk!StickUp
  <2>1. /\ page' \in Walk!Page /\ SameWalk(page, page') /\ SamePanels(page, page')
        /\ SameRemote(page, page') /\ ~page'.stick /\ ~page'.moveY
        /\ page'.look = page.look
    BY <1>0, <1>5, ZenonT(30)
       DEF Walk!StickUp, Walk!Page, SameWalk, SamePanels, SameRemote
  <2>2. WalkRight(page')
    BY <1>a, <1>c, <2>1
  <2> QED BY <1>5, <2>1, <2>2, HandlerStep DEF Walk!StickUp
<1>6. CASE Walk!LookUp
  <2>1. /\ page' \in Walk!Page /\ SameWalk(page, page') /\ SamePanels(page, page')
        /\ SameRemote(page, page') /\ page'.stick = page.stick
        /\ page'.moveY = page.moveY /\ ~page'.look /\ page.look
    BY <1>0, <1>6 DEF Walk!LookUp, Walk!Page, SameWalk, SamePanels, SameRemote
  <2>2. WalkRight(page') /\ ~page'.menu
    BY <1>a, <1>b, <1>c, <2>1
  <2> QED BY <1>6, <2>1, <2>2, HandlerStep DEF Walk!LookUp
<1>7. CASE Walk!ClickCanvas
  <2>1. page' = page /\ SameWalk(page, page')
        /\ out' \in {"press", "click", "nothing"} /\ (page'.menu => out' # "press")
    BY <1>7 DEF Walk!ClickCanvas, SameWalk
  <2> QED BY <1>0, <1>7, <2>1, HandlerStep DEF Walk!ClickCanvas
<1> QED BY <1>1, <1>2, <1>3, <1>4, <1>5, <1>6, <1>7

LEMMA WalkFrame == ASSUME WalkInv, Walk!Frame PROVE WalkStep
<1>0. WalkRight(page) /\ page \in Walk!Page
  BY DEF WalkInv, WalkRight
<1>1. PICK v \in Walk!InView : /\ page' = [page EXCEPT !.focus = v]
                               /\ v = "remote" => page.listed
  BY DEF Walk!Frame, Walk!InView
<1>2. /\ page' \in Walk!Page /\ SameWalk(page, page') /\ SamePanels(page, page')
      /\ SameFingers(page, page') /\ page'.held = page.held
      /\ page'.listed = page.listed /\ page'.focus = v
      /\ page'.remote = page.remote /\ page'.firstPerson = page.firstPerson
  BY <1>0, <1>1 DEF Walk!Page, SameWalk, SamePanels, SameFingers
<1>3. WalkRight(page')
  BY <1>0, <1>1, <1>2 DEF WalkRight, SameWalk, SamePanels, SameFingers
<1> QED BY <1>2, <1>3, HandlerStep DEF Walk!Frame

LEMMA WalkNext ==
  WalkInv /\ [Walk!Next]_Walk!vars => WalkInv' /\ ((Entered /\ ExitKept) \/ UNCHANGED Walk!vars)
<1> SUFFICES ASSUME WalkInv, [Walk!Next]_Walk!vars
             PROVE  WalkInv' /\ ((Entered /\ ExitKept) \/ UNCHANGED Walk!vars)
  OBVIOUS
<1>1. CASE Walk!Next
  <2>1. WalkStep
    <3>1. ASSUME NEW r \in Walk!Requests, Walk!Grant(r) PROVE WalkStep
      BY <3>1, GrantStep
    <3>2. ASSUME NEW r \in Walk!Requests, Walk!Deny(r) PROVE WalkStep
      BY <3>2, DenyStep
    <3> QED BY <1>1, <3>1, <3>2, UnlockedStep, BlurStep, BrowserStep, KeyStep, ShiftStep,
               WalkKeys, WalkMenus, ExitStep, WalkTouches, WalkFrame DEF Walk!Next
  <2> QED BY <2>1 DEF WalkStep
<1>2. CASE UNCHANGED Walk!vars
  BY <1>2 DEF Walk!vars, WalkInv
<1> QED BY <1>1, <1>2

LEMMA WalkHolds == WalkSpec => []WalkInv
BY WalkStarts, WalkNext, PTL DEF WalkSpec, Walk!Spec

(***************************************************************************)
(* In every order of handlers and answers of the browser the variables of  *)
(* walk mode keep their types.                                             *)
(***************************************************************************)
THEOREM WalkTypeCorrect == WalkSpec => []WalkTypeInv
<1>1. WalkInv => WalkTypeInv
  BY DEF WalkInv, WalkRight, WalkTypeInv, BrowserType, HandsType
<1> QED BY <1>1, WalkHolds, PTL

(***************************************************************************)
(* Menu and overlay appear only in a walk, never together, and the pointer *)
(* is never locked without one (showMenu, showResumeOverlay, exitWalkMode).*)
(***************************************************************************)
THEOREM PanelsBelongToWalk == WalkSpec => []PanelsAndLockBelongToWalk
<1>1. WalkInv => PanelsAndLockBelongToWalk
  BY DEF WalkInv, WalkRight, PanelsAndLockBelongToWalk
<1> QED BY <1>1, WalkHolds, PTL

(***************************************************************************)
(* No key, finger or shortcut acts after it was let go or behind the menu  *)
(* (onPointerLockLost, releaseTouchInput, the blur listener).              *)
(***************************************************************************)
THEOREM NobodyWalksAlone == WalkSpec => []NoGhostInput
<1>1. WalkInv => NoGhostInput
  BY DEF WalkInv, WalkRight, NoGhostInput
<1> QED BY <1>1, WalkHolds, PTL

(***************************************************************************)
(* Whichever of the scripts has moved the remote last, it can be picked up *)
(* from the floor, it is on the holder when it counts as held in the view  *)
(* of first person, and it is not offered while it counts as held          *)
(* (beginWalk, the views, stowRemote, drawRemote, pick).                   *)
(***************************************************************************)
THEOREM RemoteHasAPlace == WalkSpec => []RemoteInItsPlace
<1>1. WalkInv => RemoteInItsPlace
  BY DEF WalkInv, WalkRight, RemoteInItsPlace
<1> QED BY <1>1, WalkHolds, PTL

(***************************************************************************)
(* Whoever begins to walk, by lock, by touch or after an error, has the    *)
(* remote in the hand (beginWalk, interact.enter).                         *)
(***************************************************************************)
THEOREM EntersInHand == WalkSpec => EnterInHand
<1>1. WalkInv /\ [Walk!Next]_Walk!vars =>
        [~page.walkMode /\ page'.walkMode =>
           page'.held /\ page'.remote = "holder" /\ page'.firstPerson]_Walk!vars
  BY WalkNext DEF Entered, InHand
<1> QED BY <1>1, WalkHolds, PTL DEF WalkSpec, Walk!Spec, EnterInHand

(***************************************************************************)
(* An exit asked for under the pointer lock is forgotten by no handler and *)
(* no answer of the browser: while it is pending the lock is being given   *)
(* back, and it stays pending until the walk is over (exitWalkMode, the    *)
(* pointerlockchange listener).  ExitLeaves is this with the browser's     *)
(* completing the release.                                                 *)
(***************************************************************************)
THEOREM ExitStaysAsked ==
  WalkSpec => /\ [](page.exitRequested => browser.locked /\ browser.releasing)
              /\ [][page.exitRequested => page'.exitRequested \/ ~page'.walkMode]_Walk!vars
<1>1. WalkInv /\ [Walk!Next]_Walk!vars =>
        [page.exitRequested => page'.exitRequested \/ ~page'.walkMode]_Walk!vars
  BY WalkNext DEF ExitKept
<1>2. WalkInv => (page.exitRequested => browser.locked /\ browser.releasing)
  BY DEF WalkInv
<1> QED BY <1>1, <1>2, WalkHolds, PTL DEF WalkSpec, Walk!Spec

-----------------------------------------------------------------------------
(***************************************************************************)
(* The alignment of text.                                                  *)
(***************************************************************************)
(* The counts of operations of a kind, with one operation more.            *)
LEMMA CountNext ==
  ASSUME NEW ops, NEW n \in Nat \ {0}, NEW kind
  PROVE  /\ Cardinality(Before(ops, n, kind)) \in Nat
         /\ Cardinality(Before(ops, 1, kind)) = 0
         /\ Cardinality(Before(ops, n + 1, kind)) =
              IF ops[n].op = kind THEN Cardinality(Before(ops, n, kind)) + 1
              ELSE Cardinality(Before(ops, n, kind))
<1> DEFINE B == Before(ops, n, kind)
<1>1. IsFiniteSet(B) /\ Cardinality(B) \in Nat
  <2>1. IsFiniteSet(1..n-1) /\ B \subseteq 1..n-1
    BY FS_Interval DEF Before
  <2>2. IsFiniteSet(B)
    BY <2>1, FS_Subset
  <2> QED BY <2>2, FS_CardinalityType
<1>2. Before(ops, 1, kind) = {}
  BY DEF Before
<1>3. 1..(n+1)-1 = (1..n-1) \cup {n} /\ n \notin 1..n-1
  OBVIOUS
<1>4. CASE ops[n].op = kind
  <2>1. Before(ops, n + 1, kind) = B \cup {n} /\ n \notin B
    BY <1>3, <1>4 DEF Before
  <2> HIDE DEF B
  <2>2. Cardinality(B \cup {n}) = Cardinality(B) + 1
    BY <1>1, <2>1, FS_AddElement
  <2> QED BY <1>1, <1>2, <1>4, <2>1, <2>2, FS_EmptySet DEF B
<1>5. CASE ops[n].op # kind
  <2>1. Before(ops, n + 1, kind) = B
    BY <1>3, <1>5 DEF Before
  <2> QED BY <1>1, <1>2, <1>5, <2>1, FS_EmptySet
<1> QED BY <1>4, <1>5

LEMMA DepthNext ==
  ASSUME NEW ops, NEW n \in Nat \ {0}
  PROVE  /\ Depth(ops, n) \in Int /\ Depth(ops, 1) = 0
         /\ Depth(ops, n + 1) = CASE ops[n].op = "save" -> Depth(ops, n) + 1
                                  [] ops[n].op = "restore" -> Depth(ops, n) - 1
                                  [] OTHER -> Depth(ops, n)
<1>1. /\ Cardinality(Before(ops, n, "save")) \in Nat
      /\ Cardinality(Before(ops, 1, "save")) = 0
      /\ Cardinality(Before(ops, n + 1, "save")) =
           IF ops[n].op = "save" THEN Cardinality(Before(ops, n, "save")) + 1
           ELSE Cardinality(Before(ops, n, "save"))
  BY CountNext
<1>2. /\ Cardinality(Before(ops, n, "restore")) \in Nat
      /\ Cardinality(Before(ops, 1, "restore")) = 0
      /\ Cardinality(Before(ops, n + 1, "restore")) =
           IF ops[n].op = "restore" THEN Cardinality(Before(ops, n, "restore")) + 1
           ELSE Cardinality(Before(ops, n, "restore"))
  BY CountNext
<1> QED BY <1>1, <1>2 DEF Depth

LEMMA DepthType == \A ops : \A n \in Nat \ {0} : Depth(ops, n) \in Int
BY DepthNext

(* An operation that neither sets nor restores an alignment leaves it.     *)
LEMMA AloneStays ==
  ASSUME NEW ops, NEW n \in Nat \ {0}, NEW a, AlignedAlone(ops, n, a),
         ops[n].op \notin {"align", "restore"}
  PROVE  AlignedAlone(ops, n + 1, a)
<1>1. Depth(ops, n) \in Int /\ Depth(ops, n + 1) \in Int
      /\ Depth(ops, n + 1) >= Depth(ops, n)
  BY DepthNext
<1>2. Before(ops, n + 1, "align") = Before(ops, n, "align")
  BY DEF Before
<1>3. ASSUME NEW m \in Before(ops, n, "align")
      PROVE  (\A k \in m+1..n : Depth(ops, k) >= Depth(ops, m))
               <=> (\A k \in m+1..n+1 : Depth(ops, k) >= Depth(ops, m))
  <2>1. m \in Nat \ {0} /\ m < n
    BY DEF Before
  <2>2. n \in m+1..n /\ m+1..n+1 = (m+1..n) \cup {n+1}
    BY <2>1
  <2>3. Depth(ops, m) \in Int
    BY <2>1, DepthType
  <2> QED BY <1>1, <2>2, <2>3
<1>4. InForce(ops, n + 1) = InForce(ops, n)
  BY <1>2, <1>3 DEF InForce
<1> QED BY <1>4 DEF AlignedAlone

LEMMA AloneSet ==
  ASSUME NEW ops, NEW n \in Nat \ {0}, ops[n].op = "align"
  PROVE  AlignedAlone(ops, n + 1, ops[n].to)
<1>1. Depth(ops, n) \in Int /\ Depth(ops, n + 1) = Depth(ops, n)
  BY DepthNext
<1>2. n \in Before(ops, n + 1, "align")
  BY DEF Before
<1>3. n+1..n+1 = {n+1}
  OBVIOUS
<1>4. n \in InForce(ops, n + 1)
  BY <1>1, <1>2, <1>3 DEF InForce
<1>5. \A k \in InForce(ops, n + 1) : k <= n
  BY DEF InForce, Before
<1> QED BY <1>4, <1>5 DEF AlignedAlone

(* Where the alignment that is i-th on the stack was saved.                *)
SavedAt(ops, n, i) ==
  {k \in Before(ops, n, "save") : /\ Depth(ops, k) = i - 1
                                  /\ \A j \in k+1..n : Depth(ops, j) >= i}

LEMMA SavedStays ==
  ASSUME NEW ops, NEW n \in Nat \ {0}, NEW i \in Nat, NEW k \in SavedAt(ops, n, i),
         Depth(ops, n + 1) >= i
  PROVE  k \in SavedAt(ops, n + 1, i)
<1>1. k \in Nat \ {0} /\ k < n /\ k \in Before(ops, n + 1, "save")
  BY DEF SavedAt, Before
<1>2. k+1..n+1 = (k+1..n) \cup {n+1}
  BY <1>1
<1> QED BY <1>1, <1>2 DEF SavedAt

LEMMA SavedNow ==
  ASSUME NEW ops, NEW n \in Nat \ {0}, ops[n].op = "save"
  PROVE  n \in SavedAt(ops, n + 1, Depth(ops, n) + 1)
<1>1. Depth(ops, n) \in Int /\ Depth(ops, n + 1) = Depth(ops, n) + 1
  BY DepthNext
<1>2. n \in Before(ops, n + 1, "save") /\ n+1..n+1 = {n+1}
  BY DEF Before
<1> QED BY <1>1, <1>2 DEF SavedAt

(* A restore brings back the alignment from before the save it matches.    *)
LEMMA AloneRestored ==
  ASSUME NEW ops, NEW n \in Nat \ {0}, NEW a, ops[n].op = "restore",
         NEW k \in SavedAt(ops, n, Depth(ops, n)), AlignedAlone(ops, k, a)
  PROVE  AlignedAlone(ops, n + 1, a)
<1> DEFINE d == Depth(ops, n)
<1>1. d \in Int /\ Depth(ops, n + 1) = d - 1
  BY DepthNext
<1>2. /\ k \in Nat \ {0} /\ k < n /\ ops[k].op = "save" /\ Depth(ops, k) = d - 1
      /\ \A j \in k+1..n : Depth(ops, j) >= d
  BY DEF SavedAt, Before
<1> HIDE DEF d
<1>3. ASSUME NEW m \in InForce(ops, n + 1) PROVE m \in InForce(ops, k)
  <2>1. /\ m \in 1..n /\ ops[m].op = "align"
        /\ \A j \in m+1..n+1 : Depth(ops, j) >= Depth(ops, m)
    BY DEF InForce, Before
  <2>2. Depth(ops, m) \in Int /\ Depth(ops, n + 1) >= Depth(ops, m)
    BY <2>1, DepthType
  <2>3. m \notin k+1..n
    BY <1>1, <1>2, <2>1, <2>2
  <2>4. m # k
    BY <1>2, <2>1
  <2>5. m \in 1..k-1
    BY <1>2, <2>1, <2>3, <2>4
  <2>6. \A j \in m+1..k : j \in m+1..n+1
    BY <1>2, <2>5
  <2> QED BY <2>1, <2>5, <2>6 DEF InForce, Before
<1>4. ASSUME NEW m \in InForce(ops, k) PROVE m \in InForce(ops, n + 1)
  <2>1. /\ m \in 1..k-1 /\ ops[m].op = "align"
        /\ \A j \in m+1..k : Depth(ops, j) >= Depth(ops, m)
    BY DEF InForce, Before
  <2>2. Depth(ops, m) \in Int /\ d - 1 >= Depth(ops, m)
    BY <1>2, <2>1, DepthType
  <2>3. ASSUME NEW j \in m+1..n+1 PROVE Depth(ops, j) >= Depth(ops, m)
    <3>0. Depth(ops, j) \in Int
      BY <2>1, DepthType
    <3>1. CASE j \in m+1..k
      BY <2>1, <3>1
    <3>2. CASE j \in k+1..n
      BY <1>1, <1>2, <2>2, <3>0, <3>2
    <3>3. CASE j = n+1
      BY <1>1, <2>2, <3>3
    <3> QED BY <1>2, <2>1, <3>1, <3>2, <3>3
  <2>4. m \in 1..(n+1)-1
    BY <1>2, <2>1
  <2> QED BY <2>1, <2>3, <2>4 DEF InForce, Before
<1>5. InForce(ops, n + 1) = InForce(ops, k)
  BY <1>3, <1>4
<1> QED BY <1>5 DEF AlignedAlone

LEMMA AloneFirst == \A ops : AlignedAlone(ops, 1, "start")
BY DEF AlignedAlone, InForce, Before

-----------------------------------------------------------------------------
(***************************************************************************)
(* The inductive invariant: the stack is as deep as the operations so far  *)
(* say, and each alignment on it is the one of the frame alone from when   *)
(* it was saved.                                                           *)
(***************************************************************************)
Ops == Canvas!Frames[screen]
Alignment == {"start"} \cup {Canvas!Frames[s][k].to : s \in Canvas!Screens, k \in Nat}

ContextRight(ops, n, a, stack) ==
  /\ n \in Nat \ {0} /\ a \in Alignment /\ stack \in Seq(Alignment)
  /\ Len(stack) = Depth(ops, n)
  /\ AlignedAlone(ops, n, a)
  /\ \A i \in 1..Len(stack) :
       \E k \in SavedAt(ops, n, i) : AlignedAlone(ops, k, stack[i])

ScreenInv == screen \in Canvas!Screens /\ ContextRight(Ops, pen, align, saved)

LEMMA FreshContext == \A ops : ContextRight(ops, 1, "start", <<>>)
<1>1. \A ops : Depth(ops, 1) = 0
  BY DepthNext
<1>2. <<>> \in Seq(Alignment) /\ Len(<<>>) = 0 /\ "start" \in Alignment
  BY DEF Alignment
<1> QED BY <1>1, <1>2, AloneFirst DEF ContextRight

(* The stack as it was, when an operation did not go below it.             *)
LEMMA StackStays ==
  ASSUME NEW ops, NEW n \in Nat \ {0}, NEW i \in Nat, NEW b, Depth(ops, n + 1) >= i,
         \E k \in SavedAt(ops, n, i) : AlignedAlone(ops, k, b)
  PROVE  \E k \in SavedAt(ops, n + 1, i) : AlignedAlone(ops, k, b)
BY SavedStays

LEMMA OtherOps ==
  ASSUME NEW ops, NEW n, NEW a, NEW stack, ContextRight(ops, n, a, stack),
         ops[n].op \in {"text", "pic"}
  PROVE  ContextRight(ops, n + 1, a, stack)
<1>1. n \in Nat \ {0} /\ Len(stack) \in Nat
  BY DEF ContextRight
<1>2. Depth(ops, n + 1) = Len(stack)
  BY <1>1, DepthNext DEF ContextRight
<1>3. AlignedAlone(ops, n + 1, a)
  BY <1>1, AloneStays DEF ContextRight
<1>4. ASSUME NEW i \in 1..Len(stack)
      PROVE  \E k \in SavedAt(ops, n + 1, i) : AlignedAlone(ops, k, stack[i])
  <2>1. \E k \in SavedAt(ops, n, i) : AlignedAlone(ops, k, stack[i])
    BY DEF ContextRight
  <2>2. i \in Nat /\ Depth(ops, n + 1) >= i
    BY <1>1, <1>2
  <2> QED BY <1>1, <2>1, <2>2, StackStays
<1> QED BY <1>1, <1>2, <1>3, <1>4 DEF ContextRight

LEMMA AlignOp ==
  ASSUME NEW ops, NEW n, NEW a, NEW stack, ContextRight(ops, n, a, stack),
         ops[n].op = "align", ops[n].to \in Alignment
  PROVE  ContextRight(ops, n + 1, ops[n].to, stack)
<1>1. n \in Nat \ {0} /\ Len(stack) \in Nat
  BY DEF ContextRight
<1>2. Depth(ops, n + 1) = Len(stack)
  BY <1>1, DepthNext DEF ContextRight
<1>3. AlignedAlone(ops, n + 1, ops[n].to)
  BY <1>1, AloneSet
<1>4. ASSUME NEW i \in 1..Len(stack)
      PROVE  \E k \in SavedAt(ops, n + 1, i) : AlignedAlone(ops, k, stack[i])
  <2>1. \E k \in SavedAt(ops, n, i) : AlignedAlone(ops, k, stack[i])
    BY DEF ContextRight
  <2>2. i \in Nat /\ Depth(ops, n + 1) >= i
    BY <1>1, <1>2
  <2> QED BY <1>1, <2>1, <2>2, StackStays
<1> QED BY <1>1, <1>2, <1>3, <1>4 DEF ContextRight

LEMMA SaveOp ==
  ASSUME NEW ops, NEW n, NEW a, NEW stack, ContextRight(ops, n, a, stack),
         ops[n].op = "save"
  PROVE  ContextRight(ops, n + 1, a, Append(stack, a))
<1> DEFINE l == Len(stack)  new == Append(stack, a)
<1>1. n \in Nat \ {0} /\ l \in Nat /\ Depth(ops, n) = l /\ AlignedAlone(ops, n, a)
  BY DEF ContextRight
<1>2. Depth(ops, n + 1) = l + 1
  BY <1>1, DepthNext
<1>3. AlignedAlone(ops, n + 1, a)
  BY <1>1, AloneStays
<1>4. /\ new \in Seq(Alignment) /\ Len(new) = l + 1 /\ new[l + 1] = a
      /\ \A i \in 1..l : new[i] = stack[i]
  BY DEF ContextRight
<1> HIDE DEF new
<1>5. ASSUME NEW i \in 1..l + 1
      PROVE  \E k \in SavedAt(ops, n + 1, i) : AlignedAlone(ops, k, new[i])
  <2>1. CASE i = l + 1
    BY <1>1, <1>4, <2>1, SavedNow
  <2>2. CASE i \in 1..l
    <3>1. \E k \in SavedAt(ops, n, i) : AlignedAlone(ops, k, new[i])
      BY <1>4, <2>2 DEF ContextRight
    <3>2. i \in Nat /\ Depth(ops, n + 1) >= i
      BY <1>1, <1>2, <2>2
    <3> QED BY <1>1, <3>1, <3>2, StackStays
  <2> QED BY <1>1, <2>1, <2>2
<1>6. ContextRight(ops, n + 1, a, new)
  <2>1. a \in Alignment
    BY DEF ContextRight
  <2> QED BY <1>1, <1>2, <1>3, <1>4, <1>5, <2>1 DEF ContextRight
<1> QED BY <1>6 DEF new

LEMMA RestoreOp ==
  ASSUME NEW ops, NEW n, NEW a, NEW stack, ContextRight(ops, n, a, stack),
         ops[n].op = "restore", stack # <<>>
  PROVE  ContextRight(ops, n + 1, stack[Len(stack)], SubSeq(stack, 1, Len(stack) - 1))
<1> DEFINE l == Len(stack)  rest == SubSeq(stack, 1, l - 1)
<1>1. /\ n \in Nat \ {0} /\ Depth(ops, n) = l /\ stack \in Seq(Alignment)
      /\ \A i \in 1..l : \E k \in SavedAt(ops, n, i) : AlignedAlone(ops, k, stack[i])
  BY DEF ContextRight
<1>2. l \in Nat \ {0} /\ stack[l] \in Alignment
  BY <1>1
<1>3. Depth(ops, n + 1) = l - 1
  BY <1>1, DepthNext
<1>4. AlignedAlone(ops, n + 1, stack[l])
  <2>1. PICK k \in SavedAt(ops, n, l) : AlignedAlone(ops, k, stack[l])
    BY <1>1, <1>2
  <2> QED BY <1>1, <2>1, AloneRestored
<1>5. /\ rest \in Seq(Alignment) /\ Len(rest) = l - 1
      /\ \A i \in 1..l - 1 : rest[i] = stack[i]
  BY <1>1, <1>2
<1> HIDE DEF rest, l
<1>6. ASSUME NEW i \in 1..l - 1
      PROVE  \E k \in SavedAt(ops, n + 1, i) : AlignedAlone(ops, k, rest[i])
  <2>1. i \in 1..l /\ i \in Nat /\ Depth(ops, n + 1) >= i
    BY <1>2, <1>3
  <2>2. \E k \in SavedAt(ops, n, i) : AlignedAlone(ops, k, rest[i])
    BY <1>1, <1>5, <2>1
  <2> QED BY <1>1, <2>1, <2>2, StackStays
<1>7. ContextRight(ops, n + 1, stack[l], rest)
  BY <1>1, <1>2, <1>3, <1>4, <1>5, <1>6 DEF ContextRight
<1> QED BY <1>7 DEF rest, l

LEMMA ScreenStarts == Canvas!Init => ScreenInv
BY FreshContext DEF Canvas!Init, ScreenInv, Ops

LEMMA ScreenNext == ScreenInv /\ [Canvas!Next]_Canvas!vars => ScreenInv'
<1> SUFFICES ASSUME ScreenInv, [Canvas!Next]_Canvas!vars PROVE ScreenInv'
  OBVIOUS
<1>0. /\ screen \in Canvas!Screens /\ ContextRight(Ops, pen, align, saved)
      /\ pen \in Nat /\ saved \in Seq(Alignment)
  BY DEF ScreenInv, ContextRight
<1>1. CASE Canvas!SetAlign
  <2>1. /\ screen' = screen /\ pen' = pen + 1 /\ saved' = saved
        /\ Ops[pen].op = "align" /\ align' = Ops[pen].to
    BY <1>1 DEF Canvas!SetAlign, Canvas!Step, Canvas!Op, Ops
  <2>2. Ops[pen].to \in Alignment
    BY <1>0 DEF Ops, Alignment
  <2>3. ContextRight(Ops, pen + 1, Ops[pen].to, saved)
    BY <1>0, <2>1, <2>2, AlignOp
  <2> QED BY <1>0, <2>1, <2>3 DEF ScreenInv, Ops
<1>2. CASE Canvas!SaveContext
  <2>1. /\ screen' = screen /\ pen' = pen + 1 /\ saved' = Append(saved, align)
        /\ Ops[pen].op = "save" /\ align' = align
    BY <1>2 DEF Canvas!SaveContext, Canvas!Step, Canvas!Op, Ops
  <2>2. ContextRight(Ops, pen + 1, align, Append(saved, align))
    BY <1>0, <2>1, SaveOp
  <2> QED BY <1>0, <2>1, <2>2 DEF ScreenInv, Ops
<1>3. CASE Canvas!RestoreContext
  <2>1. /\ screen' = screen /\ pen' = pen + 1 /\ saved # <<>>
        /\ Ops[pen].op = "restore" /\ align' = saved[Len(saved)]
        /\ saved' = SubSeq(saved, 1, Len(saved) - 1)
    BY <1>3 DEF Canvas!RestoreContext, Canvas!Step, Canvas!Op, Canvas!RestoredFrom,
                Canvas!Last, Canvas!Front, Ops
  <2>2. ContextRight(Ops, pen + 1, saved[Len(saved)], SubSeq(saved, 1, Len(saved) - 1))
    BY <1>0, <2>1, RestoreOp
  <2> QED BY <1>0, <2>1, <2>2 DEF ScreenInv, Ops
<1>4. CASE Canvas!Write \/ Canvas!Paint
  <2>1. /\ screen' = screen /\ pen' = pen + 1 /\ UNCHANGED <<align, saved>>
        /\ Ops[pen].op \in {"text", "pic"}
    BY <1>4 DEF Canvas!Write, Canvas!Paint, Canvas!Step, Canvas!Op, Ops
  <2>2. ContextRight(Ops, pen + 1, align, saved)
    BY <1>0, <2>1, OtherOps
  <2> QED BY <1>0, <2>1, <2>2 DEF ScreenInv, Ops
<1>5. CASE Canvas!NextFrame
  BY <1>5, FreshContext DEF Canvas!NextFrame, Canvas!Reset, ScreenInv
<1>6. CASE UNCHANGED Canvas!vars
  BY <1>0, <1>6 DEF Canvas!vars, ScreenInv, Ops
<1> QED BY <1>1, <1>2, <1>3, <1>4, <1>5, <1>6 DEF Canvas!Next

LEMMA ScreenHolds == ScreenSpec => []ScreenInv
BY ScreenStarts, ScreenNext, PTL DEF ScreenSpec, Canvas!Spec

(***************************************************************************)
(* Whatever the frames draw and in whatever order they follow each other,  *)
(* text is aligned as if its frame were drawn alone (ctx.reset at the head *)
(* of updateTVScreen, save and restore of the helpers).                    *)
(***************************************************************************)
THEOREM LooksTheSame == ScreenSpec => []SameEveryTime
<1>1. ScreenInv => SameEveryTime
  BY DEF ScreenInv, ContextRight, SameEveryTime, Ops
<1> QED BY <1>1, ScreenHolds, PTL

=============================================================================
