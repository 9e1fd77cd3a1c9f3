------------------------------ MODULE TvPicture ------------------------------
(***************************************************************************)
(* From a tv_state_update to the picture of the 3D television: the page    *)
(* compares the state with the one it had and starts animations            *)
(* (socket-state.js, animations.js); every frame advances them and redraws *)
(* the canvas if anything moves (main.js, screen.js); the beam and the lit *)
(* button of the remote follow the last button (ir.js).                    *)
(*                                                                         *)
(* The hard part is what overlaps: an update in the middle of animations   *)
(* that an earlier one started, a TV switched off while its overlay is up, *)
(* a page that toggles the TV by itself while it is offline, a hidden tab  *)
(* that draws no frame until everything is over.  Time passes in quarters  *)
(* of a second, in which the clocks of all animations advance together.    *)
(*                                                                         *)
(* The HDMI animation is missing: updateTVState compares the new input     *)
(* with itself and never starts it.  So is the volume stabilizer, which    *)
(* updateTVState also starts and whose frames store volumes of their own   *)
(* after the redraw (socket-state.js:299-346, animations.js:292-295): it   *)
(* is PageVolume's, and the volume here is that of the last update.        *)
(***************************************************************************)
EXTENDS TvState

CONSTANTS Pressed,      \* codes of the buttons somebody presses
          MaxPresses,   \* bounds the presses
          MaxLosses,    \* bounds the lost connections and offline presses
          Gaps          \* quarters of a second between two frames

ASSUME PictureAssumption ==
  /\ Pressed \subseteq Code \ Digits
  /\ MaxPresses \in Nat
  /\ MaxLosses \in Nat
  /\ Gaps \subseteq Nat /\ 1 \in Gaps

VARIABLES
  server,    \* tv_state of the server
  button,    \* its last_button, 0 for none
  clearing,  \* the notification of the last press is still to be cleared
  online,    \* the socket of the page is connected
  known,     \* the page has received a state
  tv,        \* tvState of the page
  anim,      \* powerAnimation, channelAnimation, ..., channelOverlay
  canvas,    \* what is on the canvas of the screen
  scene,     \* power LED, beams and lit buttons of the 3D scene
  presses,   \* presses so far
  losses     \* losses so far

serverVars == <<server, button, clearing, presses>>
pageVars == <<known, tv, anim, canvas, scene>>
vars == <<serverVars, online, losses, pageVars>>

-----------------------------------------------------------------------------
(* Animations: a clock each, in quarters of a second, that has run out when*)
(* it reaches the duration.                                                *)

Anims == {"power", "channel", "overlay", "app", "volume"}
Duration == [power |-> 8, channel |-> 4, overlay |-> 12, app |-> 10,
             volume |-> 2]
Clocks == [Anims -> 0..12]
Runs(a, n) == a.clock[n] < Duration[n]
AllOver(a) == \A n \in Anims : ~Runs(a, n)

StartPower(a, on) ==
  [a EXCEPT !.clock["power"] = 0, !.on = on, !.level = IF on THEN 0 ELSE 100]

StartChannel(a, old) == [a EXCEPT !.clock["channel"] = 0, !.left = old]
ShowOverlay(a, c) == [a EXCEPT !.clock["overlay"] = 0, !.named = c]
StartApp(a, old) ==
  [a EXCEPT !.clock["app"] = 0, !.closed = old, !.phase = "loading"]
StartVolume(a, old, new) ==
  [a EXCEPT !.clock["volume"] = 0, !.from = old, !.to = new]

(* Brightness in percent at each quarter of a second.  The flash of the    *)
(* first one is random; switching off, the picture goes dark after three   *)
(* quarters and comes back before it fades.                                *)
OnLevels == <<{0, 40}, {40}, {40}, {55}, {74}, {83}, {95}, {99}, {100}>>
OffLevels == <<{100}, {81}, {69}, {20}, {70}, {66}, {52}, {31}, {0}>>
Levels(on, t) == IF on THEN OnLevels[t + 1] ELSE OffLevels[t + 1]

(* The LED mixes red and green.  Switching on it turns from orange through *)
(* red to green; switching off it turns red at once, and then comes back   *)
(* from green.                                                             *)
OnLed == <<"orange", "orange", "red", "mixed", "green", "green", "green",
           "green", "green">>
OffLed == <<"red", "red", "red", "red", "red", "mixed", "mixed", "mixed",
            "red">>
Led(on, t) == IF on THEN OnLed[t + 1] ELSE OffLed[t + 1]

PhaseAt(t) == CASE t < 2 -> "slideOut"
                [] t \in 2..4 -> "loading"
                [] t \in 5..7 -> "logo"
                [] OTHER -> "content"

-----------------------------------------------------------------------------
(* What a frame draws.  The context of the canvas is reset first, so that  *)
(* nothing is left of how the last frame aligned its text.                 *)

(* Mutant: the context keeps its state. *)
ResetNothing(left) == left

Reset(left) == "start"

Level(s, a) == IF Runs(a, "power") THEN a.level ELSE IF s.powered THEN 100 ELSE 0

(* Text drawn before the content: the channel, and during the first half of*)
(* a second of a change also the old one.                                  *)
ChannelText(s, a) ==
  {s.channel} \cup {c \in {a.left} : a.clock["channel"] < 2}

AppName(v) == IF v = NoApp THEN Home ELSE v

(* An app being opened: the old one slides out, then a progress bar, the   *)
(* logo, and the name.  Only the logo phase does not call no app Home.     *)
Opening(s, a) == CASE a.phase = "slideOut" -> <<"leaving", AppName(a.closed)>>
                   [] a.phase = "loading" -> <<"loading", s.app>>
                   [] a.phase = "logo"    -> <<"logo", s.app>>
                   [] a.phase = "content" -> <<"opening", AppName(s.app)>>

(* The screen of the app, or the show of the channel *)
Content(s) == IF s.app = NoApp THEN <<"show", s.channel>> ELSE <<"app", s.app>>

(* After a quarter of a second most of the way to the new volume is done.  *)
VolumeShown(s, a) ==
  CASE a.clock["volume"] = 0 -> a.from
    [] a.clock["volume"] = 1 -> (a.from + 7 * a.to + 4) \div 8
    [] OTHER -> s.volume

(* Mutant: the overlay is drawn whether it is visible or not. *)
OverlayStays(a) == a.named

OverlayShown(a) == IF Runs(a, "overlay") THEN a.named ELSE 0

Effects(level) == {e \in {"scanLines", "vignette", "shimmer", "reflection"} :
                     level > CASE e = "scanLines" -> 10
                               [] e = "vignette" -> 30
                               [] OTHER -> 50}

Dark(left) == [level |-> 0, content |-> <<"black", 0>>, text |-> {},
               volume |-> 0, overlay |-> 0, effects |-> {},
               enters |-> Reset(left), leaves |-> Reset(left)]

(* updateTVScreen: black, or only the background, or everything.  "leaves" *)
(* is the alignment the volume bar leaves in the context.                  *)
Draw(s, a, left) ==
  LET l == Level(s, a)
      d == [Dark(left) EXCEPT !.level = l, !.effects = Effects(l)]
  IN  CASE l <= 10 -> d
        [] l \in 11..30 -> [d EXCEPT !.content = <<"background", 0>>]
        [] OTHER -> [d EXCEPT !.content = IF Runs(a, "app") THEN Opening(s, a)
                                          ELSE Content(s),
                              !.text = ChannelText(s, a),
                              !.volume = VolumeShown(s, a),
                              !.overlay = OverlayShown(a),
                              !.leaves = "center"]

-----------------------------------------------------------------------------
(* Beam and buttons.  A beam is in the scene from when it is triggered; its*)
(* own loop of frames takes it away after 400 ms, or stops without doing so*)
(* if another beam has become the current one.                             *)

Beams == {1, 2}
NoBeam == 0

DisposeBeam(n, b) ==
  [n EXCEPT !.beams = @ \ {b}, !.loops = @ \ {b},
            !.current = IF @ = b THEN NoBeam ELSE @]

(* Mutant: the beam still on its way is left to its own loop. *)
KeepBeam(n) == n

DropBeam(n) == DisposeBeam(n, n.current)

TriggerBeam(n) ==
  LET m == DropBeam(n)
      b == CHOOSE b \in Beams : b \notin m.beams \/ m.beams = Beams
  IN  [m EXCEPT !.beams = @ \cup {b}, !.loops = @ \cup {b}, !.current = b,
                !.age = 0]

LightButton(n, b) ==
  [n EXCEPT !.lit = (@ \ {n.active}) \cup {b}, !.active = b]

TriggerIRSignal(n, b) == IF b = 0 THEN n ELSE LightButton(TriggerBeam(n), b)

-----------------------------------------------------------------------------
(* updateTVState(s): each difference from the old state starts its         *)
(* animation, all but that of the power only if the TV is on.  The first   *)
(* state differs from nothing, but in the volume.                          *)

PowerDiff(a, s) ==
  IF ~known \/ tv.powered # s.powered THEN StartPower(a, s.powered) ELSE a

OldChannel == IF known THEN tv.channel ELSE 0  \* "undefined"

ChannelDiff(a, s) ==
  IF s.powered /\ (~known \/ tv.channel # s.channel)
  THEN ShowOverlay(StartChannel(a, OldChannel), s.channel) ELSE a

AppDiff(a, s) ==
  IF s.powered /\ (~known \/ tv.app # s.app) THEN StartApp(a, tv.app) ELSE a

VolumeDiff(a, s) ==
  IF s.powered /\ known /\ tv.volume # s.volume
  THEN StartVolume(a, tv.volume, s.volume) ELSE a

UpdateTVState(s, b) ==
  LET a == VolumeDiff(AppDiff(ChannelDiff(PowerDiff(anim, s), s), s), s)
  IN  /\ known' = TRUE
      /\ tv' = s
      /\ anim' = a
      /\ scene' = TriggerIRSignal(scene, b)
      /\ canvas' = Draw(s, a, canvas.leaves)

-----------------------------------------------------------------------------
Init ==
  /\ server \in {InitTv, [InitTv EXCEPT !.powered = TRUE, !.app = Netflix]}
  /\ button = 0 /\ clearing = FALSE /\ presses = 0
  /\ online = FALSE /\ losses = 0
  /\ known = FALSE /\ tv = InitTv
  /\ anim = [clock |-> Duration, on |-> FALSE, level |-> 0, left |-> 1,
             named |-> 1, closed |-> Home, phase |-> "loading", from |-> 50,
             to |-> 50]
  /\ canvas = Dark("start")
  /\ scene = [led |-> "red", beams |-> {}, loops |-> {}, current |-> NoBeam,
              age |-> 0, lit |-> {}, active |-> 0]

(* The server handles a press and broadcasts its state. *)
Press(b) ==
  /\ presses < MaxPresses
  /\ presses' = presses + 1
  /\ server' = AfterPress(b, server)
  /\ button' = b /\ clearing' = TRUE
  /\ IF online THEN UpdateTVState(server', b) ELSE UNCHANGED pageVars
  /\ UNCHANGED <<online, losses>>

(* Two seconds later it clears the notification and broadcasts again. *)
ClearNotification ==
  /\ clearing
  /\ clearing' = FALSE
  /\ IF online THEN UpdateTVState(server, button) ELSE UNCHANGED pageVars
  /\ UNCHANGED <<server, button, presses, online, losses>>

(* The page asks for the state when its socket connects. *)
Connect ==
  /\ ~online
  /\ online' = TRUE
  /\ UpdateTVState(server, button)
  /\ UNCHANGED <<serverVars, losses>>

Disconnect ==
  /\ online /\ losses < MaxLosses
  /\ online' = FALSE /\ losses' = losses + 1
  /\ UNCHANGED <<serverVars, pageVars>>

(* The player uses the TV of a page that is offline: it toggles its own    *)
(* copy of the state, and the next frame draws it.                         *)
UseOffline ==
  /\ ~online /\ known /\ losses < MaxLosses
  /\ losses' = losses + 1
  /\ tv' = [tv EXCEPT !.powered = ~@]
  /\ anim' = StartPower(anim, ~tv.powered)
  /\ UNCHANGED <<serverVars, online, known, canvas, scene>>

-----------------------------------------------------------------------------
(* One frame, g quarters of a second after the last one.                   *)

(* Mutant: the overlay stays visible once it has faded out. *)
OverlayLingers(a, g) ==
  [n \in Anims |->
     IF n = "overlay" /\ a.clock[n] < 12
     THEN IF a.clock[n] + g > 11 THEN 11 ELSE a.clock[n] + g
     ELSE IF a.clock[n] + g >= Duration[n] THEN Duration[n] ELSE a.clock[n] + g]

(* Clocks run on until they reach the duration. *)
Advance(a, g) ==
  [n \in Anims |-> IF a.clock[n] + g >= Duration[n] THEN Duration[n]
                   ELSE a.clock[n] + g]

Fade(a, clock) ==
  IF ~Runs(a, "power") THEN {a}
  ELSE {[a EXCEPT !.level = l] : l \in Levels(a.on, clock["power"])}

AdvanceApp(a, clock) ==
  IF Runs(a, "app") THEN [a EXCEPT !.phase = PhaseAt(clock["app"])] ELSE a

(* The LED follows the animation, or without one the state. *)
LedOf(a, clock, s) == IF Runs(a, "power") THEN Led(a.on, clock["power"])
                      ELSE IF s.powered THEN "green" ELSE "red"

(* Mutant: nothing is drawn in the frame in which an animation ends. *)
DirtyWhileRunning(a, b, s) == ~AllOver(b) \/ s.powered

(* A frame is drawn if something was animated, or the TV is on. *)
Dirty(a, b, s) == ~AllOver(a) \/ s.powered

(* The loop of the beam that is current, and of one that no longer is *)
AnimateIR(n, g) ==
  LET m == [n EXCEPT !.loops = @ \cap {n.current}]
  IN  IF n.current = NoBeam THEN m
      ELSE IF n.age + g >= 2 THEN DisposeBeam([m EXCEPT !.age = 0], n.current)
      ELSE [m EXCEPT !.age = @ + g]

ReleaseButton(n, g) ==
  IF n.active # 0 /\ g > 0 THEN [n EXCEPT !.active = 0, !.lit = @ \ {n.active}]
  ELSE n

Frame(g) ==
  LET clock == Advance(anim, g)
  IN  \E a \in Fade(anim, clock) :
        LET b == [AdvanceApp(a, clock) EXCEPT !.clock = clock]
        IN  /\ anim' = b
            /\ canvas' = IF Dirty(anim, b, tv) THEN Draw(tv, b, canvas.leaves)
                         ELSE canvas
            /\ scene' = [ReleaseButton(AnimateIR(scene, g), g)
                           EXCEPT !.led = LedOf(anim, clock, tv)]
            /\ UNCHANGED <<serverVars, online, losses, known, tv>>

Next ==
  \/ \E b \in Pressed : Press(b)
  \/ ClearNotification \/ Connect \/ Disconnect \/ UseOffline
  \/ \E g \in Gaps : Frame(g)

(* The browser goes on drawing frames and time goes on. *)
Spec == Init /\ [][Next]_vars /\ WF_vars(Frame(1))

-----------------------------------------------------------------------------
ContentKinds == {"black", "background", "leaving", "loading", "logo",
                 "opening", "app", "show"}

Phases == {"slideOut", "loading", "logo", "content"}

Animations ==
  [clock : Clocks, on : BOOLEAN, level : 0..100, left : 0..MaxChannel,
   named : 0..MaxChannel, closed : AppView, phase : Phases, from : 0..100,
   to : 0..100]

Scene ==
  [led : {"red", "orange", "mixed", "green"}, beams : SUBSET Beams,
   loops : SUBSET Beams, current : Beams \cup {NoBeam}, age : Nat,
   lit : SUBSET Code, active : Code]

InTime(a) == \A n \in Anims : a.clock[n] <= Duration[n]

(* The variables keep their types, and no clock overtakes its duration. *)
TypeInv ==
  /\ server \in Tv /\ tv \in Tv
  /\ button \in Code /\ clearing \in BOOLEAN
  /\ online \in BOOLEAN /\ known \in BOOLEAN
  /\ presses \in 0..MaxPresses /\ losses \in 0..MaxLosses
  /\ anim \in Animations /\ InTime(anim)
  /\ scene \in Scene
  /\ canvas.content[1] \in ContentKinds

(* The canvas shows what the state and the animations of the page call for *)
(* and nothing that an earlier frame left behind, also when no frame is    *)
(* drawn any more.  Only an offline press waits for the next frame.  (So   *)
(* does a volume the stabilizer stores, which this model leaves out.)      *)
CanvasIsCurrent ==
  known => \/ canvas = Draw(tv, anim, "start")
           \/ ~online /\ anim.clock["power"] = 0

(* A TV that is off is black once it has faded out, whatever overlay, app  *)
(* or volume animation it was switched off in; one that is on is bright.   *)
DarkWhenOff ==
  known /\ ~Runs(anim, "power") =>
    canvas.level = (IF tv.powered THEN 100 ELSE 0)
      /\ (canvas.content = <<"black", 0>> <=> ~tv.powered)

(* When all animations are over the picture is that of the state alone: no *)
(* old channel, no overlay, the volume of the TV.                          *)
AtRest ==
  known /\ tv.powered /\ AllOver(anim) =>
    /\ canvas.content = Content(tv) /\ canvas.text = {tv.channel}
    /\ canvas.volume = tv.volume /\ canvas.overlay = 0

(* However fast buttons follow each other, at most one beam is in the      *)
(* scene, it is the current one, and its loop will take it away; and the   *)
(* only button lit is the active one.                                      *)
OneBeamOneButton ==
  /\ scene.beams = {scene.current} \ {NoBeam}
  /\ scene.beams \subseteq scene.loops
  /\ scene.lit = {scene.active} \ {0}

(* The page comes to rest: animations end, beams and lights go out, and    *)
(* the LED tells whether the TV is on.                                     *)
Resting ==
  /\ AllOver(anim) /\ scene.beams = {} /\ scene.lit = {}
  /\ scene.led = IF tv.powered THEN "green" ELSE "red"

Settles == <>[]Resting
=============================================================================
