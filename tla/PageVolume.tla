----------------------------- MODULE PageVolume -----------------------------
(***************************************************************************)
(* The volume stabilizer of the page (socket-state.js, animations.js,      *)
(* main.js) against the volume of the server (web_server.py).  A page that *)
(* thinks the volume too high or too low moves it in a second to a better  *)
(* one: its frames store the volume in the page's own state and send it to *)
(* the server, which stores it and broadcasts its state to every page, the *)
(* sender included.                                                        *)
(*                                                                         *)
(* The hard part is telling one's own echo from a change by somebody else: *)
(* the page keeps two flags and the last volume it went for, which events, *)
(* frames and two kinds of timers set and clear, while echoes are on their *)
(* way and somebody else presses buttons.                                  *)
(*                                                                         *)
(* A transition is drawn in at most two frames, at half its time and at    *)
(* its end.  Broadcasts to a page keep their order, its requests need not. *)
(***************************************************************************)
EXTENDS TvState, Sequences

CONSTANTS Pages,       \* open pages
          Volumes,     \* volumes the TV may start with
          Pressed,     \* codes of the buttons somebody presses
          MaxPresses,  \* bounds the presses
          MaxLags,     \* bounds the frames drawn with messages under way
          MaxLosses    \* bounds the lost connections

ASSUME PageVolumeAssumption ==
  /\ Volumes \subseteq 0..100
  /\ Pressed \subseteq Code \ Digits
  /\ MaxPresses \in Nat /\ MaxLags \in Nat /\ MaxLosses \in Nat

VARIABLES
  server,   \* tv_state of the server
  page,     \* tvState, volumeStabilizer, the loop and the timers of each page
  up,       \* update_volume requests under way from each page
  down,     \* tv_state_update broadcasts under way to each page
  presses, lags, losses

vars == <<server, page, up, down, presses, lags, losses>>

-----------------------------------------------------------------------------
(* What volume a page prefers.                                             *)

TargetVolume == 50
MaxVolume == 70
MinVolume == 20

Adjustment(app) == CASE app = YouTube -> -5
                     [] app = Netflix -> -3
                     [] app = AmazonPrime -> -4
                     [] app = HboMax  -> -2
                     [] OTHER         -> 0

Distance(a, b) == IF a > b THEN a - b ELSE b - a

Clamped(v) == IF v > MaxVolume THEN MaxVolume
              ELSE IF v < MinVolume THEN MinVolume ELSE v

(* applyVolumeStabilization *)
Stabilized(v, app) ==
  IF v > MaxVolume THEN MaxVolume ELSE Clamped(v + Adjustment(app))

-----------------------------------------------------------------------------
(* The parts of the handlers, as functions of a page's record.             *)

None == 101          \* _lastStabilizedVolume is null
MaxTimers == 2       \* timers of a kind that are told apart

OneMore(n) == IF n < MaxTimers THEN n + 1 ELSE n

(* Mutant: a transition from a volume to itself is one like any other. *)
NeverDone(g, from, to) ==
  [g EXCEPT !.stabilizing = TRUE, !.from = from, !.to = to, !.half = FALSE,
            !.loop = TRUE]

(* Mutant: the early return leaves the flag. *)
FlagStays(g, from, to) ==
  IF from = to THEN [g EXCEPT !.stabilizing = FALSE]
  ELSE [g EXCEPT !.stabilizing = TRUE, !.from = from, !.to = to,
                 !.half = FALSE, !.loop = TRUE]

(* smoothVolumeTransition: nothing to do, or a transition from its start,  *)
(* whatever transition was under way.                                      *)
Smooth(g, from, to) ==
  IF from = to THEN [g EXCEPT !.stabilizing = FALSE, !.processing = FALSE]
  ELSE [g EXCEPT !.stabilizing = TRUE, !.from = from, !.to = to,
                 !.half = FALSE, !.loop = TRUE]

(* stabilizeVolumeOnAppSwitch *)
OnAppSwitch(g, app, v) ==
  LET t == Clamped(TargetVolume + Adjustment(app))
  IN  Smooth([g EXCEPT !.processing = TRUE, !.last = t], v, t)

(* A volume this close to the last one the page went for is taken for an  *)
(* echo of its own. *)
Own(g, v) == g.last # None /\ Distance(v, g.last) < 2

VolumeDiff(g, s) ==
  LET t == Stabilized(s.volume, s.app)
  IN  IF ~s.muted /\ ~g.processing /\ ~Own(g, s.volume)
      THEN IF Distance(t, s.volume) > 1
           THEN Smooth([g EXCEPT !.processing = TRUE, !.last = t], s.volume, t)
           ELSE g
      ELSE IF Own(g, s.volume) THEN [g EXCEPT !.soon = OneMore(@)]
      ELSE g

(* updateTVState: a new app first, then a new volume *)
Update(g, s) ==
  LET a == IF g.tv.app # s.app /\ s.powered
           THEN OnAppSwitch(g, s.app, s.volume) ELSE g
      b == IF g.tv.volume # s.volume /\ s.powered THEN VolumeDiff(a, s) ELSE a
  IN  [b EXCEPT !.tv = s]

(* Mutant: without an app the volume is nobody's business. *)
MonitorApps(g) ==
  LET v == g.tv.volume
  IN  IF g.tv.powered /\ ~g.tv.muted /\ ~g.stabilizing /\ g.tv.app # NoApp
         /\ Distance(Stabilized(v, g.tv.app), v) > 2
      THEN OnAppSwitch(g, g.tv.app, v) ELSE g

(* The frame of main.js looks at the volume whatever has changed. *)
Monitor(g) ==
  LET v == g.tv.volume
  IN  IF g.tv.powered /\ ~g.tv.muted /\ ~g.stabilizing
         /\ Distance(Stabilized(v, g.tv.app), v) > 2
      THEN OnAppSwitch(g, g.tv.app, v) ELSE g

(* The volume of the moment, rounded *)
VolumeAt(g, ended) == IF ended THEN g.to ELSE (g.from + g.to + 1) \div 2

(* The transition's own frame function: it stops if the flag is down, and  *)
(* otherwise stores the volume of the moment and calls itself again or     *)
(* ends.  A page that is offline lets the time pass.                       *)
Advance(g, ended) ==
  LET h == IF g.online THEN [g EXCEPT !.tv.volume = VolumeAt(g, ended)] ELSE g
  IN  IF ~g.stabilizing THEN [g EXCEPT !.loop = FALSE]
      ELSE IF ended
      THEN [h EXCEPT !.stabilizing = FALSE, !.processing = FALSE,
                     !.loop = FALSE, !.later = OneMore(@)]
      ELSE [h EXCEPT !.half = TRUE]

(* A transition that the monitor begins in this frame is at its start, and *)
(* so is the frame function that an earlier one has left behind.           *)
AfterFrame(g, ended) ==
  LET m == Monitor(g)
      begins == m.stabilizing /\ ~g.stabilizing
  IN  IF g.loop /\ ~begins THEN Advance(m, ended) ELSE m

-----------------------------------------------------------------------------
InitPage(v) ==
  [online |-> TRUE, tv |-> [InitTv EXCEPT !.powered = TRUE, !.volume = v],
   processing |-> FALSE, stabilizing |-> FALSE, last |-> None,
   from |-> 50, to |-> 50, half |-> FALSE, loop |-> FALSE,
   soon |-> 0, later |-> 0]

Init ==
  /\ server \in {[InitTv EXCEPT !.powered = TRUE, !.volume = v] :
                   v \in Volumes}
  /\ page = [p \in Pages |-> InitPage(server.volume)]
  /\ up = [p \in Pages |-> <<>>] /\ down = [p \in Pages |-> <<>>]
  /\ presses = 0 /\ lags = 0 /\ losses = 0

(* socketio.emit reaches every connected page.                             *)
Broadcast(s) ==
  down' = [q \in Pages |-> IF page[q].online THEN Append(down[q], s)
                           ELSE down[q]]

Press(b) ==
  /\ presses < MaxPresses
  /\ presses' = presses + 1
  /\ server' = AfterPress(b, server)
  /\ Broadcast(server')
  /\ UNCHANGED <<page, up, lags, losses>>

(* What is left of a page's requests when one of them is handled           *)
Without(requests, i) ==
  [j \in 1..Len(requests)-1 |-> IF j < i THEN requests[j] ELSE requests[j + 1]]

(* Mutant: the sender of a volume hears nothing of it. *)
UpdateOthers(p) ==
  \E i \in DOMAIN up[p] :
    /\ up' = [up EXCEPT ![p] = Without(@, i)]
    /\ server' = [server EXCEPT !.volume = up[p][i]]
    /\ down' = [q \in Pages |-> IF page[q].online /\ q # p
                                THEN Append(down[q], server') ELSE down[q]]
    /\ UNCHANGED <<page, presses, lags, losses>>

(* handle_update_volume answers every page, the sender included.  Each     *)
(* request has a thread of its own, so that a later one may be first.      *)
UpdateVolume(p) ==
  \E i \in DOMAIN up[p] :
    /\ up' = [up EXCEPT ![p] = Without(@, i)]
    /\ server' = [server EXCEPT !.volume = up[p][i]]
    /\ Broadcast(server')
    /\ UNCHANGED <<page, presses, lags, losses>>

Receive(p) ==
  /\ down[p] # <<>>
  /\ down' = [down EXCEPT ![p] = Tail(@)]
  /\ page' = [page EXCEPT ![p] = Update(@, Head(down[p]))]
  /\ UNCHANGED <<server, up, presses, lags, losses>>

UnderWay(p) == up[p] # <<>> \/ down[p] # <<>>

(* One frame of a page; "ended" is whether the second of a transition has  *)
(* passed.  If it has not at the second frame, this is one more like it.   *)
Frame(p, ended) ==
  /\ page[p].half => ended
  /\ UnderWay(p) => lags < MaxLags
  /\ lags' = IF UnderWay(p) THEN lags + 1 ELSE lags
  /\ page' = [page EXCEPT ![p] = AfterFrame(@, ended)]
  /\ up' = [up EXCEPT ![p] = IF page'[p].tv.volume # page[p].tv.volume
                             THEN Append(@, page'[p].tv.volume) ELSE @]
  /\ UNCHANGED <<server, down, presses, losses>>

(* 100 ms after an echo *)
Soon(p) ==
  /\ page[p].soon > 0
  /\ page' = [page EXCEPT ![p].soon = @ - 1, ![p].processing = FALSE,
                          ![p].last = None]
  /\ UNCHANGED <<server, up, down, presses, lags, losses>>

(* 500 ms after the end of a transition *)
Later(p) ==
  /\ page[p].later > 0
  /\ page' = [page EXCEPT ![p].later = @ - 1, ![p].last = None]
  /\ UNCHANGED <<server, up, down, presses, lags, losses>>

(* A lost connection takes what is under way with it; when it is back the  *)
(* server sends its state.                                                 *)
Disconnect(p) ==
  /\ page[p].online /\ losses < MaxLosses
  /\ losses' = losses + 1
  /\ page' = [page EXCEPT ![p].online = FALSE]
  /\ up' = [up EXCEPT ![p] = <<>>] /\ down' = [down EXCEPT ![p] = <<>>]
  /\ UNCHANGED <<server, presses, lags>>

Connect(p) ==
  /\ ~page[p].online
  /\ page' = [page EXCEPT ![p].online = TRUE]
  /\ down' = [down EXCEPT ![p] = <<server>>]
  /\ UNCHANGED <<server, up, presses, lags, losses>>

Next ==
  \/ \E b \in Pressed : Press(b)
  \/ \E p \in Pages : \/ UpdateVolume(p) \/ Receive(p)
                      \/ \E ended \in BOOLEAN : Frame(p, ended)
                      \/ Soon(p) \/ Later(p)
                      \/ Disconnect(p) \/ Connect(p)

(* The browser draws frames, runs timers and connects again; the network   *)
(* delivers.                                                               *)
Spec ==
  /\ Init /\ [][Next]_vars
  /\ \A p \in Pages : /\ WF_vars(UpdateVolume(p)) /\ WF_vars(Receive(p))
                      /\ WF_vars(Frame(p, TRUE)) /\ WF_vars(Connect(p))
                      /\ WF_vars(Soon(p)) /\ WF_vars(Later(p))

-----------------------------------------------------------------------------
(* A page's record; None stands for null in _lastStabilizedVolume. *)
PageState ==
  [online : BOOLEAN, tv : Tv, processing : BOOLEAN, stabilizing : BOOLEAN,
   last : MinVolume..MaxVolume \cup {None}, from : 0..100, to : 0..100,
   half : BOOLEAN, loop : BOOLEAN, soon : 0..MaxTimers, later : 0..MaxTimers]

(* Every part of the state has its type: volumes under way in both         *)
(* directions stay volumes, and the page goes for none outside its limits. *)
TypeInv ==
  /\ server \in Tv
  /\ page \in [Pages -> PageState]
  /\ up \in [Pages -> Seq(0..100)]
  /\ down \in [Pages -> Seq(Tv)]
  /\ presses \in Nat /\ lags \in Nat /\ losses \in Nat

(* A page never believes that it is stabilizing when nothing is left to    *)
(* tell it otherwise: the flags that hold back everything else are up only *)
(* while the transition's frame function is scheduled (animations.js       *)
(* 266-322).                                                               *)
NotStuck ==
  \A p \in Pages : (page[p].processing \/ page[p].stabilizing) => page[p].loop

(* Pages store volumes without asking.  Still, once nothing is under way,  *)
(* every connected page has the state of the server, volume included.      *)
PageShowsServer ==
  \A p \in Pages : page[p].online /\ (\A q \in Pages : ~UnderWay(q))
                     => page[p].tv = server

(* "Hard limit: Never exceed max volume" (animations.js 252), as far as it *)
(* goes: in the end an audible volume is no more than 2 above the limit,   *)
(* however it got there and whatever was under way.  2 is what the monitor *)
(* of the frames tolerates.                                                *)
LimitHolds ==
  <>[](server.powered /\ ~server.muted /\ Pages # {}
         => server.volume <= MaxVolume + 2)

(* Echoes of a page's own volumes, late ones included, do not keep it      *)
(* stabilizing: every chain of transitions comes to an end.  The run has   *)
(* one page: two on the same app answer each other's volumes for ever.     *)
Settles == <>[](\A p \in Pages : ~page[p].loop)
=============================================================================
