-------------------------- MODULE PageVolumeProofs --------------------------
(***************************************************************************)
(* Theorems about PageVolume, for every number of pages, presses, lost     *)
(* connections and frames drawn while messages are under way.              *)
(***************************************************************************)
EXTENDS PageVolume, TvStateProofs, TLAPS

(* When a page believes that it is stabilizing: a volume it has accepted   *)
(* to go for is one that a transition goes for, and lies within its limits.*)
FlagsFit(g) ==
  /\ g.processing => g.stabilizing
  /\ g.stabilizing => g.loop /\ g.to \in MinVolume..MaxVolume

-----------------------------------------------------------------------------
(* The functions on the record of a page.                                  *)

LEMMA ClampedType ==
  ASSUME NEW v \in Int
  PROVE  Clamped(v) \in MinVolume..MaxVolume /\ Clamped(v) \in 0..100
BY DEF Clamped, MinVolume, MaxVolume

LEMMA AdjustmentType == \A app : Adjustment(app) \in Int
BY DEF Adjustment, YouTube, Netflix, AmazonPrime, HboMax

LEMMA StabilizedType ==
  ASSUME NEW v \in 0..100, NEW app
  PROVE  Stabilized(v, app) \in MinVolume..MaxVolume /\ Stabilized(v, app) \in 0..100
<1>1. v + Adjustment(app) \in Int
  BY AdjustmentType
<1>2. MaxVolume \in MinVolume..MaxVolume /\ MaxVolume \in 0..100
  BY DEF MaxVolume, MinVolume
<1> QED BY <1>1, <1>2, ClampedType DEF Stabilized

LEMMA OneMoreType == \A n \in 0..MaxTimers : OneMore(n) \in 0..MaxTimers
BY DEF OneMore, MaxTimers

(* A transition, or the end of the last one, leaves the flags consistent   *)
(* whatever they were.                                                     *)
LEMMA SmoothRight ==
  ASSUME NEW g \in PageState, NEW from \in 0..100, NEW to \in MinVolume..MaxVolume
  PROVE  /\ Smooth(g, from, to) \in PageState
         /\ FlagsFit(Smooth(g, from, to))
         /\ Smooth(g, from, to).tv = g.tv
         /\ Smooth(g, from, to).online = g.online
<1> DEFINE same == [g EXCEPT !.stabilizing = FALSE, !.processing = FALSE]
           on == [g EXCEPT !.stabilizing = TRUE, !.from = from, !.to = to,
                           !.half = FALSE, !.loop = TRUE]
<1>0. to \in 0..100
  BY DEF MinVolume, MaxVolume
<1>1. /\ same \in PageState /\ same.tv = g.tv /\ same.online = g.online
      /\ same.stabilizing = FALSE /\ same.processing = FALSE
  BY DEF PageState
<1>2. /\ on \in PageState /\ on.tv = g.tv /\ on.online = g.online
      /\ on.stabilizing = TRUE /\ on.loop = TRUE /\ on.to = to
  BY <1>0 DEF PageState
<1>3. Smooth(g, from, to) \in {same, on}
  BY DEF Smooth
<1> HIDE DEF same, on
<1>4. FlagsFit(same) /\ FlagsFit(on)
  BY <1>1, <1>2 DEF FlagsFit
<1> QED BY <1>1, <1>2, <1>3, <1>4

LEMMA OnAppSwitchRight ==
  ASSUME NEW g \in PageState, NEW app, NEW v \in 0..100
  PROVE  /\ OnAppSwitch(g, app, v) \in PageState
         /\ FlagsFit(OnAppSwitch(g, app, v))
         /\ OnAppSwitch(g, app, v).tv = g.tv
         /\ OnAppSwitch(g, app, v).online = g.online
<1> DEFINE t == Clamped(TargetVolume + Adjustment(app))
           h == [g EXCEPT !.processing = TRUE, !.last = t]
<1>1. TargetVolume + Adjustment(app) \in Int
  BY AdjustmentType DEF TargetVolume
<1>2. t \in MinVolume..MaxVolume /\ t \in 0..100
  BY <1>1, ClampedType
<1>3. h \in PageState /\ h.tv = g.tv /\ h.online = g.online
  BY <1>2 DEF PageState
<1>4. OnAppSwitch(g, app, v) = Smooth(h, v, t)
  BY DEF OnAppSwitch
<1> HIDE DEF t, h
<1>5. /\ Smooth(h, v, t) \in PageState /\ FlagsFit(Smooth(h, v, t))
      /\ Smooth(h, v, t).tv = h.tv /\ Smooth(h, v, t).online = h.online
  BY <1>2, <1>3, SmoothRight
<1> QED BY <1>3, <1>4, <1>5

LEMMA VolumeDiffRight ==
  ASSUME NEW g \in PageState, FlagsFit(g), NEW s \in Tv
  PROVE  /\ VolumeDiff(g, s) \in PageState
         /\ FlagsFit(VolumeDiff(g, s))
         /\ VolumeDiff(g, s).online = g.online
<1> DEFINE t == Stabilized(s.volume, s.app)
           h == [g EXCEPT !.processing = TRUE, !.last = t]
           k == [g EXCEPT !.soon = OneMore(@)]
<1>1. s.volume \in 0..100
  BY DEF Tv
<1>2. t \in MinVolume..MaxVolume /\ t \in 0..100
  BY <1>1, StabilizedType
<1>3. h \in PageState /\ h.online = g.online
  BY <1>2 DEF PageState
<1>4. k \in PageState /\ FlagsFit(k) /\ k.online = g.online
  BY OneMoreType DEF PageState, FlagsFit
<1>5. VolumeDiff(g, s) \in {Smooth(h, s.volume, t), k, g}
  BY DEF VolumeDiff
<1> HIDE DEF t, h, k
<1>6. /\ Smooth(h, s.volume, t) \in PageState /\ FlagsFit(Smooth(h, s.volume, t))
      /\ Smooth(h, s.volume, t).online = h.online
  BY <1>1, <1>2, <1>3, SmoothRight
<1> QED BY <1>3, <1>4, <1>5, <1>6

LEMMA UpdateRight ==
  ASSUME NEW g \in PageState, FlagsFit(g), NEW s \in Tv
  PROVE  /\ Update(g, s) \in PageState
         /\ FlagsFit(Update(g, s))
         /\ Update(g, s).online = g.online
         /\ Update(g, s).tv = s
<1> DEFINE a == IF g.tv.app # s.app /\ s.powered
                THEN OnAppSwitch(g, s.app, s.volume) ELSE g
           b == IF g.tv.volume # s.volume /\ s.powered THEN VolumeDiff(a, s) ELSE a
<1>1. s.volume \in 0..100
  BY DEF Tv
<1>2. a \in PageState /\ FlagsFit(a) /\ a.online = g.online
  BY <1>1, OnAppSwitchRight
<1>3. b \in PageState /\ FlagsFit(b) /\ b.online = g.online
  BY <1>2, VolumeDiffRight
<1>4. Update(g, s) = [b EXCEPT !.tv = s]
  BY DEF Update
<1> HIDE DEF a, b
<1> QED BY <1>3, <1>4 DEF PageState, FlagsFit

LEMMA MonitorRight ==
  ASSUME NEW g \in PageState, FlagsFit(g)
  PROVE  /\ Monitor(g) \in PageState
         /\ FlagsFit(Monitor(g))
         /\ Monitor(g).tv = g.tv
         /\ Monitor(g).online = g.online
<1>1. g.tv.volume \in 0..100
  BY DEF PageState, Tv
<1>2. Monitor(g) \in {OnAppSwitch(g, g.tv.app, g.tv.volume), g}
  BY DEF Monitor
<1> DEFINE h == OnAppSwitch(g, g.tv.app, g.tv.volume)
<1>3. h \in PageState /\ FlagsFit(h) /\ h.tv = g.tv /\ h.online = g.online
  BY <1>1, OnAppSwitchRight
<1> HIDE DEF h
<1> QED BY <1>2, <1>3 DEF h

LEMMA VolumeAtType ==
  ASSUME NEW g \in PageState, NEW ended \in BOOLEAN
  PROVE  VolumeAt(g, ended) \in 0..100
<1>1. g.from \in 0..100 /\ g.to \in 0..100
  BY DEF PageState
<1> QED BY SMTT(30), <1>1 DEF VolumeAt

(* What a frame may do to the state of the TV that a page shows.           *)
TvMoves(g, h) ==
  /\ h.online = g.online
  /\ h.tv = [g.tv EXCEPT !.volume = h.tv.volume]
  /\ ~g.online => h.tv.volume = g.tv.volume

LEMMA AdvanceRight ==
  ASSUME NEW g \in PageState, FlagsFit(g), NEW ended \in BOOLEAN
  PROVE  /\ Advance(g, ended) \in PageState
         /\ FlagsFit(Advance(g, ended))
         /\ TvMoves(g, Advance(g, ended))
<1> DEFINE v == VolumeAt(g, ended)
           h == IF g.online THEN [g EXCEPT !.tv.volume = v] ELSE g
<1>1. v \in 0..100
  BY VolumeAtType
<1> HIDE DEF v
<1>2. g.tv \in Tv /\ g.tv = [g.tv EXCEPT !.volume = g.tv.volume]
  BY DEF PageState, Tv
<1>3. [g.tv EXCEPT !.volume = v] \in Tv /\ [g.tv EXCEPT !.volume = v].volume = v
  BY <1>1, <1>2 DEF Tv
<1>4. h \in PageState /\ FlagsFit(h) /\ TvMoves(g, h)
      /\ h.stabilizing = g.stabilizing
  BY <1>2, <1>3 DEF PageState, FlagsFit, TvMoves
<1> HIDE DEF h
<1>5. CASE ~g.stabilizing
  <2>1. Advance(g, ended) = [g EXCEPT !.loop = FALSE]
    BY <1>5 DEF Advance
  <2> QED BY <1>2, <1>5, <2>1 DEF PageState, FlagsFit, TvMoves
<1>6. CASE g.stabilizing /\ ended
  <2>1. Advance(g, ended) = [h EXCEPT !.stabilizing = FALSE, !.processing = FALSE,
                                      !.loop = FALSE, !.later = OneMore(@)]
    BY <1>6 DEF Advance, h, v
  <2>2. OneMore(h.later) \in 0..MaxTimers
    BY <1>4, OneMoreType DEF PageState
  <2> QED BY ZenonT(40), <1>4, <2>1, <2>2 DEF PageState, FlagsFit, TvMoves
<1>7. CASE g.stabilizing /\ ~ended
  <2>1. Advance(g, ended) = [h EXCEPT !.half = TRUE]
    BY <1>7 DEF Advance, h, v
  <2> QED BY ZenonT(40), <1>4, <2>1 DEF PageState, FlagsFit, TvMoves
<1> QED BY <1>5, <1>6, <1>7

LEMMA AfterFrameRight ==
  ASSUME NEW g \in PageState, FlagsFit(g), NEW ended \in BOOLEAN
  PROVE  /\ AfterFrame(g, ended) \in PageState
         /\ FlagsFit(AfterFrame(g, ended))
         /\ TvMoves(g, AfterFrame(g, ended))
<1>1. /\ Monitor(g) \in PageState /\ FlagsFit(Monitor(g))
      /\ Monitor(g).tv = g.tv /\ Monitor(g).online = g.online
  BY MonitorRight
<1>2. TvMoves(g, Monitor(g))
  <2>1. g.tv = [g.tv EXCEPT !.volume = g.tv.volume]
    BY DEF PageState, Tv
  <2> QED BY <1>1, <2>1 DEF TvMoves
<1>3. AfterFrame(g, ended) \in {Advance(Monitor(g), ended), Monitor(g)}
  BY DEF AfterFrame
<1>4. TvMoves(Monitor(g), Advance(Monitor(g), ended)) => TvMoves(g, Advance(Monitor(g), ended))
  BY <1>1 DEF TvMoves
<1> QED BY <1>1, <1>2, <1>3, <1>4, AdvanceRight

-----------------------------------------------------------------------------
(* The inductive invariant.                                                *)

(* The last broadcast on its way to a connected page has the state of the  *)
(* server; a page that nothing is on its way to or from shows it.          *)
InStep(p) ==
  /\ page[p].online /\ down[p] # <<>> => down[p][Len(down[p])] = server
  /\ page[p].online /\ down[p] = <<>> /\ up[p] = <<>> => page[p].tv = server
  /\ ~page[p].online => down[p] = <<>> /\ up[p] = <<>>

PagesRight == \A p \in Pages : FlagsFit(page[p]) /\ InStep(p)

IInv == TypeInv /\ PagesRight

LEMMA AppendRight ==
  ASSUME NEW S, NEW q \in Seq(S), NEW x \in S
  PROVE  /\ Append(q, x) \in Seq(S) /\ Append(q, x) # <<>>
         /\ Append(q, x)[Len(Append(q, x))] = x
OBVIOUS

LEMMA WithoutRight ==
  ASSUME NEW S, NEW q \in Seq(S), NEW i \in DOMAIN q
  PROVE  /\ q[i] \in S /\ q # <<>>
         /\ Without(q, i) \in Seq(S)
<1>1. /\ Len(q) \in Nat \ {0} /\ i \in 1..Len(q)
      /\ \A j \in 1..Len(q) : q[j] \in S
  OBVIOUS
<1> DEFINE n == Len(q) - 1
           r == [j \in 1..n |-> IF j < i THEN q[j] ELSE q[j + 1]]
<1>2. n \in Nat /\ \A j \in 1..n : j \in 1..Len(q) /\ j + 1 \in 1..Len(q)
  BY <1>1
<1>3. r \in [1..n -> S]
  BY <1>1, <1>2
<1>4. r \in Seq(S)
  <2> HIDE DEF n, r
  <2> QED BY <1>2, <1>3
<1>5. Without(q, i) = r
  BY DEF Without
<1> QED BY <1>1, <1>4, <1>5

LEMMA TailRight ==
  ASSUME NEW S, NEW q \in Seq(S), q # <<>>
  PROVE  /\ Head(q) \in S /\ Tail(q) \in Seq(S)
         /\ Tail(q) = <<>> => Head(q) = q[Len(q)]
         /\ Tail(q) # <<>> => Tail(q)[Len(Tail(q))] = q[Len(q)]
<1>1. Len(q) \in Nat \ {0} /\ Head(q) = q[1] /\ Head(q) \in S
  OBVIOUS
<1>2. Tail(q) \in Seq(S) /\ Len(Tail(q)) = Len(q) - 1
  BY <1>1
<1>3. \A i \in 1..Len(Tail(q)) : Tail(q)[i] = q[i + 1]
  BY <1>1, <1>2
<1>4. ASSUME Tail(q) = <<>> PROVE Head(q) = q[Len(q)]
  <2>1. Len(q) = 1
    BY <1>1, <1>2, <1>4
  <2> QED BY <1>1, <2>1
<1>5. ASSUME Tail(q) # <<>> PROVE Tail(q)[Len(Tail(q))] = q[Len(q)]
  <2>1. Len(Tail(q)) \in 1..Len(Tail(q))
    BY <1>1, <1>2, <1>5
  <2> QED BY <1>1, <1>2, <1>3, <2>1
<1> QED BY <1>1, <1>2, <1>4, <1>5

LEMMA RightInit == Init => IInv
<1> SUFFICES ASSUME Init PROVE IInv
  OBVIOUS
<1>1. PICK v \in Volumes : server = [InitTv EXCEPT !.powered = TRUE, !.volume = v]
  BY DEF Init
<1>2. v \in 0..100
  BY PageVolumeAssumption
<1>3. server \in Tv /\ server.volume = v
  BY <1>1, <1>2, InitType DEF Tv
<1>4. InitPage(v) \in PageState /\ InitPage(v).tv = server /\ InitPage(v).online
      /\ FlagsFit(InitPage(v))
  BY <1>1, <1>2, <1>3 DEF InitPage, PageState, FlagsFit, None, MaxTimers
<1>5. page = [p \in Pages |-> InitPage(v)]
  BY <1>3 DEF Init
<1>6. TypeInv
  <2>1. page \in [Pages -> PageState]
    BY <1>4, <1>5
  <2>2. <<>> \in Seq(0..100) /\ <<>> \in Seq(Tv)
    OBVIOUS
  <2>3. up \in [Pages -> Seq(0..100)] /\ down \in [Pages -> Seq(Tv)]
    BY <2>2 DEF Init
  <2> QED BY <1>3, <2>1, <2>3 DEF Init, TypeInv
<1>7. PagesRight
  BY <1>4, <1>5 DEF Init, PagesRight, InStep
<1> QED BY <1>6, <1>7 DEF IInv

(* The server stores a state and broadcasts it.                            *)
LEMMA BroadcastRight ==
  ASSUME IInv, server' \in Tv, Broadcast(server'), UNCHANGED page,
         up' \in [Pages -> Seq(0..100)],
         \A p \in Pages : up[p] = <<>> => up'[p] = <<>>
  PROVE  /\ down' \in [Pages -> Seq(Tv)] /\ PagesRight'
<1>1. \A p \in Pages : down[p] \in Seq(Tv)
  BY DEF IInv, TypeInv
<1>2. \A p \in Pages : /\ page[p].online => down'[p] = Append(down[p], server')
                       /\ ~page[p].online => down'[p] = down[p]
  BY DEF Broadcast
<1>3. \A p \in Pages : /\ Append(down[p], server') \in Seq(Tv)
                       /\ Append(down[p], server') # <<>>
                       /\ Append(down[p], server')[Len(Append(down[p], server'))] = server'
  BY <1>1, AppendRight
<1>4. down' \in [Pages -> Seq(Tv)]
  BY <1>1, <1>3 DEF Broadcast
<1>5. ASSUME NEW p \in Pages PROVE InStep(p)'
  <2>1. InStep(p)
    BY DEF IInv, PagesRight
  <2>2. CASE page[p].online
    BY <1>2, <1>3, <2>2 DEF InStep
  <2>3. CASE ~page[p].online
    BY <1>2, <2>1, <2>3 DEF InStep
  <2> QED BY <2>2, <2>3
<1> QED BY <1>4, <1>5 DEF IInv, PagesRight

(* A step that concerns one page leaves the others in step.                *)
LEMMA OthersKept ==
  ASSUME IInv, NEW p \in Pages, UNCHANGED server,
         \A q \in Pages \ {p} : /\ page'[q] = page[q]
                                /\ up'[q] = up[q] /\ down'[q] = down[q],
         FlagsFit(page'[p]), InStep(p)'
  PROVE  PagesRight'
BY DEF IInv, PagesRight, InStep

LEMMA RightNext == IInv /\ [Next]_vars => IInv'
<1> SUFFICES ASSUME IInv, [Next]_vars PROVE IInv'
  OBVIOUS
<1>0. /\ server \in Tv /\ page \in [Pages -> PageState]
      /\ up \in [Pages -> Seq(0..100)] /\ down \in [Pages -> Seq(Tv)]
      /\ presses \in Nat /\ lags \in Nat /\ losses \in Nat
  BY DEF IInv, TypeInv
<1>a. \A p \in Pages : FlagsFit(page[p]) /\ InStep(p)
  BY DEF IInv, PagesRight
<1>1. ASSUME NEW b \in Pressed, Press(b) PROVE IInv'
  <2>1. server' \in Tv
    BY <1>0, <1>1, AfterPressType, PageVolumeAssumption DEF Press
  <2>2. down' \in [Pages -> Seq(Tv)] /\ PagesRight'
    BY <1>0, <1>1, <2>1, BroadcastRight DEF Press
  <2> QED BY <1>0, <1>1, <2>1, <2>2 DEF Press, IInv, TypeInv
<1>2. ASSUME NEW p \in Pages, UpdateVolume(p) PROVE IInv'
  <2>0. PICK i \in DOMAIN up[p] :
          /\ up' = [up EXCEPT ![p] = Without(@, i)]
          /\ server' = [server EXCEPT !.volume = up[p][i]]
          /\ Broadcast(server')
          /\ UNCHANGED <<page, presses, lags, losses>>
    BY <1>2 DEF UpdateVolume
  <2>1. /\ up[p] \in Seq(0..100) /\ up[p][i] \in 0..100 /\ up[p] # <<>>
        /\ Without(up[p], i) \in Seq(0..100)
    BY <1>0, <2>0, WithoutRight
  <2>2. server' \in Tv
    BY <1>0, <2>0, <2>1 DEF Tv
  <2>3. /\ up' \in [Pages -> Seq(0..100)]
        /\ \A q \in Pages : up[q] = <<>> => up'[q] = <<>>
    BY <1>0, <2>0, <2>1
  <2>4. down' \in [Pages -> Seq(Tv)] /\ PagesRight'
    BY <2>0, <2>2, <2>3, BroadcastRight
  <2> QED BY <1>0, <2>0, <2>2, <2>3, <2>4 DEF IInv, TypeInv
<1>3. ASSUME NEW p \in Pages, Receive(p) PROVE IInv'
  <2>1. /\ Head(down[p]) \in Tv /\ Tail(down[p]) \in Seq(Tv)
        /\ Tail(down[p]) = <<>> => Head(down[p]) = down[p][Len(down[p])]
        /\ Tail(down[p]) # <<>> =>
             Tail(down[p])[Len(Tail(down[p]))] = down[p][Len(down[p])]
    BY <1>0, <1>3, TailRight DEF Receive
  <2> DEFINE g == Update(page[p], Head(down[p]))
  <2>2. /\ g \in PageState /\ FlagsFit(g) /\ g.online = page[p].online
        /\ g.tv = Head(down[p])
    BY <1>0, <1>a, <2>1, UpdateRight
  <2>3. /\ page' = [page EXCEPT ![p] = g]
        /\ down' = [down EXCEPT ![p] = Tail(@)]
        /\ down[p] # <<>> /\ UNCHANGED <<server, up, presses, lags, losses>>
    BY <1>3 DEF Receive
  <2> HIDE DEF g
  <2>4. page'[p] = g /\ down'[p] = Tail(down[p])
    BY <1>0, <2>3
  <2>5. InStep(p)'
    BY <1>a, <2>1, <2>2, <2>3, <2>4 DEF InStep
  <2>6. PagesRight'
    BY <1>0, <2>2, <2>3, <2>4, <2>5, OthersKept
  <2> QED BY <1>0, <2>1, <2>2, <2>3, <2>6 DEF IInv, TypeInv
<1>4. ASSUME NEW p \in Pages, NEW ended \in BOOLEAN, Frame(p, ended) PROVE IInv'
  <2> DEFINE g == AfterFrame(page[p], ended)
             v == g.tv.volume
  <2>1. g \in PageState /\ FlagsFit(g) /\ TvMoves(page[p], g)
    BY <1>0, <1>a, AfterFrameRight
  <2>2. /\ page' = [page EXCEPT ![p] = g] /\ page'[p] = g
        /\ UNCHANGED <<server, down, presses, losses>>
        /\ lags' \in {lags + 1, lags}
    BY <1>0, <1>4 DEF Frame
  <2>3. v \in 0..100
    BY <2>1 DEF PageState, Tv
  <2>4. up' = [up EXCEPT ![p] = IF v # page[p].tv.volume THEN Append(@, v) ELSE @]
    BY <1>4, <2>2 DEF Frame
  <2> HIDE DEF g
  <2>5. /\ Append(up[p], v) \in Seq(0..100) /\ Append(up[p], v) # <<>>
    <3>1. up[p] \in Seq(0..100)
      BY <1>0
    <3> QED BY <2>3, <3>1, AppendRight
  <2>6. up' \in [Pages -> Seq(0..100)]
    BY <1>0, <2>4, <2>5
  <2>7. InStep(p)'
    <3>1. CASE v # page[p].tv.volume
      <4>1. up'[p] # <<>> /\ page[p].online /\ g.online
        BY <1>0, <2>1, <2>4, <2>5, <3>1 DEF TvMoves
      <4> QED BY <1>a, <2>2, <4>1 DEF InStep
    <3>2. CASE v = page[p].tv.volume
      <4>1. up'[p] = up[p] /\ g.online = page[p].online
        BY <1>0, <2>1, <2>4, <3>2 DEF TvMoves
      <4>2. g.tv = page[p].tv
        <5>1. page[p].tv \in Tv
          BY <1>0 DEF PageState
        <5>2. page[p].tv = [page[p].tv EXCEPT !.volume = page[p].tv.volume]
          BY <5>1 DEF Tv
        <5> QED BY <2>1, <3>2, <5>2 DEF TvMoves
      <4> QED BY <1>a, <2>2, <4>1, <4>2 DEF InStep
    <3> QED BY <3>1, <3>2
  <2>8. PagesRight'
    BY <1>0, <2>1, <2>2, <2>4, <2>7, OthersKept
  <2>9. page' \in [Pages -> PageState]
    BY <1>0, <2>1, <2>2
  <2> QED BY <1>0, <2>2, <2>6, <2>8, <2>9 DEF IInv, TypeInv
<1>5. ASSUME NEW p \in Pages, Soon(p) PROVE IInv'
  <2> DEFINE g == [page[p] EXCEPT !.soon = @ - 1, !.processing = FALSE, !.last = None]
  <2>1. /\ page' = [page EXCEPT ![p] = g]
        /\ UNCHANGED <<server, up, down, presses, lags, losses>>
    BY <1>0, <1>5 DEF Soon
  <2>2. page[p] \in PageState /\ page[p].soon > 0
    BY <1>0, <1>5 DEF Soon
  <2>3. page[p].soon - 1 \in 0..MaxTimers
    BY <2>2 DEF PageState, MaxTimers
  <2>4. /\ g \in PageState /\ g.online = page[p].online /\ g.tv = page[p].tv
        /\ g.stabilizing = page[p].stabilizing /\ g.loop = page[p].loop
        /\ g.to = page[p].to
        /\ g.processing = FALSE
    BY <2>2, <2>3 DEF PageState
  <2> HIDE DEF g
  <2>5. FlagsFit(g)
    BY <1>a, <2>4 DEF FlagsFit
  <2>6. page'[p] = g
    BY <1>0, <2>1
  <2>7. InStep(p)'
    BY <1>a, <2>1, <2>4, <2>6 DEF InStep
  <2>8. PagesRight'
    BY <1>0, <2>1, <2>5, <2>6, <2>7, OthersKept
  <2> QED BY <1>0, <2>1, <2>4, <2>8 DEF IInv, TypeInv
<1>6. ASSUME NEW p \in Pages, Later(p) PROVE IInv'
  <2> DEFINE g == [page[p] EXCEPT !.later = @ - 1, !.last = None]
  <2>1. /\ page' = [page EXCEPT ![p] = g]
        /\ UNCHANGED <<server, up, down, presses, lags, losses>>
    BY <1>0, <1>6 DEF Later
  <2>2. page[p] \in PageState /\ page[p].later > 0
    BY <1>0, <1>6 DEF Later
  <2>3. page[p].later - 1 \in 0..MaxTimers
    BY <2>2 DEF PageState, MaxTimers
  <2>4. /\ g \in PageState /\ g.online = page[p].online /\ g.tv = page[p].tv
        /\ g.stabilizing = page[p].stabilizing /\ g.loop = page[p].loop
        /\ g.to = page[p].to
        /\ g.processing = page[p].processing
    BY <2>2, <2>3 DEF PageState
  <2> HIDE DEF g
  <2>5. FlagsFit(g)
    BY <1>a, <2>4 DEF FlagsFit
  <2>6. page'[p] = g
    BY <1>0, <2>1
  <2>7. InStep(p)'
    BY <1>a, <2>1, <2>4, <2>6 DEF InStep
  <2>8. PagesRight'
    BY <1>0, <2>1, <2>5, <2>6, <2>7, OthersKept
  <2> QED BY <1>0, <2>1, <2>4, <2>8 DEF IInv, TypeInv
<1>7. ASSUME NEW p \in Pages, Disconnect(p) \/ Connect(p) PROVE IInv'
  <2> DEFINE g(on) == [page[p] EXCEPT !.online = on]
  <2>1. page[p] \in PageState
    BY <1>0
  <2>2. ASSUME NEW on \in BOOLEAN
        PROVE  /\ g(on) \in PageState /\ g(on).online = on
               /\ g(on).stabilizing = page[p].stabilizing
               /\ g(on).loop = page[p].loop /\ g(on).to = page[p].to
               /\ g(on).processing = page[p].processing
    BY <2>1 DEF PageState
  <2>3. \A on \in BOOLEAN : FlagsFit(g(on))
    BY <1>a, <2>2 DEF FlagsFit
  <2>4. CASE Disconnect(p)
    <3>1. /\ page' = [page EXCEPT ![p] = g(FALSE)]
          /\ up' = [up EXCEPT ![p] = <<>>] /\ down' = [down EXCEPT ![p] = <<>>]
          /\ losses' = losses + 1 /\ UNCHANGED <<server, presses, lags>>
      BY <1>0, <2>4 DEF Disconnect
    <3> HIDE DEF g
    <3>2. page'[p] = g(FALSE) /\ up'[p] = <<>> /\ down'[p] = <<>>
      BY <1>0, <3>1
    <3>3. InStep(p)'
      BY <2>2, <3>2 DEF InStep
    <3>4. PagesRight'
      BY <1>0, <2>3, <3>1, <3>2, <3>3, OthersKept
    <3>5. page' \in [Pages -> PageState]
      BY <1>0, <2>2, <3>1
    <3>6. up' \in [Pages -> Seq(0..100)] /\ down' \in [Pages -> Seq(Tv)]
      BY <1>0, <3>1
    <3>7. /\ server' \in Tv
          /\ presses' \in Nat /\ lags' \in Nat /\ losses' \in Nat
      BY <1>0, <3>1
    <3> QED BY <3>4, <3>5, <3>6, <3>7 DEF IInv, TypeInv
  <2>5. CASE Connect(p)
    <3>1. /\ page' = [page EXCEPT ![p] = g(TRUE)]
          /\ down' = [down EXCEPT ![p] = <<server>>]
          /\ UNCHANGED <<server, up, presses, lags, losses>>
      BY <1>0, <2>5 DEF Connect
    <3> HIDE DEF g
    <3>2. page'[p] = g(TRUE) /\ down'[p] = <<server>>
      BY <1>0, <3>1
    <3>3. <<server>> \in Seq(Tv) /\ <<server>> # <<>> /\ <<server>>[Len(<<server>>)] = server
      BY <1>0
    <3>4. InStep(p)'
      BY <2>2, <3>1, <3>2, <3>3 DEF InStep
    <3>5. PagesRight'
      BY <1>0, <2>3, <3>1, <3>2, <3>4, OthersKept
    <3> QED BY <1>0, <2>2, <3>1, <3>3, <3>5 DEF IInv, TypeInv
  <2> QED BY <1>7, <2>4, <2>5
<1>8. CASE UNCHANGED vars
  BY <1>8 DEF vars, IInv, TypeInv, PagesRight, InStep
<1> QED BY <1>1, <1>2, <1>3, <1>4, <1>5, <1>6, <1>7, <1>8 DEF Next

LEMMA AlwaysRight == Spec => []IInv
BY RightInit, RightNext, PTL DEF Spec

-----------------------------------------------------------------------------
(* Volumes under way stay volumes and a page goes for none outside its     *)
(* limits, for any number of pages and whatever is under way.              *)
THEOREM TypeCorrect == Spec => []TypeInv
<1>1. IInv => TypeInv
  BY DEF IInv
<1> QED BY <1>1, AlwaysRight, PTL

(* The flags of smoothVolumeTransition never stay up without a frame that  *)
(* will lower them.                                                        *)
THEOREM FlagsComeDown == Spec => []NotStuck
<1>1. IInv => NotStuck
  BY DEF IInv, PagesRight, FlagsFit, NotStuck
<1> QED BY <1>1, AlwaysRight, PTL

(* However many pages move the volume at once, when nothing is under way   *)
(* every connected page shows the state of the server.                     *)
THEOREM PagesShowServer == Spec => []PageShowsServer
<1>1. IInv => PageShowsServer
  BY DEF IInv, PagesRight, InStep, PageShowsServer, UnderWay
<1> QED BY <1>1, AlwaysRight, PTL

-----------------------------------------------------------------------------
(* The hard limit, a frame at a time.                                      *)

(* What the monitor of the frames does not tolerate. *)
TooLoud(s) == s.powered /\ ~s.muted /\ s.volume > MaxVolume + 2

(* A page that shows a volume above the limit is already on its way to one *)
(* within, or this frame sets it on its way.                               *)
Pursues(g, h) == h.stabilizing \/ h.tv.volume \in MinVolume..MaxVolume

LEMMA MonitorActs ==
  ASSUME NEW g \in PageState, FlagsFit(g), TooLoud(g.tv)
  PROVE  Monitor(g).stabilizing
<1> DEFINE v == g.tv.volume  a == g.tv.app
           t == Clamped(TargetVolume + Adjustment(a))
           h == [g EXCEPT !.processing = TRUE, !.last = t]
<1>0. CASE g.stabilizing
  BY <1>0 DEF Monitor
<1>1. CASE ~g.stabilizing
  <2>1. v \in 0..100 /\ v > 72
    BY DEF PageState, Tv, TooLoud, MaxVolume
  <2>2. Distance(Stabilized(v, a), v) > 2
    BY <2>1 DEF Stabilized, Distance, MaxVolume
  <2>3. Monitor(g) = OnAppSwitch(g, a, v)
    BY <1>1, <2>2 DEF Monitor, TooLoud
  <2>4. t \in MinVolume..MaxVolume
    <3>1. TargetVolume + Adjustment(a) \in Int
      BY AdjustmentType DEF TargetVolume
    <3> QED BY <3>1, ClampedType
  <2>5. OnAppSwitch(g, a, v) = Smooth(h, v, t)
    BY DEF OnAppSwitch
  <2>6. h \in PageState
    BY <2>4 DEF PageState
  <2> HIDE DEF h, t, v, a
  <2>7. v # t
    BY <2>1, <2>4 DEF MinVolume, MaxVolume
  <2>8. Smooth(h, v, t).stabilizing
    BY <2>6, <2>7 DEF Smooth, PageState
  <2> QED BY <2>3, <2>5, <2>8
<1> QED BY <1>0, <1>1

LEMMA FramePursues ==
  ASSUME NEW g \in PageState, FlagsFit(g), NEW ended \in BOOLEAN,
         g.online, TooLoud(g.tv)
  PROVE  Pursues(g, AfterFrame(g, ended))
<1> DEFINE m == Monitor(g)
<1>1. m \in PageState /\ FlagsFit(m) /\ m.online = g.online /\ m.stabilizing
  BY MonitorRight, MonitorActs
<1>2. AfterFrame(g, ended) \in {Advance(m, ended), m}
  BY DEF AfterFrame
<1> HIDE DEF m
<1>3. Pursues(g, m)
  BY <1>1 DEF Pursues
<1>4. CASE ended
  <2> DEFINE h == [m EXCEPT !.tv.volume = m.to]
  <2>1. Advance(m, ended) = [h EXCEPT !.stabilizing = FALSE, !.processing = FALSE,
                                      !.loop = FALSE, !.later = OneMore(@)]
    BY <1>1, <1>4 DEF Advance, VolumeAt
  <2>2. h.tv.volume = m.to
    BY <1>1 DEF PageState, Tv
  <2>3. DOMAIN h = DOMAIN m
    OBVIOUS
  <2> HIDE DEF h
  <2>4. Advance(m, ended).tv = h.tv
    BY <1>1, <2>1, <2>3 DEF PageState
  <2>5. Pursues(g, Advance(m, ended))
    BY <1>1, <2>2, <2>4 DEF Pursues, FlagsFit
  <2> QED BY <1>2, <1>3, <2>5
<1>5. CASE ~ended
  <2> DEFINE h == [m EXCEPT !.tv.volume = VolumeAt(m, ended)]
  <2>1. Advance(m, ended) = [h EXCEPT !.half = TRUE]
    BY <1>1, <1>5 DEF Advance
  <2>2. h.stabilizing = m.stabilizing
    BY <1>1 DEF PageState
  <2> HIDE DEF h
  <2>3. Advance(m, ended).stabilizing = h.stabilizing
    BY <2>1
  <2>4. Pursues(g, Advance(m, ended))
    BY <1>1, <2>2, <2>3 DEF Pursues
  <2> QED BY <1>2, <1>3, <2>4
<1> QED BY <1>4, <1>5

(* "Hard limit: Never exceed max volume", as a frame can keep it: with     *)
(* nothing under way, the next frame of a connected page finds a volume    *)
(* of the server that is too loud, and then the page is on its way to one  *)
(* within the limits or has stored such a one and sends it (Monitor and    *)
(* the frames of animations.js).  LimitHolds is this with the fairness of  *)
(* the frames and the network.                                             *)
THEOREM LimitPursued ==
  Spec => [][\A p \in Pages, ended \in BOOLEAN :
               /\ Frame(p, ended)
               /\ page[p].online /\ (\A q \in Pages : ~UnderWay(q))
               /\ TooLoud(server)
               => \/ page'[p].stabilizing /\ page'[p].to \in MinVolume..MaxVolume
                  \/ /\ page'[p].tv.volume \in MinVolume..MaxVolume
                     /\ up'[p] = <<page'[p].tv.volume>>]_vars
<1> DEFINE Kept ==
      \A p \in Pages, ended \in BOOLEAN :
        /\ Frame(p, ended)
        /\ page[p].online /\ (\A q \in Pages : ~UnderWay(q))
        /\ TooLoud(server)
        => \/ page'[p].stabilizing /\ page'[p].to \in MinVolume..MaxVolume
           \/ /\ page'[p].tv.volume \in MinVolume..MaxVolume
              /\ up'[p] = <<page'[p].tv.volume>>
<1>1. IInv /\ IInv' /\ [Next]_vars => [Kept]_vars
  <2> SUFFICES ASSUME IInv, IInv',
                      NEW p \in Pages, NEW ended \in BOOLEAN, Frame(p, ended),
                      page[p].online, \A q \in Pages : ~UnderWay(q), TooLoud(server)
               PROVE  \/ page'[p].stabilizing /\ page'[p].to \in MinVolume..MaxVolume
                      \/ /\ page'[p].tv.volume \in MinVolume..MaxVolume
                         /\ up'[p] = <<page'[p].tv.volume>>
    OBVIOUS
  <2>1. /\ page[p] \in PageState /\ FlagsFit(page[p])
        /\ up \in [Pages -> Seq(0..100)] /\ up[p] = <<>>
        /\ page[p].tv = server
    BY DEF IInv, TypeInv, PagesRight, InStep, UnderWay
  <2> DEFINE g == AfterFrame(page[p], ended)
  <2>2. Pursues(page[p], g)
    BY <2>1, FramePursues
  <2>3. page'[p] = g /\ FlagsFit(g)
    <3>1. page \in [Pages -> PageState]
      BY DEF IInv, TypeInv
    <3> QED BY <2>1, <3>1, AfterFrameRight DEF Frame
  <2> HIDE DEF g
  <2>4. up'[p] = IF g.tv.volume # page[p].tv.volume THEN Append(up[p], g.tv.volume) ELSE up[p]
    BY <2>1, <2>3 DEF Frame
  <2>5. CASE g.stabilizing
    BY <2>3, <2>5 DEF FlagsFit
  <2>6. CASE g.tv.volume \in MinVolume..MaxVolume
    <3>1. g.tv.volume # page[p].tv.volume
      <4>1. page[p].tv.volume \in 0..100 /\ page[p].tv.volume > 72
        BY <2>1 DEF TooLoud, MaxVolume, PageState, Tv
      <4> QED BY <2>6, <4>1 DEF MinVolume, MaxVolume
    <3>2. up'[p] = <<g.tv.volume>>
      BY <2>1, <2>4, <3>1
    <3> QED BY <2>3, <2>6, <3>2
  <2> QED BY <2>2, <2>5, <2>6 DEF Pursues
<1> QED BY <1>1, AlwaysRight, PTL DEF Spec

=============================================================================
