--------------------------- MODULE TvServerProofs ---------------------------
(***************************************************************************)
(* Theorems about TvServer, for every set of threads, every set of codes   *)
(* and every bound.                                                        *)
(***************************************************************************)
EXTENDS TvServer, TvStateProofs, TLAPS

-----------------------------------------------------------------------------
(* Type correctness. *)

LEMMA UnreadType == Unread \in [tv : Tv, room : Room]
BY InitType DEF Unread

LEMMA NoTimerType == NoTimer \in [pc : TimerPlace, text : Note]
BY ServerAssumption DEF NoTimer, TimerPlace, Note, NoteKind, NoNote

LEMMA NoNoteType == NoNote \in Note
BY DEF NoNote, Note, NoteKind

LEMMA TypeInit == Init => TypeInv
<1> SUFFICES ASSUME Init PROVE TypeInv
  OBVIOUS
<1>1. tv \in Tv
  BY ServerAssumption, InitType DEF Init, Tv
<1>2. /\ room \in Room
      /\ seen \in [Threads -> [tv : Tv, room : Room]]
      /\ timers \in [Press -> [pc : TimerPlace, text : Note]]
      /\ note \in Note
  BY InitType, UnreadType, NoTimerType, NoNoteType DEF Init
<1>3. /\ entry \in Seq(TypedDigit) 
      /\ typed \in [Threads -> Seq(TypedDigit)]
  BY DEF Init
<1> QED BY <1>1, <1>2, <1>3, ServerAssumption DEF Init, TypeInv, Never, Place, Code

LEMMA TypeNext == TypeInv /\ [Next]_vars => TypeInv'
<1> SUFFICES ASSUME TypeInv, [Next]_vars PROVE TypeInv'
  OBVIOUS
<1> USE ServerAssumption DEF TypeInv, Goto, Place, timerVars, entryVars, counters, locals
<1>1. ASSUME NEW t \in Threads, NEW b \in Pressed, BeginPress(t, b) PROVE TypeInv'
  <2>1. note' \in Note
    BY <1>1, NoteType DEF BeginPress, NoteKind, Code
  <2> QED BY <1>1, <2>1 DEF BeginPress
<1>2. ASSUME NEW t \in Threads, NEW v \in Volumes, UpdateVolume(t, v) PROVE TypeInv'
  <2>1. tv' \in Tv
    BY <1>2 DEF UpdateVolume, Tv
  <2> QED BY <1>2, <2>1 DEF UpdateVolume
<1>3. ASSUME NEW t \in Threads, ReadState(t) PROVE TypeInv'
  <2>1. [tv |-> tv, room |-> room] \in [tv : Tv, room : Room]
    OBVIOUS
  <2>2. seen' \in [Threads -> [tv : Tv, room : Room]]
    BY <1>3, <2>1 DEF ReadState
  <2>3. pc' \in [Threads -> Place]
    BY <1>3 DEF ReadState
  <2> QED BY <1>3, <2>2, <2>3 DEF ReadState
<1>4. ASSUME NEW t \in Threads, StoreState(t) PROVE TypeInv'
  <2>1. tv' \in Tv /\ room' \in Room
    BY <1>4, TvAfterType, RoomAfterType DEF StoreState
  <2>2. BranchNote(button[t], seen[t].tv, tv', room') \in Note
    BY <2>1, BranchNoteType
  <2>3. note' \in Note
    BY <1>4, <2>2 DEF StoreState
  <2> QED BY <1>4, <2>1, <2>3, UnreadType DEF StoreState
<1>21. ASSUME NEW t \in Threads, CloseOthers(t) PROVE TypeInv'
  BY <1>21, OthersClosedType DEF CloseOthers
<1>5. ASSUME NEW t \in Threads, CheckStale(t) PROVE TypeInv'
  BY <1>5 DEF CheckStale
<1>6. ASSUME NEW t \in Threads, ResetEntry(t) PROVE TypeInv'
  BY <1>6 DEF ResetEntry
<1>7. ASSUME NEW t \in Threads, ReadDigits(t) PROVE TypeInv'
  BY <1>7 DEF ReadDigits
<1>8. ASSUME NEW t \in Threads, AppendDigit(t) PROVE TypeInv'
  <2>1. [digit |-> button[t] - 80, at |-> now] \in TypedDigit
    BY <1>8 DEF AppendDigit, TypedDigit, Digits
  <2>2. entry' \in Seq(TypedDigit)
    BY <1>8, <2>1 DEF AppendDigit
  <2> QED BY <1>8, <2>2 DEF AppendDigit
<1>9. ASSUME NEW t \in Threads, CheckLength(t) PROVE TypeInv'
  BY <1>9 DEF CheckLength
<1>10. ASSUME NEW t \in Threads, ParseEntry(t) PROVE TypeInv'
  BY <1>10 DEF ParseEntry
<1>11. ASSUME NEW t \in Threads, Tune(t) PROVE TypeInv'
  <2> DEFINE c == NumberOf(typed[t])
  <2> HIDE DEF c
  <2>1. CASE c \in 0..MaxChannel
    <3>1. tv' = [tv EXCEPT !.channel = c, !.app = NoApp] /\ note' = <<"Channel", c>>
      BY <1>11, <2>1 DEF Tune, c
    <3>2. tv' \in Tv
      BY <2>1, <3>1 DEF Tv, AppView
    <3>3. c \in Int /\ "Channel" \in NoteKind
      BY <2>1 DEF MaxChannel, NoteKind
    <3>4. note' \in Note
      BY <3>1, <3>3, NoteType
    <3> QED BY <1>11, <3>2, <3>4 DEF Tune
  <2>2. CASE c \notin 0..MaxChannel
    <3>1. UNCHANGED tv /\ note' = <<"Invalid", 0>>
      BY <1>11, <2>2 DEF Tune, c
    <3>2. note' \in Note
      BY <3>1, NoteType DEF NoteKind
    <3> QED BY <1>11, <3>1, <3>2 DEF Tune
  <2> QED BY <2>1, <2>2
<1>12. ASSUME NEW t \in Threads, ClearEntry(t) PROVE TypeInv'
  BY <1>12 DEF ClearEntry
<1>13. ASSUME NEW t \in Threads, Emit(t) PROVE TypeInv'
  BY <1>13 DEF Emit
<1>14. ASSUME NEW t \in Threads, ScheduleClear(t) PROVE TypeInv'
  <2>1. CancelLatest \in [Press -> [pc : TimerPlace, text : Note]]
    BY NoTimerType DEF CancelLatest
  <2>2. [pc |-> "waiting", text |-> note]
          \in [pc : TimerPlace, text : Note]
    BY DEF TimerPlace
  <2>3. timers' \in [Press -> [pc : TimerPlace, text : Note]]
    BY <1>14, <2>1, <2>2 DEF ScheduleClear
  <2> QED BY <1>14, <2>3 DEF ScheduleClear, Code
<1>15. ASSUME NEW p \in Press, TimerFires(p) PROVE TypeInv'
  BY <1>15 DEF TimerFires, TimerPlace
<1>16. ASSUME NEW p \in Press, TimerCompares(p) PROVE TypeInv'
  BY <1>16, NoTimerType DEF TimerCompares, TimerPlace
<1>17. ASSUME NEW p \in Press, TimerClears(p) PROVE TypeInv'
  <2>1. [NoTimer EXCEPT !.pc = "emit"]
          \in [pc : TimerPlace, text : Note]
    BY NoTimerType DEF TimerPlace
  <2> QED BY <1>17, <2>1, NoNoteType DEF TimerClears
<1>18. ASSUME NEW p \in Press, TimerEmits(p) PROVE TypeInv'
  BY <1>18, NoTimerType DEF TimerEmits
<1>19. CASE Pause
  BY <1>19 DEF Pause
<1>20. CASE UNCHANGED vars
  BY <1>20 DEF vars
<1> QED
  BY <1>1, <1>2, <1>3, <1>4, <1>5, <1>6, <1>7, <1>8, <1>9, <1>10, <1>11, <1>12,
     <1>13, <1>14, <1>15, <1>16, <1>17, <1>18, <1>19, <1>20, <1>21
  DEF Next, ThreadStep, TimerStep

(***************************************************************************)
(* Whatever the interleaving, the volume stays in 0..100, the channel in   *)
(* 0..999 and every other field in its range (handle_button_press,         *)
(* handle_update_volume).                                                  *)
(***************************************************************************)
THEOREM TypeCorrect == Spec => []TypeInv
BY TypeInit, TypeNext, PTL DEF Spec

-----------------------------------------------------------------------------
(* The number pad. *)

LEMMA EntryNext == TypeInv /\ EntryIsConsumed /\ [Next]_vars => EntryIsConsumed'
<1> SUFFICES ASSUME TypeInv, EntryIsConsumed, [Next]_vars PROVE EntryIsConsumed'
  OBVIOUS
<1> USE DEF EntryIsConsumed, EntryLength, TypeInv, Goto, timerVars, entryVars, counters, locals
<1>1. ASSUME NEW t \in Threads, NEW b \in Pressed, BeginPress(t, b) PROVE EntryIsConsumed'
  BY <1>1 DEF BeginPress
<1>2. ASSUME NEW t \in Threads, NEW v \in Volumes, UpdateVolume(t, v) PROVE EntryIsConsumed'
  BY <1>2 DEF UpdateVolume
<1>3. ASSUME NEW t \in Threads, ReadState(t) PROVE EntryIsConsumed'
  BY <1>3 DEF ReadState
<1>4. ASSUME NEW t \in Threads, StoreState(t) PROVE EntryIsConsumed'
  BY <1>4 DEF StoreState
<1>21. ASSUME NEW t \in Threads, CloseOthers(t) PROVE EntryIsConsumed'
  BY <1>21 DEF CloseOthers
<1>5. ASSUME NEW t \in Threads, CheckStale(t) PROVE EntryIsConsumed'
  BY <1>5 DEF CheckStale
<1>6. ASSUME NEW t \in Threads, ResetEntry(t) PROVE EntryIsConsumed'
  BY <1>6 DEF ResetEntry
<1>7. ASSUME NEW t \in Threads, ReadDigits(t) PROVE EntryIsConsumed'
  BY <1>7 DEF ReadDigits
<1>8. ASSUME NEW t \in Threads, AppendDigit(t) PROVE EntryIsConsumed'
  BY <1>8 DEF AppendDigit
<1>9. ASSUME NEW t \in Threads, CheckLength(t) PROVE EntryIsConsumed'
  BY <1>9 DEF CheckLength
<1>10. ASSUME NEW t \in Threads, ParseEntry(t) PROVE EntryIsConsumed'
  BY <1>10 DEF ParseEntry
<1>11. ASSUME NEW t \in Threads, Tune(t) PROVE EntryIsConsumed'
  BY <1>11 DEF Tune
<1>12. ASSUME NEW t \in Threads, ClearEntry(t) PROVE EntryIsConsumed'
  BY <1>12 DEF ClearEntry
<1>13. ASSUME NEW t \in Threads, Emit(t) PROVE EntryIsConsumed'
  BY <1>13 DEF Emit
<1>14. ASSUME NEW t \in Threads, ScheduleClear(t) PROVE EntryIsConsumed'
  BY <1>14 DEF ScheduleClear
<1>15. ASSUME NEW p \in Press, TimerFires(p) PROVE EntryIsConsumed'
  BY <1>15 DEF TimerFires
<1>16. ASSUME NEW p \in Press, TimerCompares(p) PROVE EntryIsConsumed'
  BY <1>16 DEF TimerCompares
<1>17. ASSUME NEW p \in Press, TimerClears(p) PROVE EntryIsConsumed'
  BY <1>17 DEF TimerClears
<1>18. ASSUME NEW p \in Press, TimerEmits(p) PROVE EntryIsConsumed'
  BY <1>18 DEF TimerEmits
<1>19. CASE Pause
  BY <1>19 DEF Pause
<1>20. CASE UNCHANGED vars
  BY <1>20 DEF vars
<1> QED
  BY <1>1, <1>2, <1>3, <1>4, <1>5, <1>6, <1>7, <1>8, <1>9, <1>10,
     <1>11, <1>12, <1>13, <1>14, <1>15, <1>16, <1>17, <1>18, <1>19,
     <1>20, <1>21
  DEF Next, ThreadStep, TimerStep

(***************************************************************************)
(* channel_input never keeps three digits without a thread that is about   *)
(* to tune or to clear it (the number-pad branch of handle_button_press).  *)
(***************************************************************************)
THEOREM EntryConsumed == Spec => []EntryIsConsumed
<1>1. Init => EntryIsConsumed
  BY DEF Init, EntryIsConsumed, EntryLength
<1> QED BY <1>1, TypeCorrect, EntryNext, PTL DEF Spec

-----------------------------------------------------------------------------
(* The notification timer. *)

LEMMA TimerNext == TypeInv /\ SingleTimer /\ [Next]_vars => SingleTimer'
<1> SUFFICES ASSUME TypeInv, SingleTimer, [Next]_vars PROVE SingleTimer'
  OBVIOUS
<1> USE DEF SingleTimer, TypeInv, NoTimer, Goto, timerVars, entryVars, counters, locals
<1>1. ASSUME NEW t \in Threads, NEW b \in Pressed, BeginPress(t, b) PROVE SingleTimer'
  BY <1>1 DEF BeginPress
<1>2. ASSUME NEW t \in Threads, NEW v \in Volumes, UpdateVolume(t, v) PROVE SingleTimer'
  BY <1>2 DEF UpdateVolume
<1>3. ASSUME NEW t \in Threads, ReadState(t) PROVE SingleTimer'
  BY <1>3 DEF ReadState
<1>4. ASSUME NEW t \in Threads, StoreState(t) PROVE SingleTimer'
  BY <1>4 DEF StoreState
<1>21. ASSUME NEW t \in Threads, CloseOthers(t) PROVE SingleTimer'
  BY <1>21 DEF CloseOthers
<1>5. ASSUME NEW t \in Threads, CheckStale(t) PROVE SingleTimer'
  BY <1>5 DEF CheckStale
<1>6. ASSUME NEW t \in Threads, ResetEntry(t) PROVE SingleTimer'
  BY <1>6 DEF ResetEntry
<1>7. ASSUME NEW t \in Threads, ReadDigits(t) PROVE SingleTimer'
  BY <1>7 DEF ReadDigits
<1>8. ASSUME NEW t \in Threads, AppendDigit(t) PROVE SingleTimer'
  BY <1>8 DEF AppendDigit
<1>9. ASSUME NEW t \in Threads, CheckLength(t) PROVE SingleTimer'
  BY <1>9 DEF CheckLength
<1>10. ASSUME NEW t \in Threads, ParseEntry(t) PROVE SingleTimer'
  BY <1>10 DEF ParseEntry
<1>11. ASSUME NEW t \in Threads, Tune(t) PROVE SingleTimer'
  BY <1>11 DEF Tune
<1>12. ASSUME NEW t \in Threads, ClearEntry(t) PROVE SingleTimer'
  BY <1>12 DEF ClearEntry
<1>13. ASSUME NEW t \in Threads, Emit(t) PROVE SingleTimer'
  BY <1>13 DEF Emit
<1>14. ASSUME NEW t \in Threads, ScheduleClear(t) PROVE SingleTimer'
  <2>1. \A p \in Press : CancelLatest[p].pc # "waiting"
    BY DEF CancelLatest
  <2>a. by[t] \in 0..MaxPresses /\ by[t] # 0 /\ latest' = by[t]
    BY <1>14 DEF ScheduleClear
  <2>2. by[t] \in Press /\ latest' = by[t]
    BY <2>a, ServerAssumption DEF Press
  <2>3. ASSUME NEW p \in Press, p # by[t] PROVE timers'[p] = CancelLatest[p]
    BY <1>14, <2>3 DEF ScheduleClear, CancelLatest
  <2> QED BY <2>1, <2>2, <2>3
<1>15. ASSUME NEW p \in Press, TimerFires(p) PROVE SingleTimer'
  BY <1>15 DEF TimerFires
<1>16. ASSUME NEW p \in Press, TimerCompares(p) PROVE SingleTimer'
  BY <1>16 DEF TimerCompares
<1>17. ASSUME NEW p \in Press, TimerClears(p) PROVE SingleTimer'
  BY <1>17 DEF TimerClears
<1>18. ASSUME NEW p \in Press, TimerEmits(p) PROVE SingleTimer'
  BY <1>18 DEF TimerEmits
<1>19. CASE Pause
  BY <1>19 DEF Pause
<1>20. CASE UNCHANGED vars
  BY <1>20 DEF vars
<1> QED
  BY <1>1, <1>2, <1>3, <1>4, <1>5, <1>6, <1>7, <1>8, <1>9, <1>10,
     <1>11, <1>12, <1>13, <1>14, <1>15, <1>16, <1>17, <1>18, <1>19,
     <1>20, <1>21
  DEF Next, ThreadStep, TimerStep

(***************************************************************************)
(* At most the timer of the last press to schedule one waits, for any      *)
(* number of threads and presses (_schedule_notification_clear).           *)
(***************************************************************************)
THEOREM TimerIsSingle == Spec => []SingleTimer
<1>1. Init => SingleTimer
  BY DEF Init, SingleTimer, NoTimer
<1> QED BY <1>1, TypeCorrect, TimerNext, PTL DEF Spec

-----------------------------------------------------------------------------
(* The broadcasts. *)

(* What is at most n is not the number after n. *)
LEMMA NotNext == ASSUME NEW m \in Nat, NEW n \in Nat, m = 0 \/ m <= n PROVE m # n + 1
OBVIOUS

LEMMA OwnedNext == TypeInv /\ TimerOwned /\ [Next]_vars => TimerOwned'
<1> SUFFICES ASSUME TypeInv, TimerOwned, [Next]_vars PROVE TimerOwned'
  OBVIOUS
<1> USE DEF TimerOwned, TypeInv, NoTimer, Goto, timerVars, entryVars, counters, locals
<1>1. ASSUME NEW t \in Threads, NEW b \in Pressed, BeginPress(t, b) PROVE TimerOwned'
  <2>1. presses + 1 \in Press /\ presses' = presses + 1
    BY <1>1, ServerAssumption DEF BeginPress, Press
  <2>2. timers[presses + 1].pc = "off" /\ timers' = timers
    BY <1>1, <2>1 DEF BeginPress
  <2>3. by' = [by EXCEPT ![t] = presses + 1]
    BY <1>1 DEF BeginPress
  <2>4. \A u \in Threads : by[u] # presses + 1
    <3>1. \A u \in Threads : by[u] = 0 \/ by[u] <= presses
      BY SMT DEF TimerOwned
    <3>2. presses \in Nat /\ presses + 1 # 0
      BY ServerAssumption
    <3>3. \A u \in Threads : by[u] \in Nat
      BY ServerAssumption
    <3> HIDE DEF TimerOwned, TypeInv
    <3> QED BY <3>1, <3>2, <3>3, NotNext
  <2> QED BY <2>1, <2>2, <2>3, <2>4, ServerAssumption DEF Press
<1>2. ASSUME NEW t \in Threads, NEW v \in Volumes, UpdateVolume(t, v) PROVE TimerOwned'
  BY <1>2 DEF UpdateVolume
<1>3. ASSUME NEW t \in Threads, ReadState(t) PROVE TimerOwned'
  BY <1>3 DEF ReadState
<1>4. ASSUME NEW t \in Threads, StoreState(t) PROVE TimerOwned'
  BY <1>4 DEF StoreState
<1>21. ASSUME NEW t \in Threads, CloseOthers(t) PROVE TimerOwned'
  BY <1>21 DEF CloseOthers
<1>5. ASSUME NEW t \in Threads, CheckStale(t) PROVE TimerOwned'
  BY <1>5 DEF CheckStale
<1>6. ASSUME NEW t \in Threads, ResetEntry(t) PROVE TimerOwned'
  BY <1>6 DEF ResetEntry
<1>7. ASSUME NEW t \in Threads, ReadDigits(t) PROVE TimerOwned'
  BY <1>7 DEF ReadDigits
<1>8. ASSUME NEW t \in Threads, AppendDigit(t) PROVE TimerOwned'
  BY <1>8 DEF AppendDigit
<1>9. ASSUME NEW t \in Threads, CheckLength(t) PROVE TimerOwned'
  BY <1>9 DEF CheckLength
<1>10. ASSUME NEW t \in Threads, ParseEntry(t) PROVE TimerOwned'
  BY <1>10 DEF ParseEntry
<1>11. ASSUME NEW t \in Threads, Tune(t) PROVE TimerOwned'
  BY <1>11 DEF Tune
<1>12. ASSUME NEW t \in Threads, ClearEntry(t) PROVE TimerOwned'
  BY <1>12 DEF ClearEntry
<1>13. ASSUME NEW t \in Threads, Emit(t) PROVE TimerOwned'
  BY <1>13 DEF Emit
<1>14. ASSUME NEW t \in Threads, ScheduleClear(t) PROVE TimerOwned'
  <2>1. by[t] # 0 /\ by[t] \in 0..MaxPresses /\ presses' = presses
    BY <1>14 DEF ScheduleClear
  <2>2. by' = [by EXCEPT ![t] = 0]
    BY <1>14 DEF ScheduleClear
  <2>3. ASSUME NEW p \in Press, p # by[t]
        PROVE  timers'[p].pc = timers[p].pc \/ timers'[p].pc = "off"
    BY <1>14, <2>3 DEF ScheduleClear, CancelLatest
  <2>4. by[t] <= presses
    BY <2>1
  <2>5. \A p \in Press : timers'[p].pc # "off" => p <= presses'
    BY <2>1, <2>3, <2>4
  <2>6. ASSUME NEW u \in Threads, by'[u] # 0
        PROVE  by'[u] <= presses' /\ timers'[by'[u]].pc = "off"
    <3>1. u # t /\ by'[u] = by[u] /\ by[u] # by[t]
      BY <2>1, <2>2, <2>6
    <3>2. by[u] \in Press
      BY <2>6, <3>1, ServerAssumption DEF Press
    <3>3. by[u] <= presses /\ timers[by[u]].pc = "off"
      BY <2>6, <3>1
    <3>4. timers'[by[u]].pc = "off"
      BY <2>3, <3>1, <3>2, <3>3
    <3> QED BY <2>1, <3>1, <3>3, <3>4
  <2>7. \A u, v \in Threads : by'[u] # 0 /\ by'[u] = by'[v] => u = v
    BY <2>1, <2>2
  <2> QED BY <2>5, <2>6, <2>7
<1>15. ASSUME NEW p \in Press, TimerFires(p) PROVE TimerOwned'
  BY <1>15 DEF TimerFires
<1>16. ASSUME NEW p \in Press, TimerCompares(p) PROVE TimerOwned'
  BY <1>16 DEF TimerCompares
<1>17. ASSUME NEW p \in Press, TimerClears(p) PROVE TimerOwned'
  BY <1>17 DEF TimerClears
<1>18. ASSUME NEW p \in Press, TimerEmits(p) PROVE TimerOwned'
  BY <1>18 DEF TimerEmits
<1>19. CASE Pause
  BY <1>19 DEF Pause
<1>20. CASE UNCHANGED vars
  BY <1>20 DEF vars
<1> QED
  BY <1>1, <1>2, <1>3, <1>4, <1>5, <1>6, <1>7, <1>8, <1>9, <1>10,
     <1>11, <1>12, <1>13, <1>14, <1>15, <1>16, <1>17, <1>18, <1>19,
     <1>20, <1>21
  DEF Next, ThreadStep, TimerStep

LEMMA ShownNext == TypeInv /\ TimerOwned /\ ShownOrDue /\ [Next]_vars => ShownOrDue'
<1> SUFFICES ASSUME TypeInv, TimerOwned, ShownOrDue, [Next]_vars PROVE ShownOrDue'
  OBVIOUS
<1> USE DEF ShownOrDue, BroadcastIsDue, State, TypeInv, Goto, timerVars, entryVars, counters, locals
<1>1. ASSUME NEW t \in Threads, NEW b \in Pressed, BeginPress(t, b) PROVE ShownOrDue'
  BY <1>1 DEF BeginPress
<1>2. ASSUME NEW t \in Threads, NEW v \in Volumes, UpdateVolume(t, v) PROVE ShownOrDue'
  BY <1>2 DEF UpdateVolume
<1>3. ASSUME NEW t \in Threads, ReadState(t) PROVE ShownOrDue'
  BY <1>3 DEF ReadState
<1>4. ASSUME NEW t \in Threads, StoreState(t) PROVE ShownOrDue'
  BY <1>4 DEF StoreState
<1>21. ASSUME NEW t \in Threads, CloseOthers(t) PROVE ShownOrDue'
  BY <1>21 DEF CloseOthers
<1>5. ASSUME NEW t \in Threads, CheckStale(t) PROVE ShownOrDue'
  BY <1>5 DEF CheckStale
<1>6. ASSUME NEW t \in Threads, ResetEntry(t) PROVE ShownOrDue'
  BY <1>6 DEF ResetEntry
<1>7. ASSUME NEW t \in Threads, ReadDigits(t) PROVE ShownOrDue'
  BY <1>7 DEF ReadDigits
<1>8. ASSUME NEW t \in Threads, AppendDigit(t) PROVE ShownOrDue'
  BY <1>8 DEF AppendDigit
<1>9. ASSUME NEW t \in Threads, CheckLength(t) PROVE ShownOrDue'
  BY <1>9 DEF CheckLength
<1>10. ASSUME NEW t \in Threads, ParseEntry(t) PROVE ShownOrDue'
  BY <1>10 DEF ParseEntry
<1>11. ASSUME NEW t \in Threads, Tune(t) PROVE ShownOrDue'
  BY <1>11 DEF Tune
<1>12. ASSUME NEW t \in Threads, ClearEntry(t) PROVE ShownOrDue'
  BY <1>12 DEF ClearEntry
<1>13. ASSUME NEW t \in Threads, Emit(t) PROVE ShownOrDue'
  BY <1>13 DEF Emit
<1>14. ASSUME NEW t \in Threads, ScheduleClear(t) PROVE ShownOrDue'
  <2>1. ASSUME NEW p \in Press, timers[p].pc = "emit" PROVE timers'[p].pc = "emit"
    <3>1. p # by[t]
      BY <1>14, <2>1 DEF ScheduleClear, TimerOwned
    <3> QED BY <1>14, <2>1, <3>1 DEF ScheduleClear, CancelLatest
  <2>2. shown' = shown /\ State' = State
    BY <1>14 DEF ScheduleClear
  <2>3. \A u \in Threads : pc[u] \notin {"idle", "schedule"} => pc'[u] = pc[u]
    BY <1>14 DEF ScheduleClear
  <2> QED BY <2>1, <2>2, <2>3
<1>15. ASSUME NEW p \in Press, TimerFires(p) PROVE ShownOrDue'
  BY <1>15 DEF TimerFires
<1>16. ASSUME NEW p \in Press, TimerCompares(p) PROVE ShownOrDue'
  BY <1>16 DEF TimerCompares
<1>17. ASSUME NEW p \in Press, TimerClears(p) PROVE ShownOrDue'
  BY <1>17 DEF TimerClears
<1>18. ASSUME NEW p \in Press, TimerEmits(p) PROVE ShownOrDue'
  BY <1>18 DEF TimerEmits
<1>19. CASE Pause
  BY <1>19 DEF Pause
<1>20. CASE UNCHANGED vars
  BY <1>20 DEF vars
<1> QED
  BY <1>1, <1>2, <1>3, <1>4, <1>5, <1>6, <1>7, <1>8, <1>9, <1>10,
     <1>11, <1>12, <1>13, <1>14, <1>15, <1>16, <1>17, <1>18, <1>19,
     <1>20, <1>21
  DEF Next, ThreadStep, TimerStep

(***************************************************************************)
(* Every store is followed by a broadcast that carries it: when nothing is *)
(* under way the clients were sent the present state (the socketio.emit    *)
(* calls of handle_button_press, _clear and handle_update_volume).         *)
(***************************************************************************)
THEOREM ShownCurrent == Spec => []ShownIsCurrent
<1>1. Init => ShownOrDue
  BY DEF Init, ShownOrDue, State
<1>2. TypeInv /\ ShownOrDue => ShownIsCurrent
  BY DEF TypeInv, ShownOrDue, BroadcastIsDue, ShownIsCurrent, Quiescent
<1>3. Init => TimerOwned
  BY DEF Init, TimerOwned, NoTimer
<1> QED BY <1>1, <1>2, <1>3, TypeCorrect, OwnedNext, ShownNext, PTL DEF Spec

-----------------------------------------------------------------------------
(* The overlays. *)

(***************************************************************************)
(* Only the first store of Menu or Settings can leave both open.           *)
(***************************************************************************)
LEMMA StoreKeepsOne ==
  ASSUME NEW b \in Code, NEW s \in Tv, NEW n \in Tv,
         ~ClosesOthers(b, s),
         TvAfter(b, s, n).menu, TvAfter(b, s, n).settings
  PROVE  n.menu /\ n.settings
<1> DEFINE Result == TvAfter(b, s, n)
<1> USE DEF Power, VolumeUp, VolumeDown, Mute, ChannelUp, ChannelDown, Overlays,
            Home, Menu, Back, Info, Settings, Input, Source, Apps, YouTube,
            Netflix, AmazonPrime, HboMax, LiveTv, GameMode
<1>1. CASE b = Power \/ ~s.powered
  BY <1>1 DEF TvAfter, Tv
<1>2. CASE b \in Overlays /\ b # Power /\ s.powered
  <2>1. Result = OverlayAfter(b, s, n) /\ b \in {Home, Back, Info}
    BY <1>2 DEF TvAfter, ClosesOthers
  <2> QED BY <2>1 DEF OverlayAfter, Tv
<1>3. CASE b \notin Overlays /\ b # Power /\ s.powered
  BY <1>3 DEF TvAfter, Tv
<1> QED BY <1>1, <1>2, <1>3

LEMMA OverlayNext == TypeInv /\ OneOverlay /\ [Next]_vars => OneOverlay'
<1> SUFFICES ASSUME TypeInv, OneOverlay, [Next]_vars PROVE OneOverlay'
  OBVIOUS
<1> USE DEF OneOverlay, TypeInv, Goto, timerVars, entryVars, counters, locals
<1>1. ASSUME NEW t \in Threads, NEW b \in Pressed, BeginPress(t, b) PROVE OneOverlay'
  BY <1>1 DEF BeginPress
<1>2. ASSUME NEW t \in Threads, NEW v \in Volumes, UpdateVolume(t, v) PROVE OneOverlay'
  BY <1>2 DEF UpdateVolume, Tv
<1>3. ASSUME NEW t \in Threads, ReadState(t) PROVE OneOverlay'
  BY <1>3 DEF ReadState
<1>4. ASSUME NEW t \in Threads, StoreState(t) PROVE OneOverlay'
  <2>1. CASE ClosesOthers(button[t], seen[t].tv)
    BY <1>4, <2>1 DEF StoreState
  <2>2. CASE ~ClosesOthers(button[t], seen[t].tv)
    <3>1. tv'.menu /\ tv'.settings => tv.menu /\ tv.settings
      BY <1>4, <2>2, StoreKeepsOne DEF StoreState
    <3> QED BY <1>4, <2>2, <3>1 DEF StoreState
  <2> QED BY <2>1, <2>2
<1>5. ASSUME NEW t \in Threads, CloseOthers(t) PROVE OneOverlay'
  BY <1>5 DEF CloseOthers, OthersClosed, Tv
<1>6. ASSUME NEW t \in Threads, CheckStale(t) PROVE OneOverlay'
  BY <1>6 DEF CheckStale
<1>7. ASSUME NEW t \in Threads, ResetEntry(t) PROVE OneOverlay'
  BY <1>7 DEF ResetEntry
<1>8. ASSUME NEW t \in Threads, ReadDigits(t) PROVE OneOverlay'
  BY <1>8 DEF ReadDigits
<1>9. ASSUME NEW t \in Threads, AppendDigit(t) PROVE OneOverlay'
  BY <1>9 DEF AppendDigit
<1>10. ASSUME NEW t \in Threads, CheckLength(t) PROVE OneOverlay'
  BY <1>10 DEF CheckLength
<1>11. ASSUME NEW t \in Threads, ParseEntry(t) PROVE OneOverlay'
  BY <1>11 DEF ParseEntry
<1>12. ASSUME NEW t \in Threads, Tune(t) PROVE OneOverlay'
  <2>1. tv'.menu = tv.menu /\ tv'.settings = tv.settings
    BY <1>12 DEF Tune, Tv
  <2> QED BY <1>12, <2>1 DEF Tune
<1>13. ASSUME NEW t \in Threads, ClearEntry(t) PROVE OneOverlay'
  BY <1>13 DEF ClearEntry
<1>14. ASSUME NEW t \in Threads, Emit(t) PROVE OneOverlay'
  BY <1>14 DEF Emit
<1>15. ASSUME NEW t \in Threads, ScheduleClear(t) PROVE OneOverlay'
  BY <1>15 DEF ScheduleClear
<1>16. ASSUME NEW p \in Press, TimerFires(p) PROVE OneOverlay'
  BY <1>16 DEF TimerFires
<1>17. ASSUME NEW p \in Press, TimerCompares(p) PROVE OneOverlay'
  BY <1>17 DEF TimerCompares
<1>18. ASSUME NEW p \in Press, TimerClears(p) PROVE OneOverlay'
  BY <1>18 DEF TimerClears
<1>19. ASSUME NEW p \in Press, TimerEmits(p) PROVE OneOverlay'
  BY <1>19 DEF TimerEmits
<1>20. CASE Pause
  BY <1>20 DEF Pause
<1>21. CASE UNCHANGED vars
  BY <1>21 DEF vars
<1> QED
  BY <1>1, <1>2, <1>3, <1>4, <1>5, <1>6, <1>7, <1>8, <1>9, <1>10, <1>11,
     <1>12, <1>13, <1>14, <1>15, <1>16, <1>17, <1>18, <1>19, <1>20, <1>21
  DEF Next, ThreadStep, TimerStep

(***************************************************************************)
(* No interleaving of presses leaves the menu and the settings both open   *)
(* (the Menu and Settings branches of handle_button_press).                *)
(***************************************************************************)
THEOREM OverlaysExclude == Spec => []OneOverlay
<1>1. Init => OneOverlay
  BY DEF Init, OneOverlay, InitTv
<1> QED BY <1>1, TypeCorrect, OverlayNext, PTL DEF Spec

-----------------------------------------------------------------------------
(* The digits of one entry. *)

LEMMA AppendKeeps ==
  ASSUME NEW S, NEW q \in Seq(S), NEW e \in S, NEW x,
         \A i \in DOMAIN q : q[i].at = x, e.at = x
  PROVE  \A i \in DOMAIN Append(q, e) : Append(q, e)[i].at = x
<1>1. /\ DOMAIN Append(q, e) = 1..(Len(q) + 1)
      /\ DOMAIN q = 1..Len(q)
      /\ Append(q, e)[Len(q) + 1] = e
      /\ \A i \in 1..Len(q) : Append(q, e)[i] = q[i]
  OBVIOUS
<1>2. Len(q) \in Nat
  OBVIOUS
<1>3. \A i \in 1..(Len(q) + 1) : i \in 1..Len(q) \/ i = Len(q) + 1
  BY <1>2
<1> QED BY <1>1, <1>3

LEMMA DigitsNext ==
  TypeInv /\ EntryOfOneTime /\ NoStaleDigits /\ [Next]_vars
    => EntryOfOneTime' /\ NoStaleDigits'
<1> DEFINE Inv == EntryOfOneTime /\ NoStaleDigits
<1> SUFFICES ASSUME TypeInv, Inv, [Next]_vars PROVE Inv'
  OBVIOUS
<1> USE DEF EntryOfOneTime, NoStaleDigits, InNumberPad, TypeInv, Goto, timerVars, entryVars, counters, locals
<1>1. ASSUME NEW t \in Threads, NEW b \in Pressed, BeginPress(t, b) PROVE Inv'
  BY <1>1 DEF BeginPress
<1>2. ASSUME NEW t \in Threads, NEW v \in Volumes, UpdateVolume(t, v) PROVE Inv'
  BY <1>2 DEF UpdateVolume
<1>3. ASSUME NEW t \in Threads, ReadState(t) PROVE Inv'
  <2>1. UNCHANGED <<entry, entryTime, typed, now>>
    BY <1>3 DEF ReadState
  <2>2. CASE pc' = [pc EXCEPT ![t] = "stale"]
    BY <2>1, <2>2
  <2>3. CASE pc' = [pc EXCEPT ![t] = "store"]
    BY <2>1, <2>3
  <2> QED BY <1>3, <2>2, <2>3 DEF ReadState
<1>4. ASSUME NEW t \in Threads, StoreState(t) PROVE Inv'
  BY <1>4 DEF StoreState
<1>5. ASSUME NEW t \in Threads, CloseOthers(t) PROVE Inv'
  BY <1>5 DEF CloseOthers
<1>6. ASSUME NEW t \in Threads, CheckStale(t) PROVE Inv'
  BY <1>6 DEF CheckStale
<1>7. ASSUME NEW t \in Threads, ResetEntry(t) PROVE Inv'
  BY <1>7 DEF ResetEntry
<1>8. ASSUME NEW t \in Threads, ReadDigits(t) PROVE Inv'
  BY <1>8 DEF ReadDigits
<1>9. ASSUME NEW t \in Threads, AppendDigit(t) PROVE Inv'
  <2> DEFINE d == [digit |-> button[t] - 80, at |-> now]
  <2>1. typed[t] \in Seq(TypedDigit) /\ \A i \in DOMAIN typed[t] : typed[t][i].at = now
    BY <1>9 DEF AppendDigit
  <2>2. \A i \in DOMAIN Append(typed[t], d) : Append(typed[t], d)[i].at = now
    <3>1. button[t] - 80 \in 0..9
      BY <1>9 DEF AppendDigit, Digits
    <3>2. d \in TypedDigit /\ d.at = now
      BY <3>1 DEF TypedDigit
    <3> HIDE DEF d
    <3> QED BY <2>1, <3>2, AppendKeeps
  <2>3. entry' = Append(typed[t], d) /\ entryTime' = now /\ now' = now
    BY <1>9 DEF AppendDigit
  <2> HIDE DEF d
  <2>4. EntryOfOneTime'
    BY <1>9, <2>2, <2>3 DEF AppendDigit
  <2>5. NoStaleDigits'
    BY <1>9 DEF AppendDigit
  <2> QED BY <2>4, <2>5
<1>10. ASSUME NEW t \in Threads, CheckLength(t) PROVE Inv'
  BY <1>10 DEF CheckLength
<1>11. ASSUME NEW t \in Threads, ParseEntry(t) PROVE Inv'
  BY <1>11 DEF ParseEntry
<1>12. ASSUME NEW t \in Threads, Tune(t) PROVE Inv'
  BY <1>12 DEF Tune
<1>13. ASSUME NEW t \in Threads, ClearEntry(t) PROVE Inv'
  BY <1>13 DEF ClearEntry
<1>14. ASSUME NEW t \in Threads, Emit(t) PROVE Inv'
  BY <1>14 DEF Emit
<1>15. ASSUME NEW t \in Threads, ScheduleClear(t) PROVE Inv'
  BY <1>15 DEF ScheduleClear
<1>16. ASSUME NEW p \in Press, TimerFires(p) PROVE Inv'
  BY <1>16 DEF TimerFires
<1>17. ASSUME NEW p \in Press, TimerCompares(p) PROVE Inv'
  BY <1>17 DEF TimerCompares
<1>18. ASSUME NEW p \in Press, TimerClears(p) PROVE Inv'
  BY <1>18 DEF TimerClears
<1>19. ASSUME NEW p \in Press, TimerEmits(p) PROVE Inv'
  BY <1>19 DEF TimerEmits
<1>20. CASE Pause
  BY <1>20 DEF Pause
<1>21. CASE UNCHANGED vars
  BY <1>21 DEF vars
<1> QED
  BY <1>1, <1>2, <1>3, <1>4, <1>5, <1>6, <1>7, <1>8, <1>9, <1>10, <1>11,
     <1>12, <1>13, <1>14, <1>15, <1>16, <1>17, <1>18, <1>19, <1>20, <1>21
  DEF Next, ThreadStep, TimerStep

(***************************************************************************)
(* A channel is tuned only from digits with no pause of more than two      *)
(* seconds between them, whatever the threads that typed them (the number  *)
(* pad branch of handle_button_press).                                     *)
(***************************************************************************)
THEOREM TunesFromOneEntry == Spec => []NoStaleDigits
<1>1. Init => EntryOfOneTime /\ NoStaleDigits
  BY DEF Init, EntryOfOneTime, NoStaleDigits
<1> QED BY <1>1, TypeCorrect, DigitsNext, PTL DEF Spec

-----------------------------------------------------------------------------
(* The notification is always about to be cleared. *)

(***************************************************************************)
(* What clears a notification: a press that has yet to schedule its timer, *)
(* a timer that was given this text and has yet to compare it, or a timer  *)
(* that has compared and is about to store None.                           *)
(***************************************************************************)
PressUnderWay == \E t \in Threads : by[t] # 0
TimerHasText == \E p \in Press : timers[p].pc \in {"waiting", "fired"} /\ timers[p].text = note
TimerClearing == \E p \in Press : timers[p].pc = "clearing"

ClearIsDue == note = NoNote \/ PressUnderWay \/ TimerHasText \/ TimerClearing

LEMMA ClearNext == TypeInv /\ ClearIsDue /\ [Next]_vars => ClearIsDue'
<1> SUFFICES ASSUME TypeInv, ClearIsDue, [Next]_vars PROVE ClearIsDue'
  OBVIOUS
<1> USE DEF ClearIsDue, PressUnderWay, TimerHasText, TimerClearing, TypeInv, Goto,
            timerVars, entryVars, counters, locals
<1>1. ASSUME NEW t \in Threads, NEW b \in Pressed, BeginPress(t, b) PROVE ClearIsDue'
  BY <1>1, ServerAssumption DEF BeginPress
<1>2. ASSUME NEW t \in Threads, NEW v \in Volumes, UpdateVolume(t, v) PROVE ClearIsDue'
  BY <1>2 DEF UpdateVolume
<1>3. ASSUME NEW t \in Threads, ReadState(t) PROVE ClearIsDue'
  BY <1>3 DEF ReadState
<1>4. ASSUME NEW t \in Threads, StoreState(t) PROVE ClearIsDue'
  <2>1. by[t] # 0 /\ by' = by
    BY <1>4 DEF StoreState
  <2> QED BY <2>1
<1>5. ASSUME NEW t \in Threads, CloseOthers(t) PROVE ClearIsDue'
  BY <1>5 DEF CloseOthers
<1>6. ASSUME NEW t \in Threads, CheckStale(t) PROVE ClearIsDue'
  BY <1>6 DEF CheckStale
<1>7. ASSUME NEW t \in Threads, ResetEntry(t) PROVE ClearIsDue'
  BY <1>7 DEF ResetEntry
<1>8. ASSUME NEW t \in Threads, ReadDigits(t) PROVE ClearIsDue'
  BY <1>8 DEF ReadDigits
<1>9. ASSUME NEW t \in Threads, AppendDigit(t) PROVE ClearIsDue'
  BY <1>9 DEF AppendDigit
<1>10. ASSUME NEW t \in Threads, CheckLength(t) PROVE ClearIsDue'
  BY <1>10 DEF CheckLength
<1>11. ASSUME NEW t \in Threads, ParseEntry(t) PROVE ClearIsDue'
  BY <1>11 DEF ParseEntry
<1>12. ASSUME NEW t \in Threads, Tune(t) PROVE ClearIsDue'
  <2>1. by[t] # 0 /\ by' = by
    BY <1>12 DEF Tune
  <2> QED BY <2>1
<1>13. ASSUME NEW t \in Threads, ClearEntry(t) PROVE ClearIsDue'
  BY <1>13 DEF ClearEntry
<1>14. ASSUME NEW t \in Threads, Emit(t) PROVE ClearIsDue'
  BY <1>14 DEF Emit
<1>15. ASSUME NEW t \in Threads, ScheduleClear(t) PROVE ClearIsDue'
  <2>a. by[t] \in 0..MaxPresses /\ by[t] # 0
    BY <1>15 DEF ScheduleClear
  <2>1. by[t] \in Press
    BY <2>a, ServerAssumption DEF Press
  <2>2. timers'[by[t]] = [pc |-> "waiting", text |-> note] /\ note' = note
    BY <1>15, <2>1 DEF ScheduleClear, CancelLatest
  <2> QED BY <2>1, <2>2
<1>16. ASSUME NEW p \in Press, TimerFires(p) PROVE ClearIsDue'
  BY <1>16 DEF TimerFires, NoTimer
<1>17. ASSUME NEW p \in Press, TimerCompares(p) PROVE ClearIsDue'
  BY <1>17 DEF TimerCompares, NoTimer
<1>18. ASSUME NEW p \in Press, TimerClears(p) PROVE ClearIsDue'
  BY <1>18 DEF TimerClears, NoTimer
<1>19. ASSUME NEW p \in Press, TimerEmits(p) PROVE ClearIsDue'
  BY <1>19 DEF TimerEmits, NoTimer
<1>20. CASE Pause
  BY <1>20 DEF Pause
<1>21. CASE UNCHANGED vars
  BY <1>21 DEF vars
<1> QED
  BY <1>1, <1>2, <1>3, <1>4, <1>5, <1>6, <1>7, <1>8, <1>9, <1>10, <1>11,
     <1>12, <1>13, <1>14, <1>15, <1>16, <1>17, <1>18, <1>19, <1>20, <1>21
  DEF Next, ThreadStep, TimerStep

(***************************************************************************)
(* No interleaving of presses and timers, cancelled ones included, strands *)
(* a notification: whenever one is stored, a press has yet to schedule the *)
(* clearing, or a timer holds exactly this text, or a timer is storing     *)
(* None (_schedule_notification_clear).  NotificationClears follows from   *)
(* this and the fairness of the threads.                                   *)
(***************************************************************************)
THEOREM NotificationIsDue == Spec => []ClearIsDue
<1>1. Init => ClearIsDue
  BY DEF Init, ClearIsDue
<1> QED BY <1>1, TypeCorrect, ClearNext, PTL DEF Spec

=============================================================================
