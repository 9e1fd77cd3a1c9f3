------------------------------ MODULE TvServer ------------------------------
(***************************************************************************)
(* The web server's press handler as its threads run it                    *)
(* (test_simulator/web_server.py: handle_button_press,                     *)
(* _schedule_notification_clear, handle_update_volume).                    *)
(*                                                                         *)
(* REST requests, Socket.IO events, the IPC command processor, the MQTT    *)
(* subscriber and preset requests call handle_button_press each in a       *)
(* thread of its own.  tv_state and room_state are plain dictionaries that *)
(* no lock protects; _notification_lock guards only the timer object.  A   *)
(* thread takes one step from a read of shared state to the next, so that  *)
(* other threads run between what a press reads and what it stores.  The   *)
(* stores of one branch are one step, but for Menu and Settings, which     *)
(* each undo what the other stores.  The interrupt events a hardware press *)
(* broadcasts are the subject of PressEcho.                                *)
(***************************************************************************)
EXTENDS TvState, SequencesExt

CONSTANTS Threads,         (* the threads that call the handlers            *)
          StartsOn,        (* whether the TV is on when a behaviour begins  *)
          Pressed,         (* the button codes they are given               *)
          Volumes,         (* the volumes update_volume is given            *)
          MaxPresses,      (* bounds the presses of a behaviour             *)
          MaxVolumeUpdates,(* bounds the update_volume events               *)
          MaxPauses        (* bounds the pauses between digits              *)

ASSUME ServerAssumption ==
  /\ StartsOn \in BOOLEAN
  /\ Pressed \subseteq Code
  /\ Volumes \subseteq 0..100
  /\ MaxPresses \in Nat
  /\ MaxVolumeUpdates \in Nat
  /\ MaxPauses \in Nat

VARIABLES
  tv,          (* tv_state without the fields below                         *)
  room,        (* room_state                                                *)
  entry,       (* channel_input: its digits, each with the time it came     *)
  entryTime,   (* channel_input_time; Never before the first digit          *)
  note,        (* notification                                              *)
  shown,       (* the state the last tv_state_update carried                *)
  now,         (* advances by one with each pause of over two seconds       *)
  pc,          (* where each thread is in its handler                       *)
  button,      (* the code a thread handles                                 *)
  by,          (* the press a thread handles; 0 for a volume update         *)
  seen,        (* what a thread has read of tv_state and room_state         *)
  typed,       (* what a thread has read of channel_input                   *)
  timers,      (* the Timer each press starts                               *)
  latest,      (* _notification_timer: the press that started it, or 0      *)
  presses,     (* presses so far                                            *)
  updates      (* update_volume events so far                               *)

vars == <<tv, room, entry, entryTime, note, shown, now, pc, button, by,
          seen, typed, timers, latest, presses, updates>>

locals == <<button, by, seen, typed>>
timerVars == <<timers, latest>>
entryVars == <<entry, entryTime>>
counters == <<now, presses, updates>>

Never == -1
Place == {"idle", "read", "store", "close", "stale", "reset", "digits", "append", "length",
          "parse", "tune", "clear", "emit", "schedule"}
TypedDigit == [digit : 0..9, at : Nat]
Press == 1..MaxPresses
TimerPlace == {"off", "waiting", "fired", "clearing", "emit"}

(***************************************************************************)
(* The places where a thread is inside the number-pad branch before its    *)
(* digit is stored: a pause of two seconds does not happen there.          *)
(***************************************************************************)
InNumberPad == {"stale", "reset", "digits", "append"}

(***************************************************************************)
(* What a thread or a timer no longer uses goes back to its first value.   *)
(***************************************************************************)
Unread == [tv |-> InitTv, room |-> InitRoom]
NoTimer == [pc |-> "off", text |-> NoNote]

State == [tv |-> tv, room |-> room, entry |-> entry, note |-> note]

Goto(t, from, to) ==
  /\ pc[t] = from
  /\ pc' = [pc EXCEPT ![t] = to]

Init ==
  /\ tv = [InitTv EXCEPT !.powered = StartsOn]
  /\ room = InitRoom
  /\ entry = << >>
  /\ entryTime = Never
  /\ note = NoNote
  /\ shown = State
  /\ now = 0
  /\ pc = [t \in Threads |-> "idle"]
  /\ button = [t \in Threads |-> 0]
  /\ by = [t \in Threads |-> 0]
  /\ seen = [t \in Threads |-> Unread]
  /\ typed = [t \in Threads |-> << >>]
  /\ timers = [p \in Press |-> NoTimer]
  /\ latest = 0
  /\ presses = 0
  /\ updates = 0

-----------------------------------------------------------------------------
(***************************************************************************)
(* handle_button_press up to its branches: the code is valid, last_button  *)
(* and the "Button: <name>" notification are stored.                       *)
(***************************************************************************)
BeginPress(t, b) ==
  /\ presses < MaxPresses
  /\ Goto(t, "idle", "read")
  /\ presses' = presses + 1
  /\ button' = [button EXCEPT ![t] = b]
  /\ by' = [by EXCEPT ![t] = presses + 1]
  /\ note' = <<"Button", b>>
  /\ UNCHANGED <<tv, room, entryVars, shown, now, seen, typed, timerVars, updates>>

(***************************************************************************)
(* The branch reads the dictionaries; a digit of a TV that is on goes      *)
(* through the steps of the number pad.                                    *)
(***************************************************************************)
ReadState(t) ==
  /\ \/ /\ button[t] \in Digits /\ tv.powered
        /\ Goto(t, "read", "stale")
        /\ UNCHANGED seen
     \/ /\ ~(button[t] \in Digits /\ tv.powered)
        /\ Goto(t, "read", "store")
        /\ seen' = [seen EXCEPT ![t] = [tv |-> tv, room |-> room]]
  /\ UNCHANGED <<tv, room, entryVars, note, shown, button, by, typed, timerVars, counters>>

StoreState(t) ==
  /\ Goto(t, "store", IF ClosesOthers(button[t], seen[t].tv) THEN "close" ELSE "emit")
  /\ tv' = TvAfter(button[t], seen[t].tv, tv)
  /\ room' = RoomAfter(button[t], seen[t].room, room)
  /\ LET text == BranchNote(button[t], seen[t].tv, tv', room')
     IN  IF text = NoNote THEN UNCHANGED note
         ELSE note' = text
  /\ seen' = [seen EXCEPT ![t] = Unread]
  /\ UNCHANGED <<entryVars, shown, button, by, typed, timerVars, counters>>

CloseOthers(t) ==
  /\ Goto(t, "close", "emit")
  /\ tv' = OthersClosed(button[t], tv)
  /\ UNCHANGED <<room, entryVars, note, shown, locals, timerVars, counters>>

-----------------------------------------------------------------------------
(***************************************************************************)
(* The number pad: drop a stale entry, append the digit, and tune when     *)
(* three digits are there.                                                 *)
(***************************************************************************)
(* Mutant: the check runs after the time was refreshed, so nothing is stale. *)
CheckStaleLate(t) ==
  /\ Goto(t, "stale", "digits")
  /\ UNCHANGED <<tv, room, entryVars, note, shown, locals, timerVars, counters>>

CheckStale(t) ==
  /\ Goto(t, "stale", IF entryTime # now THEN "reset" ELSE "digits")
  /\ UNCHANGED <<tv, room, entryVars, note, shown, locals, timerVars, counters>>

ResetEntry(t) ==
  /\ Goto(t, "reset", "digits")
  /\ entry' = << >>
  /\ UNCHANGED <<tv, room, entryTime, note, shown, locals, timerVars, counters>>

(***************************************************************************)
(* channel_input += str(digit) reads, and stores what it read with the     *)
(* digit appended.                                                         *)
(***************************************************************************)
ReadDigits(t) ==
  /\ Goto(t, "digits", "append")
  /\ typed' = [typed EXCEPT ![t] = entry]
  /\ UNCHANGED <<tv, room, entryVars, note, shown, button, by, seen, timerVars, counters>>

AppendDigit(t) ==
  /\ Goto(t, "append", "length")
  /\ entry' = Append(typed[t], [digit |-> button[t] - 80, at |-> now])
  /\ entryTime' = now
  /\ typed' = [typed EXCEPT ![t] = << >>]
  /\ UNCHANGED <<tv, room, note, shown, button, by, seen, timerVars, counters>>

(* Mutant: an entry is complete with more digits than it needs. *)
CheckLengthOver(t) ==
  /\ Goto(t, "length", IF Len(entry) > EntryLength THEN "parse" ELSE "emit")
  /\ UNCHANGED <<tv, room, entryVars, note, shown, locals, timerVars, counters>>

CheckLength(t) ==
  /\ Goto(t, "length", IF Len(entry) >= EntryLength THEN "parse" ELSE "emit")
  /\ UNCHANGED <<tv, room, entryVars, note, shown, locals, timerVars, counters>>

(***************************************************************************)
(* int(channel_input): the ValueError of an empty string leads to the      *)
(* clearing of the entry alone.                                            *)
(***************************************************************************)
ParseEntry(t) ==
  /\ Goto(t, "parse", IF entry = << >> THEN "clear" ELSE "tune")
  /\ typed' = [typed EXCEPT ![t] = entry]
  /\ UNCHANGED <<tv, room, entryVars, note, shown, button, by, seen, timerVars, counters>>

(***************************************************************************)
(* Two threads can leave more than three digits in the entry.  Which       *)
(* number the "Invalid channel" text names is left out.                    *)
(***************************************************************************)
NumberOf(digits) == FoldLeft(LAMBDA n, d : 10 * n + d.digit, 0, digits)

Tune(t) ==
  /\ Goto(t, "tune", "clear")
  /\ LET channel == NumberOf(typed[t])
     IN  \/ /\ channel \in 0..MaxChannel
            /\ tv' = [tv EXCEPT !.channel = channel, !.app = NoApp]
            /\ note' = <<"Channel", channel>>
         \/ /\ channel \notin 0..MaxChannel
            /\ note' = <<"Invalid", 0>>
            /\ UNCHANGED tv
  /\ typed' = [typed EXCEPT ![t] = << >>]
  /\ UNCHANGED <<room, entryVars, shown, button, by, seen, timerVars, counters>>

ClearEntry(t) ==
  /\ Goto(t, "clear", "emit")
  /\ entry' = << >>
  /\ UNCHANGED <<tv, room, entryTime, note, shown, locals, timerVars, counters>>

-----------------------------------------------------------------------------
(***************************************************************************)
(* The broadcast of tv_state, and the clear timer a press schedules: the   *)
(* timer of the last press is cancelled, which stops it only while it      *)
(* waits, and a new one is started for the notification of the moment.     *)
(***************************************************************************)
Emit(t) ==
  /\ Goto(t, "emit", IF by[t] = 0 THEN "idle" ELSE "schedule")
  /\ shown' = State
  /\ UNCHANGED <<tv, room, entryVars, note, locals, timerVars, counters>>

(* Mutant: the timer of the last press is left running. *)
CancelNone == timers

CancelLatest ==
  [p \in Press |-> IF p = latest /\ timers[p].pc = "waiting"
                   THEN NoTimer
                   ELSE timers[p]]

(* Mutant: the timer is given the text the press began with. *)
ScheduleClearOfName(t) ==
  /\ Goto(t, "schedule", "idle")
  /\ timers' = [CancelLatest EXCEPT ![by[t]] =
                  [pc |-> "waiting", text |-> <<"Button", button[t]>>]]
  /\ latest' = by[t]
  /\ by' = [by EXCEPT ![t] = 0]
  /\ button' = [button EXCEPT ![t] = 0]
  /\ UNCHANGED <<tv, room, entryVars, note, shown, seen, typed, counters>>

ScheduleClear(t) ==
  /\ Goto(t, "schedule", "idle")
  /\ timers' = [CancelLatest EXCEPT ![by[t]] =
                  [pc |-> "waiting", text |-> note]]
  /\ latest' = by[t]
  /\ by' = [by EXCEPT ![t] = 0]
  /\ button' = [button EXCEPT ![t] = 0]
  /\ UNCHANGED <<tv, room, entryVars, note, shown, seen, typed, counters>>

(***************************************************************************)
(* A timer that fires compares the notification with the text it was       *)
(* given, then stores None, then broadcasts.  It takes no lock.            *)
(***************************************************************************)
TimerFires(p) ==
  /\ timers[p].pc = "waiting"
  /\ timers' = [timers EXCEPT ![p].pc = "fired"]
  /\ UNCHANGED <<tv, room, entryVars, note, shown, pc, locals, latest, counters>>

TimerCompares(p) ==
  /\ timers[p].pc = "fired"
  /\ timers' = [timers EXCEPT ![p] = IF @.text = note THEN [@ EXCEPT !.pc = "clearing"]
                                                       ELSE NoTimer]
  /\ UNCHANGED <<tv, room, entryVars, note, shown, pc, locals, latest, counters>>

TimerClears(p) ==
  /\ timers[p].pc = "clearing"
  /\ timers' = [timers EXCEPT ![p] = [NoTimer EXCEPT !.pc = "emit"]]
  /\ note' = NoNote
  /\ UNCHANGED <<tv, room, entryVars, shown, pc, locals, latest, counters>>

(* Mutant: the cleared notification is not broadcast. *)
TimerEnds(p) ==
  /\ timers[p].pc = "emit"
  /\ timers' = [timers EXCEPT ![p] = NoTimer]
  /\ UNCHANGED <<tv, room, entryVars, note, shown, pc, locals, latest, counters>>

TimerEmits(p) ==
  /\ timers[p].pc = "emit"
  /\ timers' = [timers EXCEPT ![p] = NoTimer]
  /\ shown' = State
  /\ UNCHANGED <<tv, room, entryVars, note, pc, locals, latest, counters>>

-----------------------------------------------------------------------------
(***************************************************************************)
(* The update_volume event stores the volume whatever the power state.     *)
(***************************************************************************)
UpdateVolume(t, v) ==
  /\ updates < MaxVolumeUpdates
  /\ Goto(t, "idle", "emit")
  /\ updates' = updates + 1
  /\ tv' = [tv EXCEPT !.volume = v]
  /\ UNCHANGED <<room, entryVars, note, shown, now, locals, timerVars, presses>>

(***************************************************************************)
(* More than CHANNEL_INPUT_TIMEOUT_SEC pass.                               *)
(***************************************************************************)
Pause ==
  /\ now < MaxPauses
  /\ \A t \in Threads : pc[t] \notin InNumberPad
  /\ now' = now + 1
  /\ UNCHANGED <<tv, room, entryVars, note, shown, pc, locals, timerVars, presses, updates>>

ThreadStep(t) ==
  \/ ReadState(t)
  \/ StoreState(t)
  \/ CloseOthers(t)
  \/ CheckStale(t)
  \/ ResetEntry(t)
  \/ ReadDigits(t)
  \/ AppendDigit(t)
  \/ CheckLength(t)
  \/ ParseEntry(t)
  \/ Tune(t)
  \/ ClearEntry(t)
  \/ Emit(t)
  \/ ScheduleClear(t)

TimerStep(p) ==
  \/ TimerFires(p)
  \/ TimerCompares(p)
  \/ TimerClears(p)
  \/ TimerEmits(p)

Next ==
  \/ \E t \in Threads, b \in Pressed : BeginPress(t, b)
  \/ \E t \in Threads, v \in Volumes : UpdateVolume(t, v)
  \/ \E t \in Threads : ThreadStep(t)
  \/ \E p \in Press : TimerStep(p)
  \/ Pause

(***************************************************************************)
(* A handler runs to its end and a started timer fires; nobody has to      *)
(* press a button.                                                         *)
(***************************************************************************)
Fairness ==
  /\ \A t \in Threads : WF_vars(ThreadStep(t))
  /\ \A p \in Press : WF_vars(TimerStep(p))

Spec == Init /\ [][Next]_vars /\ Fairness

-----------------------------------------------------------------------------
TypeInv ==
  /\ tv \in Tv
  /\ room \in Room
  /\ entry \in Seq(TypedDigit)
  /\ entryTime \in Nat \cup {Never}
  /\ note \in Note
  /\ now \in Nat
  /\ pc \in [Threads -> Place]
  /\ button \in [Threads -> Code]
  /\ by \in [Threads -> 0..MaxPresses]
  /\ seen \in [Threads -> [tv : Tv, room : Room]]
  /\ typed \in [Threads -> Seq(TypedDigit)]
  /\ timers \in [Press -> [pc : TimerPlace, text : Note]]
  /\ latest \in 0..MaxPresses
  /\ presses \in 0..MaxPresses
  /\ updates \in 0..MaxVolumeUpdates
  /\ \A t \in Threads :
       /\ pc[t] \in {"stale", "reset", "digits", "append"} => button[t] \in Digits
       /\ pc[t] \notin {"idle", "emit"} => by[t] # 0

(***************************************************************************)
(* Three digits never stay in channel_input: some thread is still between  *)
(* its append and the clearing, whatever other threads appended or         *)
(* cleared meanwhile.                                                      *)
(***************************************************************************)
EntryIsConsumed ==
  Len(entry) >= EntryLength =>
    \E t \in Threads : pc[t] \in {"length", "parse", "tune", "clear"}

(***************************************************************************)
(* The digits a channel is tuned from were typed without a pause between   *)
(* them ("4", pause, "5", "6" does not tune to 456).                       *)
(***************************************************************************)
NoStaleDigits ==
  \A t \in Threads : pc[t] = "tune" =>
    \A i, j \in DOMAIN typed[t] : typed[t][i].at = typed[t][j].at

(***************************************************************************)
(* Why: the digits of an entry came at entryTime, and a thread that adds   *)
(* one has dropped what is older than its own.                             *)
(***************************************************************************)
EntryOfOneTime ==
  /\ \A i \in DOMAIN entry : entry[i].at = entryTime
  /\ \A t \in Threads :
       /\ pc[t] = "digits" => entry = << >> \/ entryTime = now
       /\ pc[t] = "append" => \A i \in DOMAIN typed[t] : typed[t][i].at = now

(***************************************************************************)
(* There is a single notification timer: rapid presses do not pile up      *)
(* timers that wait.                                                       *)
(***************************************************************************)
SingleTimer ==
  \A p \in Press : timers[p].pc = "waiting" => p = latest

(***************************************************************************)
(* When no handler and no timer is under way, the last broadcast carried   *)
(* the state as it is: no store is left that nobody was told of.  The      *)
(* inductive form names who still has to broadcast.                        *)
(***************************************************************************)
Quiescent ==
  /\ \A t \in Threads : pc[t] = "idle"
  /\ \A p \in Press : timers[p].pc \in {"off", "waiting"}

ShownIsCurrent == Quiescent => shown = State

BroadcastIsDue ==
  \/ \E t \in Threads : pc[t] \notin {"idle", "schedule"}
  \/ \E p \in Press : timers[p].pc = "emit"

(***************************************************************************)
(* Each press has a timer of its own, which is off until the press         *)
(* schedules it.                                                           *)
(***************************************************************************)
TimerOwned ==
  /\ \A t \in Threads : by[t] # 0 => by[t] <= presses /\ timers[by[t]].pc = "off"
  /\ \A t, u \in Threads : by[t] # 0 /\ by[t] = by[u] => t = u
  /\ \A p \in Press : timers[p].pc # "off" => p <= presses

ShownOrDue == shown # State => BroadcastIsDue

(***************************************************************************)
(* The menu and the settings are open together only while the press that   *)
(* opened one of them is about to close the other, in whatever order the   *)
(* presses interleave: no press leaves both open.                          *)
(***************************************************************************)
OneOverlay == tv.menu /\ tv.settings => \E t \in Threads : pc[t] = "close"

(***************************************************************************)
(* A notification that is shown goes away.                                 *)
(***************************************************************************)
NotificationClears == note # NoNote ~> note = NoNote

=============================================================================
