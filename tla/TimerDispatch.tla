--------------------------- MODULE TimerDispatch ----------------------------
(***************************************************************************)
(* The periodic timer of the C library (src/handlers.c:                    *)
(* handler_setup_timer, handler_dispatch_timer, handler_stop_timer).       *)
(*                                                                         *)
(* An expiration only marks timer_pending; the program runs the timer      *)
(* handler when it calls handler_dispatch_timer.  On POSIX the mark is set *)
(* by a signal handler between any two steps of the program, and taken by  *)
(* a read and a store.  On Windows a thread of the timer queue increments  *)
(* it, also after the timer was deleted, and an exchange takes it.         *)
(***************************************************************************)
EXTENDS Naturals

CONSTANT MaxTicks      (* bounds the expirations                            *)

ASSUME TimerAssumption == MaxTicks \in Nat

VARIABLES
  windows,    (* which of the two builds this is                            *)
  handler,    (* whether timer_handler is registered                        *)
  armed,      (* whether the timer runs                                     *)
  pending,    (* timer_pending                                              *)
  callbacks,  (* callbacks of the timer queue under way                     *)
  pc,         (* where the program is                                       *)
  taken,      (* what handler_dispatch_timer has read                       *)
  latest,     (* history: what became of the latest expiration              *)
  ticks,      (* expirations so far                                         *)
  runs        (* history: calls of the handler                              *)

vars == <<windows, handler, armed, pending, callbacks, pc, taken, latest, ticks, runs>>

Init ==
  /\ windows \in BOOLEAN
  /\ handler = FALSE
  /\ armed = FALSE
  /\ pending = 0
  /\ callbacks = 0
  /\ pc = "idle"
  /\ taken = 0
  /\ latest = "none"
  /\ ticks = 0
  /\ runs = 0

-----------------------------------------------------------------------------
(***************************************************************************)
(* The application registers a timer handler, or NULL.                     *)
(***************************************************************************)
Register(h) ==
  /\ pc = "idle"
  /\ handler' = h
  /\ UNCHANGED <<armed, pending, callbacks, pc, taken, latest, ticks, runs>>

SetupTimer ==
  /\ pc = "idle"
  /\ handler
  /\ armed' = TRUE
  /\ UNCHANGED <<handler, pending, callbacks, pc, taken, latest, ticks, runs>>

(***************************************************************************)
(* The timer expires.  A signal between the read and the store of a        *)
(* dispatch that has read nothing is erased by the store: it is `raced`.   *)
(***************************************************************************)
Signalled ==
  /\ ~windows
  /\ armed
  /\ ticks < MaxTicks
  /\ ticks' = ticks + 1
  /\ pending' = 1
  /\ latest' = IF pc = "zero" /\ taken = 0 THEN "raced" ELSE "due"
  /\ UNCHANGED <<handler, armed, callbacks, pc, taken, runs>>

Expires ==
  /\ windows
  /\ armed
  /\ ticks < MaxTicks
  /\ ticks' = ticks + 1
  /\ callbacks' = callbacks + 1
  /\ UNCHANGED <<handler, armed, pending, pc, taken, latest, runs>>

Callback ==
  /\ callbacks > 0
  /\ callbacks' = callbacks - 1
  /\ pending' = pending + 1
  /\ latest' = "due"
  /\ UNCHANGED <<handler, armed, pc, taken, ticks, runs>>

-----------------------------------------------------------------------------
(***************************************************************************)
(* handler_dispatch_timer: take the mark, and run the handler for it.      *)
(***************************************************************************)
(* Mutant: the exchange is a read and a store. *)
TakeInTwo ==
  /\ pc = "idle"
  /\ taken' = pending
  /\ pc' = "zero"
  /\ UNCHANGED <<handler, armed, pending, callbacks, latest, ticks, runs>>

Exchange ==
  /\ windows
  /\ pc = "idle"
  /\ taken' = pending
  /\ pending' = 0
  /\ pc' = "run"
  /\ UNCHANGED <<handler, armed, callbacks, latest, ticks, runs>>

Read ==
  /\ ~windows
  /\ pc = "idle"
  /\ taken' = pending
  /\ pc' = "zero"
  /\ UNCHANGED <<handler, armed, pending, callbacks, latest, ticks, runs>>

Zero ==
  /\ pc = "zero"
  /\ pending' = 0
  /\ pc' = "run"
  /\ UNCHANGED <<handler, armed, callbacks, taken, latest, ticks, runs>>

(***************************************************************************)
(* Nothing pending returns 0; with no handler the expiration is taken all  *)
(* the same, and refused with -1.                                          *)
(***************************************************************************)
(* Mutant: the handler runs whether or not something was pending. *)
RunAlways ==
  /\ pc = "run"
  /\ pc' = "idle"
  /\ runs' = IF handler THEN runs + 1 ELSE runs
  /\ runs <= MaxTicks
  /\ latest' = IF pending > 0 THEN latest ELSE "handled"
  /\ taken' = 0
  /\ UNCHANGED <<handler, armed, pending, callbacks, ticks>>

Run ==
  /\ pc = "run"
  /\ pc' = "idle"
  /\ taken' = 0
  /\ \/ /\ taken = 0
        /\ UNCHANGED <<runs, latest>>
     \/ /\ taken > 0
        /\ runs' = IF handler THEN runs + 1 ELSE runs
        /\ \/ pending > 0 /\ UNCHANGED latest
           \/ pending = 0 /\ latest' = IF handler THEN "handled" ELSE "refused"
  /\ UNCHANGED <<handler, armed, pending, callbacks, ticks>>

-----------------------------------------------------------------------------
(***************************************************************************)
(* handler_stop_timer: disarm, then drop what is pending.                  *)
(***************************************************************************)
StopTimer ==
  /\ pc = "idle"
  /\ armed' = FALSE
  /\ pc' = "drop"
  /\ UNCHANGED <<handler, pending, callbacks, taken, latest, ticks, runs>>

(* Mutant: what is pending stays. *)
DropNothing ==
  /\ pc = "drop"
  /\ pc' = "idle"
  /\ UNCHANGED <<handler, armed, pending, callbacks, taken, latest, ticks, runs>>

Drop ==
  /\ pc = "drop"
  /\ pending' = 0
  /\ latest' = IF latest = "due" THEN "stopped" ELSE latest
  /\ pc' = "idle"
  /\ UNCHANGED <<handler, armed, callbacks, taken, ticks, runs>>

Step ==
  \/ \E h \in BOOLEAN : Register(h)
  \/ SetupTimer
  \/ Signalled \/ Expires \/ Callback
  \/ Exchange \/ Read \/ Zero \/ Run
  \/ StopTimer \/ Drop

Next == Step /\ UNCHANGED windows

Spec == Init /\ [][Next]_vars

-----------------------------------------------------------------------------
TypeInv ==
  /\ windows \in BOOLEAN
  /\ handler \in BOOLEAN
  /\ armed \in BOOLEAN
  /\ pending \in Nat /\ (~windows => pending \in {0, 1})
  /\ callbacks \in Nat /\ (~windows => callbacks = 0)
  /\ pc \in {"idle", "zero", "run", "drop"}
  /\ taken \in Nat
  /\ latest \in {"none", "due", "handled", "refused", "stopped", "raced"}
  /\ ticks \in 0..MaxTicks
  /\ runs \in Nat

(***************************************************************************)
(* An expiration that is still due is marked, or taken by a dispatch that  *)
(* is about to answer it: on either build its mark goes away only with a   *)
(* call of the handler, with the -1 of a dispatch that has no handler (the *)
(* expiration is then gone, handlers.c:518), or with a stop.  The one      *)
(* exception is POSIX's, a signal between the read and the store of a      *)
(* dispatch that has read nothing (handlers.c:512-513); Windows has none.  *)
(***************************************************************************)
TickIsKept == latest = "due" => pending > 0 \/ (pc \in {"zero", "run"} /\ taken > 0)

(***************************************************************************)
(* On POSIX a timer that was stopped leaves nothing behind that would run  *)
(* the handler of a timer set up later.  On Windows a late callback may.   *)
(***************************************************************************)
StoppedIsQuiet == ~windows /\ ~armed /\ pc = "idle" => pending = 0

(***************************************************************************)
(* Every call of the handler answers an expiration of its own: none is     *)
(* answered twice.                                                         *)
(***************************************************************************)
RunsFollowTicks == runs <= ticks

=============================================================================
