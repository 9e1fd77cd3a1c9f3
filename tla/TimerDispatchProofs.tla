------------------------ MODULE TimerDispatchProofs -------------------------
(***************************************************************************)
(* Theorems about TimerDispatch, for any number of expirations.            *)
(***************************************************************************)
EXTENDS TimerDispatch, TLAPS

LEMMA TypeInit == Init => TypeInv
<1> SUFFICES ASSUME Init PROVE TypeInv
  OBVIOUS
<1>1. /\ windows \in BOOLEAN /\ handler \in BOOLEAN
      /\ armed \in BOOLEAN /\ latest = "none" /\ callbacks = 0
      /\ pc \in {"idle", "zero", "run", "drop"}
  BY DEF Init
<1>2. /\ pending \in Nat /\ pending \in {0, 1} /\ callbacks \in Nat
      /\ taken \in Nat /\ ticks \in 0..MaxTicks /\ runs \in Nat
  BY TimerAssumption DEF Init
<1> QED BY <1>1, <1>2 DEF TypeInv

LEMMA TypeNext == TypeInv /\ [Next]_vars => TypeInv'
<1> SUFFICES ASSUME TypeInv, [Next]_vars PROVE TypeInv'
  OBVIOUS
<1> USE TimerAssumption DEF TypeInv
<1>0. windows' = windows
  BY DEF Next, vars
<1>1. ASSUME NEW h \in BOOLEAN, Register(h) PROVE TypeInv'
  BY <1>0, <1>1 DEF Register
<1>2. CASE SetupTimer
  BY <1>0, <1>2 DEF SetupTimer
<1>3. CASE Signalled
  BY <1>0, <1>3 DEF Signalled
<1>4. CASE Expires
  BY <1>0, <1>4 DEF Expires
<1>5. CASE Callback
  BY <1>0, <1>5 DEF Callback
<1>6. CASE Exchange
  BY <1>0, <1>6 DEF Exchange
<1>7. CASE Read
  BY <1>0, <1>7 DEF Read
<1>8. CASE Zero
  BY <1>0, <1>8 DEF Zero
<1>9. CASE Run
  <2>1. CASE UNCHANGED <<runs, latest>>
    BY <1>0, <1>9, <2>1 DEF Run
  <2>2. CASE taken > 0 /\ pending > 0 /\ UNCHANGED latest
    BY <1>0, <1>9, <2>2 DEF Run
  <2>3. CASE taken > 0 /\ pending = 0 /\ latest' = IF handler THEN "handled" ELSE "refused"
    <3>1. latest' \in {"handled", "refused"}
      BY <2>3
    <3>2. /\ pc' = "idle" /\ taken' = 0 /\ runs' \in Nat
          /\ UNCHANGED <<handler, armed, pending, callbacks, ticks>>
      BY <1>9, <2>3 DEF Run
    <3> QED BY <1>0, <3>1, <3>2
  <2> QED BY <1>9, <2>1, <2>2, <2>3 DEF Run
<1>10. CASE StopTimer
  BY <1>0, <1>10 DEF StopTimer
<1>11. CASE Drop
  BY <1>0, <1>11 DEF Drop
<1>12. CASE UNCHANGED vars
  BY <1>0, <1>12 DEF vars
<1> QED
  BY <1>1, <1>2, <1>3, <1>4, <1>5, <1>6, <1>7, <1>8, <1>9, <1>10, <1>11, <1>12 DEF Next, Step

(***************************************************************************)
(* The timer's variables stay well formed; on POSIX timer_pending remains  *)
(* a flag.                                                                 *)
(***************************************************************************)
THEOREM TypeCorrect == Spec => []TypeInv
BY TypeInit, TypeNext, PTL DEF Spec

-----------------------------------------------------------------------------
(***************************************************************************)
(* On Windows the program never is between a read and a store of the mark. *)
(* On POSIX the store follows a read: what was read stays taken, and a     *)
(* signal after a read of nothing is not due any more.                     *)
(***************************************************************************)
KeptInv ==
  /\ TickIsKept
  /\ windows => pc # "zero"
  /\ pc = "zero" /\ latest = "due" => taken > 0

LEMMA KeptNext == TypeInv /\ KeptInv /\ [Next]_vars => KeptInv'
<1> SUFFICES ASSUME TypeInv, KeptInv, [Next]_vars PROVE KeptInv'
  OBVIOUS
<1> USE DEF TypeInv, KeptInv, TickIsKept
<1>0. windows' = windows
  BY DEF Next, vars
<1>1. ASSUME NEW h \in BOOLEAN, Register(h) PROVE KeptInv'
  BY <1>0, <1>1 DEF Register
<1>2. CASE SetupTimer
  BY <1>0, <1>2 DEF SetupTimer
<1>3. CASE Signalled
  BY <1>0, <1>3 DEF Signalled
<1>4. CASE Expires
  BY <1>0, <1>4 DEF Expires
<1>5. CASE Callback
  BY <1>0, <1>5 DEF Callback
<1>6. CASE Exchange
  BY <1>0, <1>6 DEF Exchange
<1>7. CASE Read
  BY <1>0, <1>7 DEF Read
<1>8. CASE Zero
  BY <1>0, <1>8 DEF Zero
<1>9. CASE Run
  <2>1. CASE UNCHANGED <<runs, latest>>
    BY <1>0, <1>9, <2>1 DEF Run
  <2>2. CASE taken > 0 /\ pending > 0 /\ UNCHANGED latest
    BY <1>0, <1>9, <2>2 DEF Run
  <2>3. CASE taken > 0 /\ pending = 0 /\ latest' = IF handler THEN "handled" ELSE "refused"
    BY <1>0, <1>9, <2>3 DEF Run
  <2> QED BY <1>0, <1>9, <2>1, <2>2, <2>3 DEF Run
<1>10. CASE StopTimer
  BY <1>0, <1>10 DEF StopTimer
<1>11. CASE Drop
  BY <1>0, <1>11 DEF Drop
<1>12. CASE UNCHANGED vars
  BY <1>0, <1>12 DEF vars
<1> QED
  BY <1>1, <1>2, <1>3, <1>4, <1>5, <1>6, <1>7, <1>8, <1>9, <1>10, <1>11, <1>12 DEF Next, Step

(***************************************************************************)
(* On both builds a marked expiration waits for a dispatch that answers it *)
(* or a stop, however signals and callbacks come in between; what POSIX    *)
(* loses between its read and its store is named (handler_dispatch_timer,  *)
(* handler_stop_timer).                                                    *)
(***************************************************************************)
THEOREM MarkedTicksAreKept == Spec => []TickIsKept
<1>1. Init => KeptInv
  BY DEF Init, KeptInv, TickIsKept
<1>2. KeptInv => TickIsKept
  BY DEF KeptInv
<1> QED BY <1>1, <1>2, KeptNext, TypeCorrect, PTL DEF Spec

-----------------------------------------------------------------------------
(***************************************************************************)
(* Only between the two steps of handler_stop_timer is something pending   *)
(* of a timer that does not run.                                           *)
(***************************************************************************)
Quiet == ~armed /\ pc # "drop" => pending = 0
QuietInv == ~windows => Quiet

LEMMA QuietNext == TypeInv /\ QuietInv /\ [Next]_vars => QuietInv'
<1> SUFFICES ASSUME TypeInv, Quiet, [Next]_vars, ~windows PROVE Quiet'
  BY DEF QuietInv, Next, vars
<1> USE DEF TypeInv, Quiet
<1>1. ASSUME NEW h \in BOOLEAN, Register(h) PROVE Quiet'
  BY <1>1 DEF Register
<1>2. CASE SetupTimer
  BY <1>2 DEF SetupTimer
<1>3. CASE Signalled
  BY <1>3 DEF Signalled
<1>4. CASE Expires \/ Exchange
  BY <1>4 DEF Expires, Exchange
<1>5. CASE Callback
  BY <1>5 DEF Callback
<1>6. CASE Read
  BY <1>6 DEF Read
<1>7. CASE Zero
  BY <1>7 DEF Zero
<1>8. CASE Run
  BY <1>8 DEF Run
<1>9. CASE StopTimer
  BY <1>9 DEF StopTimer
<1>10. CASE Drop
  BY <1>10 DEF Drop
<1>11. CASE UNCHANGED vars
  BY <1>11 DEF vars
<1> QED
  BY <1>1, <1>2, <1>3, <1>4, <1>5, <1>6, <1>7, <1>8, <1>9, <1>10, <1>11 DEF Next, Step

(***************************************************************************)
(* On POSIX a timer that was stopped leaves nothing pending: the signal    *)
(* cannot come after setitimer has disarmed it (handler_stop_timer).       *)
(***************************************************************************)
THEOREM PosixStops == Spec => []StoppedIsQuiet
<1>1. Init => QuietInv
  BY DEF Init, QuietInv, Quiet
<1>2. TypeInv /\ QuietInv /\ [Next]_vars => QuietInv'
  BY QuietNext
<1>3. QuietInv => StoppedIsQuiet
  BY DEF QuietInv, Quiet, StoppedIsQuiet
<1> QED BY <1>1, <1>2, <1>3, TypeCorrect, PTL DEF Spec

-----------------------------------------------------------------------------
(***************************************************************************)
(* An expiration is a callback under way, pending, taken, or answered.     *)
(* Between the read and the store it may be both pending and taken.        *)
(***************************************************************************)
CountInv ==
  /\ runs + callbacks + pending + (IF pc = "run" THEN taken ELSE 0) <= ticks
  /\ pc = "zero" => runs + callbacks + taken <= ticks

LEMMA CountNext == TypeInv /\ CountInv /\ [Next]_vars => CountInv'
<1> SUFFICES ASSUME TypeInv, CountInv, [Next]_vars PROVE CountInv'
  OBVIOUS
<1> USE TimerAssumption DEF TypeInv, CountInv
<1>1. ASSUME NEW h \in BOOLEAN, Register(h) PROVE CountInv'
  BY <1>1 DEF Register
<1>2. CASE SetupTimer
  BY <1>2 DEF SetupTimer
<1>3. CASE Signalled
  <2>1. /\ ticks' = ticks + 1 /\ pending' = 1 /\ pending >= 0
        /\ UNCHANGED <<callbacks, pc, taken, runs>>
    BY <1>3 DEF Signalled
  <2> QED BY <2>1
<1>4. CASE Expires
  BY <1>4 DEF Expires
<1>5. CASE Callback
  BY <1>5 DEF Callback
<1>6. CASE Exchange
  BY <1>6 DEF Exchange
<1>7. CASE Read
  BY <1>7 DEF Read
<1>8. CASE Zero
  BY <1>8 DEF Zero
<1>9. CASE Run
  <2>1. CASE UNCHANGED <<runs, latest>>
    BY <1>9, <2>1 DEF Run
  <2>2. CASE taken > 0 /\ pending > 0 /\ UNCHANGED latest
    BY <1>9, <2>2 DEF Run
  <2>3. CASE taken > 0 /\ pending = 0 /\ latest' = IF handler THEN "handled" ELSE "refused"
    BY <1>9, <2>3 DEF Run
  <2> QED BY <1>9, <2>1, <2>2, <2>3 DEF Run
<1>10. CASE StopTimer
  BY <1>10 DEF StopTimer
<1>11. CASE Drop
  BY <1>11 DEF Drop
<1>12. CASE UNCHANGED vars
  BY <1>12 DEF vars
<1> QED
  BY <1>1, <1>2, <1>3, <1>4, <1>5, <1>6, <1>7, <1>8, <1>9, <1>10, <1>11, <1>12 DEF Next, Step

(***************************************************************************)
(* On both builds the timer handler is called at most once for an          *)
(* expiration (handler_dispatch_timer).                                    *)
(***************************************************************************)
THEOREM NoRunWithoutTick == Spec => []RunsFollowTicks
<1>1. Init => CountInv
  BY DEF Init, CountInv
<1>2. TypeInv /\ CountInv => RunsFollowTicks
  BY TimerAssumption DEF TypeInv, CountInv, RunsFollowTicks
<1> QED BY <1>1, <1>2, CountNext, TypeCorrect, PTL DEF Spec

=============================================================================
