----------------------------- MODULE MCTvServer -----------------------------
(***************************************************************************)
(* The bounded instances of TvServer.                                      *)
(***************************************************************************)
EXTENDS TvServer, TLC

ThreadSymmetry == Permutations(Threads)

(***************************************************************************)
(* What the number pad depends on: no step that changes one of these reads *)
(* the notification, its timers or the last broadcast, so a run about      *)
(* channel entries need not tell states apart by them.                     *)
(***************************************************************************)
NumberPadView == <<tv, seen, entry, entryTime, now, pc, button, typed, presses>>
=============================================================================
