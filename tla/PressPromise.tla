---------------------------- MODULE PressPromise ----------------------------
(***************************************************************************)
(* What server and pages together promise of a press of a remote control:  *)
(* the server handles only presses that were made, each with the code of   *)
(* its button, and each once.  Only a press that is announced to the pages *)
(* as one of hardware can come back from them, as an echo, and not more    *)
(* often than there are interrupts to answer.                              *)
(***************************************************************************)
EXTENDS Naturals

CONSTANTS Press,             (* the presses                                *)
          Buttons,           (* the codes that can be pressed              *)
          None,              (* the code of a press not yet made           *)
          Echoes             (* how often an announced press comes back    *)

VARIABLES pressed,           (* the button of each press                   *)
          times,             (* how often each press was handled           *)
          handled,           (* the presses being handled, with a code     *)
          announced          (* the presses announced to pages             *)

vars == <<pressed, times, handled, announced>>

Init ==
  /\ pressed = [p \in Press |-> None]
  /\ times = [p \in Press |-> 0]
  /\ handled = {}
  /\ announced = {}

(* A user clicks: the press is on its way.                                 *)
Click(p, b) ==
  /\ pressed[p] = None
  /\ pressed' = [pressed EXCEPT ![p] = b]
  /\ UNCHANGED <<times, handled, announced>>

(* A program's press reaches the server as it is made.                     *)
Program(p, b) ==
  /\ pressed[p] = None
  /\ pressed' = [pressed EXCEPT ![p] = b]
  /\ times' = [times EXCEPT ![p] = @ + 1]
  /\ handled' = handled \cup {<<p, b>>}
  /\ UNCHANGED announced

(* A press that was made, or its echo, reaches the server.                 *)
Arrive(p) ==
  /\ pressed[p] # None
  /\ times[p] < IF p \in announced THEN 1 + Echoes ELSE 1
  /\ times' = [times EXCEPT ![p] = @ + 1]
  /\ handled' = handled \cup {<<p, pressed[p]>>}
  /\ UNCHANGED <<pressed, announced>>

(* While a press is handled it may be announced, and in the end it is done. *)
Announce(p) ==
  /\ <<p, pressed[p]>> \in handled
  /\ announced' = announced \cup {p}
  /\ UNCHANGED <<pressed, times, handled>>

Done(p) ==
  /\ handled' = handled \ {<<p, pressed[p]>>}
  /\ UNCHANGED <<pressed, times, announced>>

Next == \E p \in Press :
  \/ Arrive(p)
  \/ Announce(p)
  \/ Done(p)
  \/ \E b \in Buttons : Click(p, b) \/ Program(p, b)

Spec == Init /\ [][Next]_vars

=============================================================================
