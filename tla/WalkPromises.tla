---------------------------- MODULE WalkPromises ----------------------------
(***************************************************************************)
(* What the user of walk mode relies on, said of an instance of WalkMode,  *)
(* under names that can stand beside those of the other models of the page.*)
(***************************************************************************)
VARIABLES page, browser, hands, out  \* those of WalkMode

Walk == INSTANCE WalkMode

WalkSpec == Walk!Spec

(* The variables of controls.js, fp-hud.js and fp-interact.js keep their   *)
(* types; the remote is on its stand, on the floor or in its holder.       *)
WalkTypeInv ==
  /\ page \in Walk!Page
  /\ browser \in [locked : BOOLEAN, releasing : BOOLEAN, focused : BOOLEAN,
                  pending : SUBSET Walk!Requests]
  /\ hands \in [key : BOOLEAN, shift : BOOLEAN]
  /\ out \in {"press", "click", "nothing"}

(* Menu and resume overlay exist only during a walk and never together,    *)
(* and the pointer is never locked without a walk, which would leave the   *)
(* user in the overview with neither cursor nor menu, however late a       *)
(* request for the lock is granted, rejected or given back (fp-hud.js      *)
(* showMenu, showResumeOverlay; controls.js exitWalkMode).                 *)
PanelsAndLockBelongToWalk ==
  /\ page.menu \/ page.overlay => page.walkMode
  /\ ~(page.menu /\ page.overlay)
  /\ browser.locked \/ page.exitRequested => page.walkMode

(* Nobody walks by itself: a flag of movement or sprint is up only while   *)
(* its key is down, the stick is deflected only under a finger, although   *)
(* keys are let go while the window has no focus or the menu is open.  And *)
(* "the menu owns the keyboard: no walking or TV shortcuts behind it"; no  *)
(* finger put down before it opened presses a button afterwards.  A click  *)
(* of the mouse is not among this: under the pointer lock it reaches the   *)
(* canvas behind a menu that the pause button of the touch controls opened.*)
NoGhostInput ==
  /\ page.move => hands.key
  /\ page.shift => hands.shift
  /\ page.moveY => page.stick
  /\ page.menu => out # "press" /\ ~page.moveY

(* Three scripts move the remote (beginWalk and the views of controls.js,  *)
(* stowRemote and drawRemote of fp-interact.js) and only one keeps count.  *)
(* A remote on the floor can always be picked up; one that counts as held  *)
(* is on the holder whenever the view is that of first person; and the     *)
(* player is never offered one that counts as held.  Not promised: that    *)
(* only a remote on the floor is offered.  After R, 4, 4 it is on the      *)
(* holder, after one more 4 on its stand, and still offered for picking up *)
(* (switchViewToRemote, controls.js:452-488).                              *)
RemoteInItsPlace ==
  /\ page.remote = "floor" => page.listed /\ ~page.held
  /\ page.held /\ page.firstPerson => page.remote = "holder"
  /\ page.focus = "remote" => ~page.held

(* Whoever begins to walk has the remote in the hand, in first-person      *)
(* view, wherever it was left (beginWalk, interact.enter).                 *)
EnterInHand ==
  [][~page.walkMode /\ page'.walkMode =>
       page'.held /\ page'.remote = "holder" /\ page'.firstPerson]_Walk!vars

(* An exit asked for under the pointer lock happens once the browser has   *)
(* given the lock back, even if another request is granted in between.     *)
ExitLeaves == page.exitRequested ~> ~page.walkMode
=============================================================================
