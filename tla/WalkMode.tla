------------------------------ MODULE WalkMode ------------------------------
(***************************************************************************)
(* First-person walk mode of the page: controls.js (who walks, where the   *)
(* remote is, keys and mouse), fp-hud.js (pause menu, resume overlay, touch*)
(* controls), fp-move.js (stance keys) and fp-interact.js (using things,   *)
(* the remote in the hand or set down), tied together by fp-core.js.       *)
(*                                                                         *)
(* Handlers run to completion, so each is one action; what makes them hard *)
(* is the browser between them: the pointer lock is asked for and answered *)
(* later, released without asking, and keys are let go of while the window *)
(* has no focus.  The state of the page is one record, and a handler is a  *)
(* function on it, composed the way the code calls them.                   *)
(***************************************************************************)
VARIABLES
  page,     \* variables of the scripts
  browser,  \* pointer lock, requests for it under way, focus of the window
  hands,    \* what the user physically holds down
  out       \* what the last step did to the television: "press", "click" (a
            \* press with the mouse on the canvas behind the menu), "nothing"

vars == <<page, browser, hands, out>>

Requests == {"enter", "resume"}  \* enterWalkMode, requestLock of the HUD
InView == {"nothing", "remote", "device"}

Page == [walkMode : BOOLEAN, firstPerson : BOOLEAN, exitRequested : BOOLEAN,
         remote : {"stand", "floor", "holder"},  \* where remoteGroup hangs
         held : BOOLEAN, listed : BOOLEAN, focus : InView,
         menu : BOOLEAN, settings : BOOLEAN, overlay : BOOLEAN,
         usingLock : BOOLEAN, touch : BOOLEAN,
         move : BOOLEAN, shift : BOOLEAN, crouch : BOOLEAN, sprint : BOOLEAN,
         ariaSprint : BOOLEAN, ariaCrouch : BOOLEAN,
         stick : BOOLEAN, moveY : BOOLEAN, look : BOOLEAN]

Init ==
  /\ \E t \in BOOLEAN :
       page = [walkMode |-> FALSE, firstPerson |-> FALSE,
               exitRequested |-> FALSE, remote |-> "stand", held |-> TRUE,
               listed |-> FALSE, focus |-> "nothing", menu |-> FALSE,
               settings |-> FALSE, overlay |-> FALSE, usingLock |-> FALSE,
               touch |-> t, move |-> FALSE, shift |-> FALSE,
               crouch |-> FALSE, sprint |-> FALSE, ariaSprint |-> FALSE,
               ariaCrouch |-> FALSE, stick |-> FALSE, moveY |-> FALSE,
               look |-> FALSE]
  /\ browser = [locked |-> FALSE, releasing |-> FALSE, focused |-> TRUE,
                pending |-> {}]
  /\ hands = [key |-> FALSE, shift |-> FALSE]
  /\ out = "nothing"

-----------------------------------------------------------------------------
(* Menu and overlay of the HUD *)

ReleaseTouchInput(s) ==
  [s EXCEPT !.stick = FALSE, !.look = FALSE, !.moveY = FALSE]

(* Mutant: the menu opens over fingers that stay captured. *)
MenuOverFingers(s) ==
  IF s.menu THEN s
  ELSE [s EXCEPT !.menu = TRUE, !.settings = FALSE, !.overlay = FALSE]

ShowMenu(s) ==
  IF s.menu THEN s
  ELSE ReleaseTouchInput([s EXCEPT !.menu = TRUE, !.settings = FALSE,
                                   !.overlay = FALSE])

HideMenu(s) == [s EXCEPT !.menu = FALSE, !.settings = FALSE]

ShowResumeOverlay(s) ==
  IF s.walkMode THEN [HideMenu(s) EXCEPT !.overlay = TRUE] ELSE s

HideResumeOverlay(s) == [s EXCEPT !.overlay = FALSE]

OnPointerLockLost(s, focused) ==
  IF focused THEN ShowMenu(s) ELSE ShowResumeOverlay(s)

(* A click on a toggle of the touch controls; sprint and crouch exclude    *)
(* each other, by a click on the other toggle if it is pressed.            *)
CrouchTo(s, on) == [s EXCEPT !.ariaCrouch = on, !.crouch = on]
SprintTo(s, on) == [s EXCEPT !.ariaSprint = on, !.sprint = on]

ClickCrouch(s) ==
  LET on == ~s.ariaCrouch
      t  == CrouchTo(s, on)
  IN  IF on /\ t.ariaSprint THEN SprintTo(t, FALSE) ELSE t

ClickSprint(s) ==
  LET on == ~s.ariaSprint
      t  == SprintTo(s, on)
  IN  IF on /\ t.ariaCrouch THEN CrouchTo(t, FALSE) ELSE t

ResetTouchToggles(s) ==
  LET t == IF s.ariaCrouch THEN ClickCrouch(s) ELSE s
  IN  IF s.ariaSprint THEN ClickSprint(t) ELSE t

-----------------------------------------------------------------------------
(* The remote: on the holder of the hand, on the floor, or on its stand.   *)
(* fp-interact.js knows it as `held` or as `listed` for picking up;        *)
(* controls.js moves it without telling.                                   *)

StowRemote(s) ==
  IF s.held THEN [s EXCEPT !.remote = "floor", !.held = FALSE, !.listed = TRUE]
  ELSE s

DrawRemote(s) ==
  IF s.held THEN s
  ELSE [s EXCEPT !.listed = FALSE, !.remote = "holder", !.held = TRUE,
                 !.focus = "nothing"]

(* Mutant: the remote is taken off the holder and put nowhere. *)
DetachToNowhere(s) == [s EXCEPT !.firstPerson = FALSE, !.remote = "nowhere"]

(* Back from the holder to the base position: Space, 1, 2, 3, Zoom on TV;  *)
(* a remote on the floor stays there.                                      *)
Detach(s) ==
  [s EXCEPT !.firstPerson = FALSE,
            !.remote = IF s.remote = "holder" THEN "stand" ELSE s.remote]

(* Mutant: the view changes and the remote stays where it is. *)
ViewWithoutRemote(s) ==
  IF s.firstPerson THEN Detach(s) ELSE [s EXCEPT !.firstPerson = TRUE]

SwitchViewToRemote(s) ==
  IF s.firstPerson THEN Detach(s)
  ELSE [s EXCEPT !.firstPerson = TRUE, !.remote = "holder"]

-----------------------------------------------------------------------------
(* Beginning and leaving a walk *)

HudEnter(s, locked) == HideResumeOverlay([s EXCEPT !.usingLock = locked])
InteractEnter(s) == DrawRemote(s)

HudExit(s) ==
  ResetTouchToggles(ReleaseTouchInput(HideResumeOverlay(HideMenu(s))))
MoveExit(s) == [s EXCEPT !.moveY = FALSE, !.shift = FALSE]

(* Mutant: the remote set down before is not taken up again. *)
BeginEmptyHanded(s, locked) ==
  IF s.walkMode THEN s
  ELSE HudEnter([s EXCEPT !.walkMode = TRUE, !.move = FALSE,
                          !.firstPerson = TRUE, !.remote = "holder"], locked)

BeginWalk(s, locked) ==
  IF s.walkMode THEN s
  ELSE InteractEnter(HudEnter(
         [s EXCEPT !.walkMode = TRUE, !.move = FALSE, !.firstPerson = TRUE,
                   !.remote = "holder"], locked))

(* exitWalkMode without the lock *)
LeaveWalk(s) ==
  LET t == [s EXCEPT !.walkMode = FALSE, !.move = FALSE]
  IN  IF s.walkMode THEN MoveExit(HudExit(t)) ELSE t

(* pointerlockchange: the listener of the HUD runs before that of controls *)
OnLocked(s) == BeginWalk(HideResumeOverlay(HideMenu(s)), TRUE)

(* Mutant: an exit asked for is forgotten when the lock goes. *)
AlwaysPause(s, focused) ==
  IF s.walkMode
  THEN [OnPointerLockLost([s EXCEPT !.exitRequested = FALSE], focused)
          EXCEPT !.move = FALSE]
  ELSE LeaveWalk([s EXCEPT !.exitRequested = FALSE])

OnUnlocked(s, focused) ==
  LET t == [s EXCEPT !.exitRequested = FALSE]
  IN  IF ~s.exitRequested /\ s.walkMode
      THEN [OnPointerLockLost(t, focused) EXCEPT !.move = FALSE]
      ELSE LeaveWalk(t)

-----------------------------------------------------------------------------
(* The browser: answers to requests, the lock lost, the window's focus *)

Grant(r) ==
  /\ r \in browser.pending /\ browser.focused
  /\ browser' = [browser EXCEPT !.pending = @ \ {r}, !.locked = TRUE]
  /\ page' = OnLocked(page)
  /\ out' = "nothing" /\ UNCHANGED hands

(* pointerlockerror starts a walk without lock, or offers to resume it; a  *)
(* request of the HUD is rejected as well, before or after the event.      *)
OnLockError(s) ==
  IF s.walkMode THEN ShowResumeOverlay(s) ELSE BeginWalk(s, FALSE)

Deny(r) ==
  /\ r \in browser.pending /\ ~browser.locked
  /\ browser' = [browser EXCEPT !.pending = @ \ {r}]
  /\ \/ r = "enter" /\ page' = OnLockError(page)
     \/ r = "resume" /\ page' = ShowResumeOverlay(OnLockError(page))
     \/ r = "resume" /\ page' = OnLockError(ShowResumeOverlay(page))
  /\ out' = "nothing" /\ UNCHANGED hands

(* Esc while locked, which no script sees *)
UserUnlocks ==
  /\ browser.locked /\ browser.focused /\ ~browser.releasing
  /\ browser' = [browser EXCEPT !.releasing = TRUE]
  /\ out' = "nothing" /\ UNCHANGED <<page, hands>>

Unlocked ==
  /\ browser.releasing
  /\ browser' = [browser EXCEPT !.releasing = FALSE, !.locked = FALSE]
  /\ page' = OnUnlocked(page, browser.focused)
  /\ out' = "nothing" /\ UNCHANGED hands

ClearedAtBlur(s) == [s EXCEPT !.move = FALSE, !.shift = FALSE]

Blur ==
  /\ browser.focused
  /\ browser' = [browser EXCEPT !.focused = FALSE, !.releasing = browser.locked]
  /\ page' = ClearedAtBlur(page)
  /\ out' = "nothing" /\ UNCHANGED hands

Focus ==
  /\ ~browser.focused
  /\ browser' = [browser EXCEPT !.focused = TRUE]
  /\ out' = "nothing" /\ UNCHANGED <<page, hands>>

-----------------------------------------------------------------------------
(* Keys.  While the menu is open it alone gets them. *)

Keyboard == browser.focused /\ ~page.menu
Walking == page.walkMode

HoldKey ==
  /\ ~hands.key
  /\ hands' = [hands EXCEPT !.key = TRUE]
  /\ page' = [page EXCEPT !.move = @ \/ (Keyboard /\ Walking)]
  /\ out' = "nothing" /\ UNCHANGED browser

ReleaseKey ==
  /\ hands.key
  /\ hands' = [hands EXCEPT !.key = FALSE]
  /\ page' = [page EXCEPT !.move = @ /\ ~(browser.focused /\ Walking)]
  /\ out' = "nothing" /\ UNCHANGED browser

HoldShift ==
  /\ ~hands.shift
  /\ hands' = [hands EXCEPT !.shift = TRUE]
  /\ page' = [page EXCEPT !.shift = @ \/ (Keyboard /\ Walking)]
  /\ out' = "nothing" /\ UNCHANGED browser

ReleaseShift ==
  /\ hands.shift
  /\ hands' = [hands EXCEPT !.shift = FALSE]
  /\ page' = [page EXCEPT !.shift = @ /\ ~browser.focused]
  /\ out' = "nothing" /\ UNCHANGED browser

KeyC ==
  /\ Keyboard /\ Walking
  /\ page' = [page EXCEPT !.crouch = ~@, !.sprint = @ /\ page.crouch]
  /\ out' = "nothing" /\ UNCHANGED <<browser, hands>>

KeyR ==
  /\ Keyboard /\ Walking
  /\ page' = IF page.held THEN StowRemote(page) ELSE DrawRemote(page)
  /\ out' = "nothing" /\ UNCHANGED <<browser, hands>>

(* E, or the Use button of the touch controls *)
UseFocused ==
  /\ Keyboard /\ Walking
  /\ \/ /\ page.focus = "remote"
        /\ page' = DrawRemote(page)
        /\ out' = "nothing"
     \/ /\ page.focus = "device"
        /\ out' = "press"
        /\ UNCHANGED page
  /\ UNCHANGED <<browser, hands>>

(* P, U, D and the function keys, walking or not *)
KeyPress ==
  /\ Keyboard
  /\ out' = "press"
  /\ UNCHANGED <<page, browser, hands>>

KeyView ==
  /\ Keyboard
  /\ page' \in {Detach(page), SwitchViewToRemote(page)}
  /\ out' = "nothing" /\ UNCHANGED <<browser, hands>>

Escape ==
  /\ browser.focused /\ ~browser.locked /\ Walking
  /\ ~page.menu
  /\ page' = ShowMenu(page)
  /\ out' = "nothing" /\ UNCHANGED <<browser, hands>>

-----------------------------------------------------------------------------
(* Pointer and touch *)

(* Explore button, Enter: the HUD's enter() *)
Enter ==
  /\ browser.focused /\ ~Walking
  /\ \/ page.touch /\ page' = BeginWalk(page, browser.locked)
                   /\ UNCHANGED browser
     \/ ~page.touch /\ browser' = [browser EXCEPT !.pending = @ \cup {"enter"}]
                    /\ UNCHANGED page
  /\ out' = "nothing" /\ UNCHANGED hands

(* Resume: button, backdrop, Esc in the main view *)
Resume ==
  /\ browser.focused /\ page.menu
  /\ page' = HideMenu(page)
  /\ browser' = [browser EXCEPT !.pending =
                   IF page.usingLock /\ ~page.touch THEN @ \cup {"resume"} ELSE @]
  /\ out' = "nothing" /\ UNCHANGED hands

MenuView ==
  /\ browser.focused /\ page.menu
  /\ page' = [page EXCEPT !.settings = ~@]
  /\ out' = "nothing" /\ UNCHANGED <<browser, hands>>

ClickOverlay ==
  /\ browser.focused /\ page.overlay
  /\ page' = HideResumeOverlay(page)
  /\ browser' = [browser EXCEPT !.pending = @ \cup {"resume"}]
  /\ out' = "nothing" /\ UNCHANGED hands

(* Mutant: the walk is over at once, with the pointer still locked. *)
ExitNow ==
  /\ browser.focused /\ page.menu
  /\ page' = LeaveWalk(HideMenu(page))
  /\ browser' = [browser EXCEPT !.releasing = browser.locked]
  /\ out' = "nothing" /\ UNCHANGED hands

ExitToOverview ==
  /\ browser.focused /\ page.menu
  /\ \/ /\ browser.locked
        /\ page' = [HideMenu(page) EXCEPT !.exitRequested = TRUE]
        /\ browser' = [browser EXCEPT !.releasing = TRUE]
     \/ /\ ~browser.locked
        /\ page' = LeaveWalk(HideMenu(page))
        /\ UNCHANGED browser
  /\ out' = "nothing" /\ UNCHANGED hands

TouchStart ==
  /\ ~page.touch
  /\ page' = [page EXCEPT !.touch = TRUE]
  /\ out' = "nothing" /\ UNCHANGED <<browser, hands>>

TouchControls == browser.focused /\ page.touch /\ Walking /\ ~page.menu

TouchButton ==
  /\ TouchControls
  /\ page' \in {ShowMenu(page), ClickCrouch(page), ClickSprint(page)}
  /\ out' = "nothing" /\ UNCHANGED <<browser, hands>>

FingerDown ==
  /\ TouchControls
  /\ page' \in {[page EXCEPT !.stick = TRUE], [page EXCEPT !.look = TRUE]}
  /\ out' = "nothing" /\ UNCHANGED <<browser, hands>>

StickMove ==
  /\ page.stick
  /\ page' = [page EXCEPT !.moveY = TRUE]
  /\ out' = "nothing" /\ UNCHANGED <<browser, hands>>

StickUp ==
  /\ page.stick
  /\ page' = [page EXCEPT !.stick = FALSE, !.moveY = FALSE]
  /\ out' = "nothing" /\ UNCHANGED <<browser, hands>>

(* A quick tap on the look zone goes through to the remote's buttons. *)
LookUp ==
  /\ page.look
  /\ page' = [page EXCEPT !.look = FALSE]
  /\ out' \in {"press", "nothing"}
  /\ UNCHANGED <<browser, hands>>

(* A click on the canvas that hits a button.  Menu and overlay cover the   *)
(* canvas, except under the pointer lock, which sends it every click.      *)
ClickCanvas ==
  /\ browser.focused
  /\ browser.locked \/ ~(page.menu \/ page.overlay)
  /\ out' = IF page.menu THEN "click" ELSE "press"
  /\ UNCHANGED <<page, browser, hands>>

(* One frame: what the player looks at; the remote only if it lies about. *)
Frame ==
  /\ \E seen \in {"nothing", "device"} \cup {r \in {"remote"} : page.listed} :
       page' = [page EXCEPT !.focus = IF Walking /\ ~page.menu THEN seen
                                      ELSE "nothing"]
  /\ out' = "nothing" /\ UNCHANGED <<browser, hands>>

-----------------------------------------------------------------------------
Next ==
  \/ \E r \in Requests : Grant(r) \/ Deny(r)
  \/ UserUnlocks \/ Unlocked \/ Blur \/ Focus
  \/ HoldKey \/ ReleaseKey \/ HoldShift \/ ReleaseShift
  \/ KeyC \/ KeyR \/ UseFocused \/ KeyPress \/ KeyView \/ Escape
  \/ Enter \/ Resume \/ MenuView \/ ClickOverlay \/ ExitToOverview
  \/ TouchStart \/ TouchButton \/ FingerDown \/ StickMove \/ StickUp \/ LookUp
  \/ ClickCanvas \/ Frame

(* The browser completes a release it has begun. *)
Spec == Init /\ [][Next]_vars /\ WF_vars(Unlocked)
=============================================================================
