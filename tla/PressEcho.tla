----------------------------- MODULE PressEcho -----------------------------
(***************************************************************************)
(* The server and the browser pages that show the simulator: how a press   *)
(* reaches the TV state and how the pages learn of it                      *)
(* (test_simulator/web_server.py; socket-state.js of the page).            *)
(*                                                                         *)
(* A press comes from a page, over Socket.IO, or from a program, over REST *)
(* or the IPC socket.  Each press is handled by a thread of its own, with  *)
(* no lock on tv_state.  If it came from hardware its thread announces it  *)
(* with two interrupt events, and every page answers each of them with a   *)
(* button_press of its own.  The threads of update_volume, detect-brand    *)
(* and the notification timer write and broadcast tv_state as well.        *)
(*                                                                         *)
(* What tv_state holds is the subject of TvServer: here it is one of a few *)
(* states, a thread that stores may leave any of them (its own branch, or  *)
(* an update lost to another thread), and what matters is who is told of   *)
(* it.  A broadcast reaches the pages that are connected, in order; the    *)
(* events of a page are handled in any order.  A connection that is lost   *)
(* takes along what is under way.                                          *)
(***************************************************************************)
EXTENDS Naturals, FiniteSets, Sequences

CONSTANTS Browsers,         (* the pages                                   *)
          Buttons,          (* the codes that are pressed                  *)
          NoButton,         (* the code of a press that is not yet made    *)
          States,           (* what tv_state can hold                      *)
          InitTv,           (* what it holds at first                      *)
          Hardware,         (* from_hardware of the presses by programs    *)
          MaxPresses,       (* bounds the presses by programs and clicks   *)
          MaxWrites,        (* bounds the writes of other threads          *)
          MaxDisconnects    (* bounds the lost connections                 *)

ASSUME EchoAssumption ==
  /\ IsFiniteSet(Browsers)
  /\ NoButton \notin Buttons
  /\ InitTv \in States
  /\ Hardware \subseteq BOOLEAN
  /\ MaxPresses \in Nat
  /\ MaxWrites \in Nat
  /\ MaxDisconnects \in Nat

VARIABLES
  tv,            (* tv_state                                               *)
  connected,     (* whether the socket of each page is connected           *)
  inbox,         (* the events under way to each page                      *)
  outbox,        (* the events under way from each page                    *)
  view,          (* the tvState each page shows                            *)
  handling,      (* the threads in handle_button_press                     *)
  writers,       (* how many other threads have written and not broadcast  *)
  writes,        (* writes of such threads so far                          *)
  presses,       (* presses so far                                         *)
  pressed,       (* history: the code of each press                        *)
  applied,       (* history: how often each press was handled              *)
  told,          (* history: which page was told which interrupt of it     *)
  disconnects    (* lost connections so far                                *)

vars == <<tv, connected, inbox, outbox, view, handling, writers, writes, presses,
          pressed, applied, told, disconnects>>

Press == 1..MaxPresses

(***************************************************************************)
(* The events.  Two interrupt events report the same press.                *)
(***************************************************************************)
InterruptKind == {"hardware_interrupt", "button_press_interrupt"}
Interrupt(kind, p, b) == [kind |-> kind, press |-> p, code |-> b]
StateUpdate(s) == [kind |-> "tv_state_update", state |-> s]
ButtonPress(p, b, why) == [kind |-> "button_press", press |-> p, code |-> b, why |-> why]
RequestState == [kind |-> "request_state"]

Online == { c \in Browsers : connected[c] }

(***************************************************************************)
(* socketio.emit without a recipient.                                      *)
(***************************************************************************)
Broadcast(event) ==
  inbox' = [c \in Browsers |-> IF connected[c] THEN Append(inbox[c], event) ELSE inbox[c]]

Init ==
  /\ tv = InitTv
  /\ connected = [c \in Browsers |-> TRUE]
  /\ inbox = [c \in Browsers |-> << >>]
  /\ outbox = [c \in Browsers |-> {}]
  /\ view = [c \in Browsers |-> InitTv]
  /\ handling = {}
  /\ writers = 0
  /\ writes = 0
  /\ presses = 0
  /\ pressed = [p \in Press |-> NoButton]
  /\ applied = [p \in Press |-> 0]
  /\ told = [p \in Press |-> {}]
  /\ disconnects = 0

-----------------------------------------------------------------------------
(***************************************************************************)
(* handle_button_press, a thread for each event e that came from a page or *)
(* a program.  It stores last_button and the notification, announces the   *)
(* press if it came from hardware, one interrupt after the other, runs the *)
(* branch of the button, which reads and stores, and broadcasts the state  *)
(* as it is then.                                                          *)
(***************************************************************************)
(* Mutant: an echoed press is announced as a hardware press again. *)
EchoesAgain(from, e, fromHardware) ==
  /\ applied[e.press] < 9
  /\ tv' \in States
  /\ applied' = [applied EXCEPT ![e.press] = @ + 1]
  /\ handling' = handling \cup {[from |-> from, event |-> e, at |-> "hardware_interrupt"]}

HandleButtonPress(from, e, fromHardware) ==
  /\ tv' \in States
  /\ applied' = [applied EXCEPT ![e.press] = @ + 1]
  /\ handling' = handling \cup
       {[from |-> from, event |-> e,
         at |-> IF fromHardware THEN "hardware_interrupt" ELSE "branch"]}

Announce(h) ==
  /\ h.at \in InterruptKind
  /\ Broadcast(Interrupt(h.at, h.event.press, h.event.code))
  /\ told' = [told EXCEPT ![h.event.press] = @ \cup (Online \X {h.at})]
  /\ handling' = (handling \ {h}) \cup
       {[h EXCEPT !.at = IF @ = "hardware_interrupt" THEN "button_press_interrupt"
                                                     ELSE "branch"]}
  /\ UNCHANGED <<tv, connected, outbox, view, writers, writes, presses, pressed, applied,
                 disconnects>>

Branch(h) ==
  /\ h.at = "branch"
  /\ tv' \in States
  /\ UNCHANGED <<connected, inbox, outbox, view, handling, writers, writes, presses,
                 pressed, applied, told, disconnects>>

(* Mutant: the branch stores once more after the broadcast. *)
BroadcastsEarly(h) ==
  /\ h.at = "branch"
  /\ tv' \in States
  /\ Broadcast(StateUpdate(tv))
  /\ handling' = handling \ {h}
  /\ UNCHANGED <<connected, outbox, view, writers, writes, presses, pressed, applied, told,
                 disconnects>>

Finish(h) ==
  /\ h.at = "branch"
  /\ Broadcast(StateUpdate(tv))
  /\ handling' = handling \ {h}
  /\ UNCHANGED <<tv, connected, outbox, view, writers, writes, presses, pressed, applied,
                 told, disconnects>>

(***************************************************************************)
(* update_volume, detect-brand and the notification timer: each writes and *)
(* then broadcasts, or does neither.                                       *)
(***************************************************************************)
Write ==
  /\ writes < MaxWrites
  /\ writes' = writes + 1
  /\ writers' = writers + 1
  /\ tv' \in States
  /\ UNCHANGED <<connected, inbox, outbox, view, handling, presses, pressed, applied, told,
                 disconnects>>

FinishWrite ==
  /\ writers > 0
  /\ writers' = writers - 1
  /\ Broadcast(StateUpdate(tv))
  /\ UNCHANGED <<tv, connected, outbox, view, handling, writes, presses, pressed, applied,
                 told, disconnects>>

-----------------------------------------------------------------------------
(***************************************************************************)
(* A program presses a button: POST /api/button, whose from_hardware is    *)
(* TRUE unless it says otherwise, the IPC socket (TRUE), MQTT (FALSE).     *)
(***************************************************************************)
ProgramPresses(b, fromHardware) ==
  /\ presses < MaxPresses
  /\ presses' = presses + 1
  /\ pressed' = [pressed EXCEPT ![presses + 1] = b]
  /\ HandleButtonPress("program", ButtonPress(presses + 1, b, "program"), fromHardware)
  /\ UNCHANGED <<connected, inbox, outbox, view, writers, writes, told, disconnects>>

(***************************************************************************)
(* A click on the remote of a page.                                        *)
(***************************************************************************)
Click(c, b) ==
  /\ connected[c]
  /\ presses < MaxPresses
  /\ presses' = presses + 1
  /\ pressed' = [pressed EXCEPT ![presses + 1] = b]
  /\ outbox' = [outbox EXCEPT ![c] = @ \cup {ButtonPress(presses + 1, b, "click")}]
  /\ UNCHANGED <<tv, connected, inbox, view, handling, writers, writes, applied, told,
                 disconnects>>

(***************************************************************************)
(* The server takes an event of a page.                                    *)
(***************************************************************************)
HandleEvent(c, e) ==
  /\ outbox' = [outbox EXCEPT ![c] = @ \ {e}]
  /\ \/ /\ e.kind = "button_press"
        /\ HandleButtonPress(c, e, FALSE)
        /\ UNCHANGED inbox
     \/ /\ e.kind = "request_state"
        /\ inbox' = [inbox EXCEPT ![c] = Append(@, StateUpdate(tv))]
        /\ UNCHANGED <<tv, applied, handling>>
  /\ UNCHANGED <<connected, view, writers, writes, presses, pressed, told, disconnects>>

(***************************************************************************)
(* A page receives an event: it shows the state, and it answers an         *)
(* interrupt with a press of its own, whose code is the interrupt's.       *)
(***************************************************************************)
(* Mutant: a page answers only one of the two interrupts of a press. *)
ReceiveOnce(c) ==
  /\ inbox[c] # << >>
  /\ inbox' = [inbox EXCEPT ![c] = Tail(@)]
  /\ LET e == Head(inbox[c])
     IN  \/ /\ e.kind = "tv_state_update"
            /\ view' = [view EXCEPT ![c] = e.state]
            /\ UNCHANGED outbox
         \/ /\ e.kind \in InterruptKind
            /\ outbox' = [outbox EXCEPT ![c] = @ \cup {ButtonPress(e.press, e.code, "click")}]
            /\ UNCHANGED view
  /\ UNCHANGED <<tv, connected, handling, writers, writes, presses, pressed, applied, told,
                 disconnects>>

(* Mutant: an interrupt is answered with the code of the latest one. *)
AnswersLatest(c) ==
  /\ inbox[c] # << >>
  /\ inbox' = [inbox EXCEPT ![c] = Tail(@)]
  /\ LET e == Head(inbox[c])
         told_of == SelectSeq(inbox[c], LAMBDA x : x.kind \in InterruptKind)
     IN  \/ /\ e.kind = "tv_state_update"
            /\ view' = [view EXCEPT ![c] = e.state]
            /\ UNCHANGED outbox
         \/ /\ e.kind \in InterruptKind
            /\ outbox' = [outbox EXCEPT ![c] = @ \cup
                            {ButtonPress(e.press, told_of[Len(told_of)].code, e.kind)}]
            /\ UNCHANGED view
  /\ UNCHANGED <<tv, connected, handling, writers, writes, presses, pressed, applied, told,
                 disconnects>>

Receive(c) ==
  /\ inbox[c] # << >>
  /\ inbox' = [inbox EXCEPT ![c] = Tail(@)]
  /\ LET e == Head(inbox[c])
     IN  \/ /\ e.kind = "tv_state_update"
            /\ view' = [view EXCEPT ![c] = e.state]
            /\ UNCHANGED outbox
         \/ /\ e.kind \in InterruptKind
            /\ outbox' = [outbox EXCEPT ![c] = @ \cup {ButtonPress(e.press, e.code, e.kind)}]
            /\ UNCHANGED view
  /\ UNCHANGED <<tv, connected, handling, writers, writes, presses, pressed, applied, told,
                 disconnects>>

-----------------------------------------------------------------------------
(***************************************************************************)
(* A lost connection, and the page that connects again: the server sends   *)
(* it the state and it asks for the state as well.  The threads that are   *)
(* under way go on.                                                        *)
(***************************************************************************)
Disconnect(c) ==
  /\ connected[c]
  /\ disconnects < MaxDisconnects
  /\ disconnects' = disconnects + 1
  /\ connected' = [connected EXCEPT ![c] = FALSE]
  /\ inbox' = [inbox EXCEPT ![c] = << >>]
  /\ outbox' = [outbox EXCEPT ![c] = {}]
  /\ UNCHANGED <<tv, view, handling, writers, writes, presses, pressed, applied, told>>

Connect(c) ==
  /\ ~connected[c]
  /\ connected' = [connected EXCEPT ![c] = TRUE]
  /\ inbox' = [inbox EXCEPT ![c] = << StateUpdate(tv) >>]
  /\ outbox' = [outbox EXCEPT ![c] = {RequestState}]
  /\ UNCHANGED <<tv, view, handling, writers, writes, presses, pressed, applied, told,
                 disconnects>>

(***************************************************************************)
(* The steps a thread of the server takes on its own.                      *)
(***************************************************************************)
ServerStep ==
  \/ \E c \in Browsers : \E e \in outbox[c] : HandleEvent(c, e)
  \/ \E h \in handling : Announce(h) \/ Finish(h)
  \/ FinishWrite

Next ==
  \/ \E b \in Buttons, h \in Hardware : ProgramPresses(b, h)
  \/ \E c \in Browsers, b \in Buttons : Click(c, b)
  \/ \E h \in handling : Branch(h)
  \/ Write
  \/ ServerStep
  \/ \E c \in Browsers : Receive(c) \/ Disconnect(c) \/ Connect(c)

(***************************************************************************)
(* Events that were sent are handled, a handler ends (it waits for nothing *)
(* and loops over nothing), and Socket.IO reconnects a page.               *)
(***************************************************************************)
Fairness ==
  /\ WF_vars(ServerStep)
  /\ \A c \in Browsers : WF_vars(Receive(c)) /\ WF_vars(Connect(c))

Spec == Init /\ [][Next]_vars /\ Fairness

-----------------------------------------------------------------------------
PressEvent(why) == [kind : {"button_press"}, press : Press, code : Buttons, why : why]

Handler ==
  [from : Browsers \cup {"program"},
   event : PressEvent(InterruptKind \cup {"click", "program"}),
   at : InterruptKind \cup {"branch"}]

TypeInv ==
  /\ tv \in States
  /\ connected \in [Browsers -> BOOLEAN]
  /\ inbox \in [Browsers -> Seq([kind : InterruptKind, press : Press, code : Buttons]
                                \cup [kind : {"tv_state_update"}, state : States])]
  /\ outbox \in [Browsers -> SUBSET (PressEvent(InterruptKind \cup {"click"})
                                     \cup {RequestState})]
  /\ view \in [Browsers -> States]
  /\ handling \subseteq Handler
  /\ writers \in Nat
  /\ writes \in 0..MaxWrites
  /\ presses \in 0..MaxPresses
  /\ pressed \in [Press -> Buttons \cup {NoButton}]
  /\ applied \in [Press -> Nat]
  /\ told \in [Press -> SUBSET (Browsers \X InterruptKind)]
  /\ disconnects \in 0..MaxDisconnects

(***************************************************************************)
(* A press is handled once, and once more for each interrupt that a page   *)
(* was told of it, so at most twice for each page: the answers of the      *)
(* pages are not announced as hardware presses, so the echoes end.         *)
(***************************************************************************)
EchoesEnd == \A p \in Press : applied[p] <= 1 + Cardinality(told[p])

(***************************************************************************)
(* And nothing is missing: unless a connection was lost, how often a press *)
(* was handled, the interrupts under way to the pages and the answers      *)
(* under way from them make exactly one and one for each interrupt that a  *)
(* page was told.                                                          *)
(***************************************************************************)
Announced(p) ==
  UNION { {c} \X { i \in DOMAIN inbox[c] : /\ inbox[c][i].kind \in InterruptKind
                                          /\ inbox[c][i].press = p } : c \in Browsers }
Answered(p) ==
  UNION { {c} \X { e \in outbox[c] : /\ e.kind = "button_press"
                                     /\ e.press = p } : c \in Browsers }

EveryEchoIsApplied ==
  disconnects = 0 =>
    \A p \in 1..presses :
      applied[p] + Cardinality(Announced(p)) + Cardinality(Answered(p))
        = 1 + Cardinality(told[p])

(***************************************************************************)
(* A page is never behind for good: while no thread is between a store and *)
(* its broadcast, the last state under way to a page is the server's, and  *)
(* once nothing is under way the page shows that state, however presses,   *)
(* other writers, answers of pages and reconnects overlapped before.  A    *)
(* page's requests are answered from the same state, so an answer cannot   *)
(* undo a broadcast (handle_request_state).                                *)
(***************************************************************************)
UpdatesTo(c) == { i \in DOMAIN inbox[c] : inbox[c][i].kind = "tv_state_update" }

PagesInStep ==
  handling = {} /\ writers = 0 =>
    \A c \in Browsers : connected[c] =>
      /\ \A i \in UpdatesTo(c) :
           (\A j \in UpdatesTo(c) : j <= i) => inbox[c][i].state = tv
      /\ UpdatesTo(c) = {} => view[c] = tv

(***************************************************************************)
(* Every page that is connected ends up with the state of the server.      *)
(***************************************************************************)
PagesConverge == <>[](\A c \in Browsers : connected[c] => view[c] = tv)

(***************************************************************************)
(* Whatever is under way, lost or answered twice, the server runs a branch *)
(* for buttons that were pressed alone: a press is handled with its own    *)
(* code, once, and if pages were told of it at most twice more for each of *)
(* them (handle_button_press, handleButtonPressInterrupt).  What the       *)
(* branches make of tv_state when they overlap is not promised here.       *)
(***************************************************************************)
Promise == INSTANCE PressPromise
             WITH None <- NoButton, Echoes <- 2 * Cardinality(Browsers),
                  times <- applied,
                  handled <- { <<h.event.press, h.event.code>> : h \in handling },
                  announced <- { p \in Press : told[p] # {} }

KeepsPressPromise == Promise!Spec

(***************************************************************************)
(* Pressing a button once has the effect of one press.                     *)
(***************************************************************************)
AppliedOnce == \A p \in Press : applied[p] <= 1

=============================================================================
