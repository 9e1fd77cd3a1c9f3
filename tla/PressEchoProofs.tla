-------------------------- MODULE PressEchoProofs --------------------------
(***************************************************************************)
(* Theorems about PressEcho, for every number of pages and presses.        *)
(***************************************************************************)
EXTENDS PressEcho, FiniteSetTheorems, FunctionTheorems, TLAPS

InEvent == [kind : InterruptKind, press : Press, code : Buttons]
             \cup [kind : {"tv_state_update"}, state : States]

Event == PressEvent(InterruptKind \cup {"click"}) \cup {RequestState}

-----------------------------------------------------------------------------
(* Type correctness. *)

LEMMA TypeInit == Init => TypeInv
<1> SUFFICES ASSUME Init PROVE TypeInv
  OBVIOUS
<1>1. \A c \in Browsers : inbox[c] \in Seq(InEvent)
  BY DEF Init
<1> QED BY <1>1, EchoAssumption DEF Init, TypeInv, InEvent

LEMMA StateUpdateType ==
  \A s \in States : StateUpdate(s) \in InEvent /\ StateUpdate(s).kind \notin InterruptKind
BY DEF StateUpdate, InEvent, InterruptKind

LEMMA InterruptType ==
  ASSUME NEW k \in InterruptKind, NEW p \in Press, NEW b \in Buttons
  PROVE  /\ Interrupt(k, p, b) \in InEvent
         /\ Interrupt(k, p, b).kind = k /\ Interrupt(k, p, b).press = p
         /\ Interrupt(k, p, b).code = b
BY DEF Interrupt, InEvent

LEMMA BroadcastType ==
  ASSUME TypeInv, NEW e \in InEvent, Broadcast(e)
  PROVE  inbox' \in [Browsers -> Seq(InEvent)]
<1>1. inbox \in [Browsers -> Seq(InEvent)]
  BY DEF TypeInv, InEvent
<1>2. \A c \in Browsers : Append(inbox[c], e) \in Seq(InEvent)
  BY <1>1
<1> QED BY <1>1, <1>2 DEF Broadcast

LEMMA UpdateType ==
  ASSUME TypeInv, Broadcast(StateUpdate(tv))
  PROVE  inbox' \in [Browsers -> Seq(InEvent)]
<1>1. StateUpdate(tv) \in InEvent
  BY StateUpdateType DEF TypeInv
<1> QED BY <1>1, BroadcastType

(***************************************************************************)
(* What handle_button_press changes as it is called.                       *)
(***************************************************************************)
LEMMA HandleType ==
  ASSUME TypeInv, NEW from \in Browsers \cup {"program"}, NEW h \in BOOLEAN,
         NEW e \in PressEvent(InterruptKind \cup {"click", "program"}),
         HandleButtonPress(from, e, h)
  PROVE  /\ tv' \in States
         /\ applied' \in [Press -> Nat]
         /\ handling' \subseteq Handler
<1>1. e.press \in Press
  BY DEF PressEvent
<1>2. applied' \in [Press -> Nat]
  BY <1>1 DEF HandleButtonPress, TypeInv
<1>3. [from |-> from, event |-> e,
       at |-> IF h THEN "hardware_interrupt" ELSE "branch"] \in Handler
  BY DEF Handler, InterruptKind
<1> QED BY <1>2, <1>3 DEF HandleButtonPress, TypeInv

LEMMA ButtonPressType ==
  ASSUME NEW p \in Press, NEW b \in Buttons, NEW w
  PROVE  /\ w \in InterruptKind \cup {"click"} => ButtonPress(p, b, w) \in Event
         /\ ButtonPress(p, b, "program")
              \in PressEvent(InterruptKind \cup {"click", "program"})
BY DEF ButtonPress, Event, PressEvent

LEMMA HandlerFields ==
  ASSUME TypeInv, NEW h \in handling
  PROVE  /\ h \in Handler /\ h.event.press \in Press /\ h.event.code \in Buttons
         /\ h.at \in InterruptKind \cup {"branch"}
BY DEF TypeInv, Handler, PressEvent

(* What a handler is after one of its announcements. *)
Next1(h) == [h EXCEPT !.at = IF @ = "hardware_interrupt" THEN "button_press_interrupt"
                                                         ELSE "branch"]

LEMMA AfterAnnounce ==
  ASSUME NEW h \in Handler
  PROVE  /\ Next1(h) \in Handler /\ Next1(h).event = h.event
         /\ Next1(h).at = IF h.at = "hardware_interrupt" THEN "button_press_interrupt"
                                                         ELSE "branch"
BY DEF Handler, Next1, InterruptKind

LEMMA TypeNext == TypeInv /\ [Next]_vars => TypeInv'
<1> SUFFICES ASSUME TypeInv, [Next]_vars PROVE TypeInv'
  OBVIOUS
<1> USE EchoAssumption
<1>0. inbox \in [Browsers -> Seq(InEvent)] /\ outbox \in [Browsers -> SUBSET Event]
  BY DEF TypeInv, InEvent, Event
<1>1. ASSUME NEW b \in Buttons, NEW h \in Hardware, ProgramPresses(b, h) PROVE TypeInv'
  <2>1. presses + 1 \in Press /\ h \in BOOLEAN
    BY <1>1 DEF ProgramPresses, Press, TypeInv
  <2>2. HandleButtonPress("program", ButtonPress(presses + 1, b, "program"), h)
    BY <1>1 DEF ProgramPresses
  <2>3. ButtonPress(presses + 1, b, "program")
          \in PressEvent(InterruptKind \cup {"click", "program"})
    BY <2>1, ButtonPressType
  <2>4. tv' \in States /\ applied' \in [Press -> Nat] /\ handling' \subseteq Handler
    BY <2>1, <2>2, <2>3, HandleType
  <2>5. pressed' \in [Press -> Buttons \cup {NoButton}] /\ presses' \in 0..MaxPresses
    BY <1>1, <2>1 DEF ProgramPresses, TypeInv, Press
  <2> QED BY <1>1, <2>4, <2>5 DEF ProgramPresses, TypeInv
<1>2. ASSUME NEW c \in Browsers, NEW b \in Buttons, Click(c, b) PROVE TypeInv'
  <2>1. presses + 1 \in Press
    BY <1>2 DEF Click, Press, TypeInv
  <2>2. ButtonPress(presses + 1, b, "click") \in Event
    BY <2>1, ButtonPressType
  <2>3. outbox' \in [Browsers -> SUBSET Event]
    BY <1>0, <1>2, <2>2 DEF Click
  <2>4. pressed' \in [Press -> Buttons \cup {NoButton}] /\ presses' \in 0..MaxPresses
    BY <1>2, <2>1 DEF Click, TypeInv, Press
  <2> QED BY <1>2, <2>3, <2>4 DEF Click, TypeInv, Event
<1>3. ASSUME NEW c \in Browsers, NEW e \in outbox[c], HandleEvent(c, e) PROVE TypeInv'
  <2>0. outbox' \in [Browsers -> SUBSET Event]
    BY <1>0, <1>3 DEF HandleEvent
  <2>1. CASE e.kind = "button_press" /\ HandleButtonPress(c, e, FALSE) /\ UNCHANGED inbox
    <3>1. e \in Event /\ e # RequestState
      BY <1>0, <2>1 DEF RequestState
    <3>2. e \in PressEvent(InterruptKind \cup {"click", "program"})
      BY <3>1 DEF Event, PressEvent
    <3>3. tv' \in States /\ applied' \in [Press -> Nat] /\ handling' \subseteq Handler
      BY <2>1, <3>2, HandleType
    <3> QED BY <1>3, <2>0, <2>1, <3>3 DEF HandleEvent, TypeInv, Event
  <2>2. CASE inbox' = [inbox EXCEPT ![c] = Append(@, StateUpdate(tv))]
             /\ UNCHANGED <<tv, applied, handling>>
    <3>1. StateUpdate(tv) \in InEvent
      BY StateUpdateType DEF TypeInv
    <3>2. Append(inbox[c], StateUpdate(tv)) \in Seq(InEvent)
      BY <1>0, <3>1
    <3>3. inbox' \in [Browsers -> Seq(InEvent)]
      BY <2>2, <1>0, <3>2
    <3> QED BY <1>3, <2>0, <2>2, <3>3 DEF HandleEvent, TypeInv, InEvent, Event
  <2> QED BY <1>3, <2>1, <2>2 DEF HandleEvent
<1>4. ASSUME NEW c \in Browsers, Receive(c) PROVE TypeInv'
  <2>1. inbox[c] \in Seq(InEvent) /\ inbox[c] # << >>
    BY <1>0, <1>4 DEF Receive
  <2>2. Head(inbox[c]) \in InEvent /\ Tail(inbox[c]) \in Seq(InEvent)
    BY <2>1
  <2>3. inbox' \in [Browsers -> Seq(InEvent)]
    BY <1>0, <1>4, <2>2 DEF Receive
  <2> DEFINE e == Head(inbox[c])
  <2>4. CASE e.kind = "tv_state_update"
    <3>1. e.state \in States
      BY <2>2, <2>4 DEF InEvent, InterruptKind
    <3>2. view' = [view EXCEPT ![c] = e.state] /\ UNCHANGED outbox
      BY <1>4, <2>4 DEF Receive, InterruptKind
    <3> QED BY <1>4, <2>3, <3>1, <3>2 DEF Receive, TypeInv, InEvent
  <2>5. CASE e.kind \in InterruptKind
    <3>1. e.press \in Press /\ e.code \in Buttons
      BY <2>2, <2>5 DEF InEvent, InterruptKind
    <3>2. ButtonPress(e.press, e.code, e.kind) \in Event
      BY <2>5, <3>1, ButtonPressType
    <3>3. /\ outbox' = [outbox EXCEPT ![c] = @ \cup {ButtonPress(e.press, e.code, e.kind)}]
          /\ UNCHANGED view
      BY <1>4, <2>5 DEF Receive, InterruptKind
    <3>4. outbox' \in [Browsers -> SUBSET Event]
      BY <1>0, <3>2, <3>3
    <3> QED BY <1>4, <2>3, <3>3, <3>4 DEF Receive, TypeInv, InEvent, Event
  <2> QED BY <1>4, <2>4, <2>5 DEF Receive
<1>5. ASSUME NEW c \in Browsers, Disconnect(c) PROVE TypeInv'
  <2>1. disconnects' \in 0..MaxDisconnects
    BY <1>5 DEF Disconnect, TypeInv
  <2>2. inbox' \in [Browsers -> Seq(InEvent)] /\ outbox' \in [Browsers -> SUBSET Event]
    <3>1. << >> \in Seq(InEvent)
      OBVIOUS
    <3> QED BY <1>0, <1>5, <3>1 DEF Disconnect
  <2>3. connected' \in [Browsers -> BOOLEAN]
    BY <1>5 DEF Disconnect, TypeInv
  <2>4. UNCHANGED <<tv, view, handling, writers, writes, presses, pressed, applied, told>>
    BY <1>5 DEF Disconnect
  <2> QED BY <2>1, <2>2, <2>3, <2>4 DEF TypeInv, InEvent, Event
<1>6. ASSUME NEW c \in Browsers, Connect(c) PROVE TypeInv'
  <2>1. << StateUpdate(tv) >> \in Seq(InEvent)
    BY StateUpdateType DEF TypeInv
  <2>2. inbox' \in [Browsers -> Seq(InEvent)]
    BY <1>0, <1>6, <2>1 DEF Connect
  <2> QED BY <1>6, <2>2 DEF Connect, TypeInv, InEvent
<1>7. ASSUME NEW h \in handling, Announce(h) PROVE TypeInv'
  <2>1. /\ h \in Handler /\ h.event.press \in Press /\ h.event.code \in Buttons
        /\ h.at \in InterruptKind
    BY <1>7, HandlerFields DEF Announce
  <2>2. inbox' \in [Browsers -> Seq(InEvent)]
    BY <1>7, <2>1, InterruptType, BroadcastType DEF Announce
  <2>3. handling' \subseteq Handler
    <3>1. Next1(h) \in Handler
      BY <2>1, AfterAnnounce
    <3>2. handling' = (handling \ {h}) \cup {Next1(h)}
      BY <1>7 DEF Announce, Next1
    <3> QED BY <3>1, <3>2 DEF TypeInv
  <2>4. told' \in [Press -> SUBSET (Browsers \X InterruptKind)]
    BY <1>7, <2>1 DEF Announce, TypeInv, Online
  <2> QED BY <1>7, <2>2, <2>3, <2>4 DEF Announce, TypeInv, InEvent
<1>8. ASSUME NEW h \in handling, Branch(h) PROVE TypeInv'
  BY <1>8 DEF Branch, TypeInv
<1>9. ASSUME NEW h \in handling, Finish(h) PROVE TypeInv'
  <2>1. inbox' \in [Browsers -> Seq(InEvent)]
    BY <1>9, UpdateType DEF Finish
  <2> QED BY <1>9, <2>1 DEF Finish, TypeInv, InEvent
<1>10. CASE Write
  <2>1. writes' \in 0..MaxWrites
    BY <1>10 DEF Write, TypeInv
  <2>2. writers' \in Nat
    BY <1>10 DEF Write, TypeInv
  <2>3. tv' \in States
    BY <1>10 DEF Write
  <2> QED BY <1>10, <2>1, <2>2, <2>3 DEF Write, TypeInv
<1>11. CASE FinishWrite
  <2>1. inbox' \in [Browsers -> Seq(InEvent)]
    BY <1>11, UpdateType DEF FinishWrite
  <2>2. writers' \in Nat
    BY <1>11 DEF FinishWrite, TypeInv
  <2> QED BY <1>11, <2>1, <2>2 DEF FinishWrite, TypeInv, InEvent
<1>12. CASE UNCHANGED vars
  BY <1>12 DEF vars, TypeInv
<1> QED BY <1>1, <1>2, <1>3, <1>4, <1>5, <1>6, <1>7, <1>8, <1>9, <1>10, <1>11, <1>12
        DEF Next, ServerStep

(***************************************************************************)
(* The server, the pages and the events under way between them stay well   *)
(* formed.                                                                 *)
(***************************************************************************)
THEOREM TypeCorrect == Spec => []TypeInv
BY TypeInit, TypeNext, PTL DEF Spec

-----------------------------------------------------------------------------
(***************************************************************************)
(* Echoes: what a queue of events to a page reports, and what a set of     *)
(* events from it answers, as pairs of a kind and a press.                 *)
(***************************************************************************)
Tells(s) ==
  { <<s[i].kind, s[i].press>> :
      i \in { j \in DOMAIN s : s[j].kind \in InterruptKind } }

Distinct(s) ==
  \A i, j \in DOMAIN s :
    (/\ s[i].kind \in InterruptKind /\ s[j].kind = s[i].kind
     /\ s[j].press = s[i].press) => i = j

Says(es) == { <<e.why, e.press>> : e \in { f \in es : f.kind = "button_press" } }

LEMMA TellsMember ==
  ASSUME NEW s, NEW k, NEW p
  PROVE  <<k, p>> \in Tells(s) <=>
           /\ k \in InterruptKind
           /\ \E i \in DOMAIN s : s[i].kind = k /\ s[i].press = p
BY DEF Tells

LEMMA TellsPairs ==
  ASSUME NEW s \in Seq(InEvent)
  PROVE  Tells(s) \subseteq InterruptKind \X Press
<1> SUFFICES ASSUME NEW i \in DOMAIN s, s[i].kind \in InterruptKind
             PROVE  <<s[i].kind, s[i].press>> \in InterruptKind \X Press
  BY DEF Tells
<1>1. s[i] \in InEvent
  OBVIOUS
<1> QED BY <1>1 DEF InEvent, InterruptKind

LEMMA AppendTells ==
  ASSUME NEW s \in Seq(InEvent), NEW e \in InEvent
  PROVE  /\ e.kind \notin InterruptKind =>
              /\ Tells(Append(s, e)) = Tells(s)
              /\ Distinct(s) => Distinct(Append(s, e))
         /\ e.kind \in InterruptKind =>
              /\ Tells(Append(s, e)) = Tells(s) \cup {<<e.kind, e.press>>}
              /\ Distinct(s) /\ <<e.kind, e.press>> \notin Tells(s)
                   => Distinct(Append(s, e))
<1> DEFINE t == Append(s, e)
<1>1. /\ DOMAIN s = 1..Len(s) /\ DOMAIN t = 1..(Len(s) + 1) /\ Len(s) \in Nat
      /\ \A i \in 1..Len(s) : t[i] = s[i]
      /\ t[Len(s) + 1] = e
  OBVIOUS
<1> HIDE DEF t
<1>2. DOMAIN t = DOMAIN s \cup {Len(s) + 1} /\ Len(s) + 1 \notin DOMAIN s
  BY <1>1
<1>3. ASSUME NEW i \in DOMAIN t
      PROVE  \/ i = Len(s) + 1 /\ t[i] = e
             \/ i \in DOMAIN s /\ t[i] = s[i]
  <2>1. CASE i = Len(s) + 1
    <3>1. t[i] = e
      BY <1>1, <2>1
    <3> QED BY <2>1, <3>1
  <2>2. CASE i \in DOMAIN s
    BY <1>1, <2>2
  <2> QED BY <1>2, <2>1, <2>2
<1>4. \A i \in DOMAIN s : i \in DOMAIN t /\ t[i] = s[i]
  BY <1>1, <1>2
<1>5. Len(s) + 1 \in DOMAIN t /\ t[Len(s) + 1] = e
  BY <1>1, <1>2
<1>6. ASSUME e.kind \notin InterruptKind
      PROVE  Tells(t) = Tells(s) /\ (Distinct(s) => Distinct(t))
  <2>1. Tells(t) = Tells(s)
    BY <1>3, <1>4, <1>6 DEF Tells
  <2>2. ASSUME Distinct(s) PROVE Distinct(t)
    BY <1>3, <1>6, <2>2 DEF Distinct
  <2> QED BY <2>1, <2>2
<1>7. ASSUME e.kind \in InterruptKind
      PROVE  /\ Tells(t) = Tells(s) \cup {<<e.kind, e.press>>}
             /\ Distinct(s) /\ <<e.kind, e.press>> \notin Tells(s) => Distinct(t)
  <2>1. Tells(t) = Tells(s) \cup {<<e.kind, e.press>>}
    BY <1>3, <1>4, <1>5, <1>7 DEF Tells
  <2>2. ASSUME Distinct(s), <<e.kind, e.press>> \notin Tells(s) PROVE Distinct(t)
    <3>1. \A i \in DOMAIN s : ~(s[i].kind = e.kind /\ s[i].press = e.press)
      BY <1>7, <2>2, TellsMember
    <3> QED BY <1>3, <2>2, <3>1 DEF Distinct
  <2> QED BY <2>1, <2>2
<1> QED BY <1>6, <1>7 DEF t

LEMMA AppendInterrupt ==
  ASSUME NEW s \in Seq(InEvent), NEW e \in InEvent, e.kind \in InterruptKind,
         Distinct(s), <<e.kind, e.press>> \notin Tells(s)
  PROVE  /\ Append(s, e) \in Seq(InEvent) /\ Distinct(Append(s, e))
         /\ Tells(Append(s, e)) = Tells(s) \cup {<<e.kind, e.press>>}
<1>1. Append(s, e) \in Seq(InEvent)
  OBVIOUS
<1> QED BY <1>1, AppendTells

LEMMA AppendOther ==
  ASSUME NEW s \in Seq(InEvent), NEW e \in InEvent, e.kind \notin InterruptKind,
         Distinct(s)
  PROVE  /\ Append(s, e) \in Seq(InEvent) /\ Distinct(Append(s, e))
         /\ Tells(Append(s, e)) = Tells(s)
<1>1. Append(s, e) \in Seq(InEvent)
  OBVIOUS
<1> QED BY <1>1, AppendTells

LEMMA TailTells ==
  ASSUME NEW s \in Seq(InEvent), s # << >>, Distinct(s)
  PROVE  /\ Distinct(Tail(s))
         /\ Head(s).kind \notin InterruptKind => Tells(Tail(s)) = Tells(s)
         /\ Head(s).kind \in InterruptKind =>
              /\ Tells(Tail(s)) = Tells(s) \ {<<Head(s).kind, Head(s).press>>}
              /\ <<Head(s).kind, Head(s).press>> \in Tells(s)
<1> DEFINE t == Tail(s)
           e == Head(s)
<1>1. /\ Len(s) \in Nat /\ Len(s) > 0 /\ DOMAIN s = 1..Len(s)
      /\ DOMAIN t = 1..(Len(s) - 1)
      /\ \A i \in 1..(Len(s) - 1) : t[i] = s[i + 1]
      /\ e = s[1]
  OBVIOUS
<1> HIDE DEF t, e
<1>2. \A i \in DOMAIN t : i + 1 \in DOMAIN s /\ i + 1 # 1 /\ t[i] = s[i + 1]
  BY <1>1
<1>3. ASSUME NEW i \in DOMAIN s, i # 1
      PROVE  i - 1 \in DOMAIN t /\ t[i - 1] = s[i]
  <2>1. i \in Int /\ i - 1 \in 1..(Len(s) - 1) /\ (i - 1) + 1 = i
    BY <1>1, <1>3
  <2>2. t[i - 1] = s[(i - 1) + 1]
    BY <1>1, <2>1
  <2> QED BY <1>1, <2>1, <2>2
<1>4. 1 \in DOMAIN s /\ s[1] = e
  BY <1>1
<1>5. Distinct(t)
  <2> SUFFICES ASSUME NEW i \in DOMAIN t, NEW j \in DOMAIN t,
                      t[i].kind \in InterruptKind, t[j].kind = t[i].kind,
                      t[j].press = t[i].press
               PROVE  i = j
    BY DEF Distinct
  <2>1. i + 1 = j + 1
    BY <1>2 DEF Distinct
  <2> QED BY <1>1, <2>1
<1>5a. ASSUME NEW k, NEW p, <<k, p>> \in Tells(t) PROVE <<k, p>> \in Tells(s)
  BY <1>2, <1>5a, TellsMember
<1>5b. ASSUME NEW k, NEW p, <<k, p>> \in Tells(s)
       PROVE  \/ <<k, p>> \in Tells(t)
              \/ e.kind = k /\ e.press = p
  <2>1. PICK i \in DOMAIN s : s[i].kind = k /\ s[i].press = p
    BY <1>5b, TellsMember
  <2>2. k \in InterruptKind
    BY <1>5b, TellsMember
  <2>3. CASE i = 1
    BY <1>4, <2>1, <2>3
  <2>4. CASE i # 1
    <3>1. i - 1 \in DOMAIN t /\ t[i - 1] = s[i]
      BY <1>3, <2>4
    <3>2. \E j \in DOMAIN t : t[j].kind = k /\ t[j].press = p
      BY <2>1, <3>1
    <3> QED BY <2>2, <3>2, TellsMember
  <2> QED BY <2>3, <2>4
<1>5c. \A x \in Tells(s) \cup Tells(t) : \E k, p : x = <<k, p>>
  BY DEF Tells
<1>6. ASSUME e.kind \notin InterruptKind PROVE Tells(t) = Tells(s)
  <2>1. ASSUME NEW x \in Tells(s) PROVE x \in Tells(t)
    <3>1. PICK k, p : x = <<k, p>>
      BY <1>5c
    <3>2. k \in InterruptKind
      BY <3>1, TellsMember
    <3> QED BY <1>5b, <1>6, <3>1, <3>2
  <2>2. ASSUME NEW x \in Tells(t) PROVE x \in Tells(s)
    BY <1>5a, <1>5c
  <2> QED BY <2>1, <2>2
<1>7. ASSUME e.kind \in InterruptKind
      PROVE  /\ Tells(t) = Tells(s) \ {<<e.kind, e.press>>}
             /\ <<e.kind, e.press>> \in Tells(s)
  <2>1. \A i \in DOMAIN t : ~(t[i].kind = e.kind /\ t[i].press = e.press)
    BY <1>2, <1>4, <1>7 DEF Distinct
  <2>2. <<e.kind, e.press>> \in Tells(s)
    BY <1>4, <1>7, TellsMember
  <2>3. ASSUME NEW x \in Tells(t) PROVE x \in Tells(s) \ {<<e.kind, e.press>>}
    <3>1. PICK k, p : x = <<k, p>>
      BY <1>5c
    <3>2. ~(k = e.kind /\ p = e.press)
      BY <2>1, <3>1, TellsMember
    <3> QED BY <1>5a, <3>1, <3>2
  <2>4. ASSUME NEW x \in Tells(s), x # <<e.kind, e.press>> PROVE x \in Tells(t)
    BY <1>5b, <1>5c, <2>4
  <2> QED BY <2>2, <2>3, <2>4
<1> QED BY <1>5, <1>6, <1>7 DEF t, e

LEMMA UpdateTells ==
  ASSUME NEW s \in Seq(InEvent), NEW v \in States, Distinct(s)
  PROVE  /\ Distinct(Append(s, StateUpdate(v)))
         /\ Tells(Append(s, StateUpdate(v))) = Tells(s)
<1>1. StateUpdate(v) \in InEvent /\ StateUpdate(v).kind \notin InterruptKind
  BY DEF StateUpdate, InEvent, InterruptKind
<1> QED BY <1>1, AppendTells

LEMMA EmptyTells == Tells(<< >>) = {} /\ Distinct(<< >>)
<1>1. DOMAIN << >> = {}
  OBVIOUS
<1> QED BY <1>1 DEF Tells, Distinct

(***************************************************************************)
(* The echoes of a press under way to and from the pages, and the balance  *)
(* between them, what the press was applied and what is expected.          *)
(***************************************************************************)
Why == InterruptKind \cup {"click"}

Told(box, p) ==
  { x \in Browsers \X InterruptKind : <<x[2], p>> \in Tells(box[x[1]]) }
Sent(box, p) == { x \in Browsers \X Why : <<x[2], p>> \in Says(box[x[1]]) }

ToPages(p) == Told(inbox, p)
FromPages(p) == Sent(outbox, p)

LEMMA ToldMember ==
  ASSUME NEW box, NEW p, NEW c \in Browsers, NEW k \in InterruptKind
  PROVE  <<c, k>> \in Told(box, p) <=> <<k, p>> \in Tells(box[c])
BY DEF Told

LEMMA SentMember ==
  ASSUME NEW box, NEW p, NEW c \in Browsers, NEW k \in Why
  PROVE  <<c, k>> \in Sent(box, p) <=> <<k, p>> \in Says(box[c])
BY DEF Sent

(* Which echoes are under way depends on what the queues report alone.     *)
LEMMA ToldEqual ==
  ASSUME NEW box, NEW p, NEW S \in SUBSET (Browsers \X InterruptKind),
         \A c \in Browsers, k \in InterruptKind :
           <<k, p>> \in Tells(box[c]) <=> <<c, k>> \in S
  PROVE  Told(box, p) = S
<1>1. \A x \in Browsers \X InterruptKind :
        x[1] \in Browsers /\ x[2] \in InterruptKind /\ x = <<x[1], x[2]>>
  OBVIOUS
<1>2. \A x \in Browsers \X InterruptKind : x \in Told(box, p) <=> x \in S
  BY <1>1 DEF Told
<1> QED BY <1>2 DEF Told

LEMMA SentEqual ==
  ASSUME NEW box, NEW p, NEW S \in SUBSET (Browsers \X Why),
         \A c \in Browsers, k \in Why :
           <<k, p>> \in Says(box[c]) <=> <<c, k>> \in S
  PROVE  Sent(box, p) = S
<1>1. \A x \in Browsers \X Why :
        x[1] \in Browsers /\ x[2] \in Why /\ x = <<x[1], x[2]>>
  OBVIOUS
<1>2. \A x \in Browsers \X Why : x \in Sent(box, p) <=> x \in S
  BY <1>1 DEF Sent
<1> QED BY <1>2 DEF Sent

LEMMA ToldSame ==
  ASSUME NEW box, NEW new, NEW p,
         \A c \in Browsers, k \in InterruptKind :
           <<k, p>> \in Tells(new[c]) <=> <<k, p>> \in Tells(box[c])
  PROVE  Told(new, p) = Told(box, p)
<1>1. Told(box, p) \in SUBSET (Browsers \X InterruptKind)
  BY DEF Told
<1>2. \A c \in Browsers, k \in InterruptKind :
        <<k, p>> \in Tells(new[c]) <=> <<c, k>> \in Told(box, p)
  BY ToldMember
<1> QED BY <1>1, <1>2, ToldEqual

LEMMA SentSame ==
  ASSUME NEW box, NEW new, NEW p,
         \A c \in Browsers, k \in Why :
           <<k, p>> \in Says(new[c]) <=> <<k, p>> \in Says(box[c])
  PROVE  Sent(new, p) = Sent(box, p)
<1>1. Sent(box, p) \in SUBSET (Browsers \X Why)
  BY DEF Sent
<1>2. \A c \in Browsers, k \in Why :
        <<k, p>> \in Says(new[c]) <=> <<c, k>> \in Sent(box, p)
  BY SentMember
<1> QED BY <1>1, <1>2, SentEqual

(* One echo of a page less, or one more.                                   *)
LEMMA ToldLess ==
  ASSUME NEW box, NEW new, NEW p, NEW c \in Browsers, NEW k \in InterruptKind,
         \A d \in Browsers, j \in InterruptKind :
           <<j, p>> \in Tells(new[d]) <=>
             <<j, p>> \in Tells(box[d]) /\ ~(d = c /\ j = k)
  PROVE  Told(new, p) = Told(box, p) \ {<<c, k>>}
<1> DEFINE S == Told(box, p) \ {<<c, k>>}
<1>1. S \in SUBSET (Browsers \X InterruptKind)
  BY DEF Told
<1>2. \A d \in Browsers, j \in InterruptKind :
        <<j, p>> \in Tells(new[d]) <=> <<d, j>> \in S
  BY ToldMember
<1> HIDE DEF S
<1>3. Told(new, p) = S
  BY <1>1, <1>2, ToldEqual
<1> QED BY <1>3 DEF S

LEMMA SentLess ==
  ASSUME NEW box, NEW new, NEW p, NEW c \in Browsers, NEW k \in Why,
         \A d \in Browsers, j \in Why :
           <<j, p>> \in Says(new[d]) <=>
             <<j, p>> \in Says(box[d]) /\ ~(d = c /\ j = k)
  PROVE  Sent(new, p) = Sent(box, p) \ {<<c, k>>}
<1> DEFINE S == Sent(box, p) \ {<<c, k>>}
<1>1. S \in SUBSET (Browsers \X Why)
  BY DEF Sent
<1>2. \A d \in Browsers, j \in Why :
        <<j, p>> \in Says(new[d]) <=> <<d, j>> \in S
  BY SentMember
<1> HIDE DEF S
<1>3. Sent(new, p) = S
  BY <1>1, <1>2, SentEqual
<1> QED BY <1>3 DEF S

LEMMA SentMore ==
  ASSUME NEW box, NEW new, NEW p, NEW c \in Browsers, NEW k \in Why,
         \A d \in Browsers, j \in Why :
           <<j, p>> \in Says(new[d]) <=>
             <<j, p>> \in Says(box[d]) \/ (d = c /\ j = k)
  PROVE  Sent(new, p) = Sent(box, p) \cup {<<c, k>>}
<1> DEFINE S == Sent(box, p) \cup {<<c, k>>}
<1>1. S \in SUBSET (Browsers \X Why)
  BY DEF Sent
<1>2. \A d \in Browsers, j \in Why :
        <<j, p>> \in Says(new[d]) <=> <<d, j>> \in S
  BY SentMember
<1> HIDE DEF S
<1>3. Sent(new, p) = S
  BY <1>1, <1>2, SentEqual
<1> QED BY <1>3 DEF S

Balance(p) ==
  LET n == applied[p] + Cardinality(ToPages(p)) + Cardinality(FromPages(p))
      all == 1 + Cardinality(told[p])
  IN  n <= all /\ (disconnects = 0 => n = all)

(***************************************************************************)
(* Every echo is under way at most once, in one direction.                 *)
(***************************************************************************)
UnderWayOnce ==
  \A c \in Browsers :
    /\ Distinct(inbox[c])
    /\ \A e, f \in outbox[c] :
         (/\ e.kind = "button_press" /\ f.kind = "button_press"
          /\ e.press = f.press /\ e.why = f.why) => e = f
    /\ Tells(inbox[c]) \cap Says(outbox[c]) = {}
    /\ ~connected[c] => inbox[c] = << >> /\ outbox[c] = {}

Untouched(p) ==
  applied[p] = 0 /\ told[p] = {} /\ ToPages(p) = {} /\ FromPages(p) = {}

Balanced ==
  \A p \in Press : IF p <= presses THEN Balance(p) ELSE Untouched(p)

(***************************************************************************)
(* An echo is under way only of an interrupt that its page was told of.    *)
(***************************************************************************)
ToldFirst ==
  \A c \in Browsers, k \in InterruptKind, p \in Press :
    <<k, p>> \in Tells(inbox[c]) \cup Says(outbox[c]) => <<c, k>> \in told[p]

(***************************************************************************)
(* The interrupts a handler has still to announce.  No page was told of    *)
(* them, and no other handler announces the same press.                    *)
(***************************************************************************)
Left(at) == IF at = "hardware_interrupt" THEN InterruptKind ELSE {at}

Tellers ==
  /\ \A h \in handling :
       /\ h.event.press <= presses
       /\ h.at \in InterruptKind =>
            \A c \in Browsers, k \in Left(h.at) : <<c, k>> \notin told[h.event.press]
  /\ \A g, h \in handling :
       g.at \in InterruptKind /\ h.at \in InterruptKind /\ g.event.press = h.event.press
         => g = h

EchoInv == TypeInv /\ UnderWayOnce /\ Balanced /\ ToldFirst /\ Tellers

LEMMA TwoKinds == IsFiniteSet(InterruptKind) /\ Cardinality(InterruptKind) = 2
<1>1. IsFiniteSet({"hardware_interrupt"}) /\ Cardinality({"hardware_interrupt"}) = 1
  BY FS_Singleton
<1>2. /\ IsFiniteSet({"hardware_interrupt"} \cup {"button_press_interrupt"})
      /\ Cardinality({"hardware_interrupt"} \cup {"button_press_interrupt"}) = 1 + 1
  BY <1>1, FS_AddElement
<1>3. {"hardware_interrupt"} \cup {"button_press_interrupt"} = InterruptKind
  BY DEF InterruptKind
<1> QED BY <1>2, <1>3

LEMMA FiniteUnderWay ==
  ASSUME NEW p
  PROVE  /\ IsFiniteSet(ToPages(p)) /\ Cardinality(ToPages(p)) \in Nat
         /\ IsFiniteSet(FromPages(p)) /\ Cardinality(FromPages(p)) \in Nat
<1>1. IsFiniteSet(Browsers)
  BY EchoAssumption
<1>2. IsFiniteSet(InterruptKind) /\ IsFiniteSet(Why)
  BY TwoKinds, FS_AddElement DEF Why
<1>3. IsFiniteSet(Browsers \X InterruptKind) /\ IsFiniteSet(Browsers \X Why)
  BY <1>1, <1>2, FS_Product
<1>4. ToPages(p) \in SUBSET (Browsers \X InterruptKind)
  BY DEF ToPages, Told
<1>5. FromPages(p) \in SUBSET (Browsers \X Why)
  BY DEF FromPages, Sent
<1>6. IsFiniteSet(ToPages(p)) /\ IsFiniteSet(FromPages(p))
  BY <1>3, <1>4, <1>5, FS_Subset
<1> QED BY <1>6, FS_CardinalityType

LEMMA FiniteTold ==
  ASSUME TypeInv, NEW p \in Press
  PROVE  /\ IsFiniteSet(told[p]) /\ Cardinality(told[p]) \in Nat
         /\ Cardinality(Browsers) \in Nat
         /\ Cardinality(told[p]) <= 2 * Cardinality(Browsers)
<1>1. /\ IsFiniteSet(Browsers) /\ Cardinality(Browsers) \in Nat
      /\ told[p] \in SUBSET (Browsers \X InterruptKind)
  BY EchoAssumption, FS_CardinalityType DEF TypeInv
<1>2. /\ IsFiniteSet(Browsers \X InterruptKind)
      /\ Cardinality(Browsers \X InterruptKind) = Cardinality(Browsers) * 2
  BY <1>1, TwoKinds, FS_Product
<1>3. IsFiniteSet(told[p]) /\ Cardinality(told[p]) <= Cardinality(Browsers \X InterruptKind)
  BY <1>1, <1>2, FS_Subset
<1>4. Cardinality(told[p]) \in Nat
  BY <1>3, FS_CardinalityType
<1> QED BY <1>1, <1>2, <1>3, <1>4

(***************************************************************************)
(* The balance of a press that a step has nothing to do with.              *)
(***************************************************************************)
SameEchoes(p) ==
  /\ applied'[p] = applied[p] /\ told'[p] = told[p]
  /\ ToPages(p)' = ToPages(p) /\ FromPages(p)' = FromPages(p)

LEMMA BalanceStays ==
  ASSUME NEW p, SameEchoes(p), disconnects' = 0 => disconnects = 0
  PROVE  (Balance(p) => Balance(p)') /\ (Untouched(p) => Untouched(p)')
BY DEF SameEchoes, Balance, Untouched

LEMMA EchoInit == Init => EchoInv
<1> SUFFICES ASSUME Init PROVE EchoInv
  OBVIOUS
<1>1. TypeInv
  BY TypeInit
<1>2. \A c \in Browsers : inbox[c] = << >> /\ outbox[c] = {} /\ Says(outbox[c]) = {}
  BY DEF Init, Says
<1>3. UnderWayOnce
  BY <1>2, EmptyTells DEF UnderWayOnce
<1>4. ASSUME NEW p \in Press PROVE ~(p <= presses) /\ Untouched(p)
  <2>1. ToPages(p) = {} /\ FromPages(p) = {}
    BY <1>2, EmptyTells DEF ToPages, FromPages, Told, Sent
  <2> QED BY <2>1 DEF Init, Untouched, Press
<1>5. ToldFirst
  BY <1>2, EmptyTells DEF ToldFirst
<1>6. Tellers
  BY DEF Init, Tellers
<1> QED BY <1>1, <1>3, <1>4, <1>5, <1>6 DEF EchoInv, Balanced

LEMMA SaysMember ==
  ASSUME NEW es, NEW w, NEW p
  PROVE  <<w, p>> \in Says(es) <=>
           \E e \in es : e.kind = "button_press" /\ e.why = w /\ e.press = p
BY DEF Says

LEMMA EchoFields ==
  ASSUME TypeInv, NEW c \in Browsers, NEW e \in outbox[c], e.kind = "button_press"
  PROVE  /\ e.press \in Press /\ e.code \in Buttons /\ e.why \in Why
         /\ <<e.why, e.press>> \in Says(outbox[c])
<1>1. e \in Event /\ e # RequestState
  <2>1. outbox[c] \subseteq Event
    BY DEF TypeInv, Event
  <2>2. RequestState.kind # "button_press"
    BY DEF RequestState
  <2> QED BY <2>1, <2>2
<1>2. <<e.why, e.press>> \in Says(outbox[c])
  BY SaysMember
<1> QED BY <1>1, <1>2 DEF Event, PressEvent, Why

LEMMA InboxType ==
  ASSUME TypeInv, NEW c \in Browsers
  PROVE  inbox[c] \in Seq(InEvent)
BY DEF TypeInv, InEvent

(***************************************************************************)
(* A press that has just been made was not under way before.               *)
(***************************************************************************)
LEMMA Fresh ==
  ASSUME EchoInv, presses < MaxPresses
  PROVE  /\ presses + 1 \in Press /\ Untouched(presses + 1)
         /\ \A c \in Browsers, k \in Why :
              /\ <<k, presses + 1>> \notin Tells(inbox[c])
              /\ <<k, presses + 1>> \notin Says(outbox[c])
<1>1. presses \in Nat /\ presses + 1 \in Press /\ ~(presses + 1 <= presses)
  BY EchoAssumption DEF EchoInv, TypeInv, Press
<1>2. Untouched(presses + 1)
  BY <1>1 DEF EchoInv, Balanced
<1>3. ASSUME NEW c \in Browsers, NEW k \in Why
      PROVE  <<k, presses + 1>> \notin Says(outbox[c])
  BY <1>2, SentMember DEF Untouched, FromPages
<1>4. ASSUME NEW c \in Browsers, NEW k \in Why
      PROVE  <<k, presses + 1>> \notin Tells(inbox[c])
  <2>1. ASSUME <<k, presses + 1>> \in Tells(inbox[c]) PROVE FALSE
    <3>1. k \in InterruptKind
      BY <2>1, TellsMember
    <3>2. <<c, k>> \in ToPages(presses + 1)
      BY <2>1, <3>1, ToldMember DEF ToPages
    <3> QED BY <1>2, <3>2 DEF Untouched
  <2> QED BY <2>1
<1> QED BY <1>1, <1>2, <1>3, <1>4

(***************************************************************************)
(* With a new press, the balance has to be shown of this press only.       *)
(***************************************************************************)
LEMMA NewPress ==
  ASSUME EchoInv, NEW p \in Press, p = presses + 1, presses' = p,
         disconnects' = disconnects, Balance(p)',
         \A q \in Press : q # p => SameEchoes(q)
  PROVE  Balanced'
<1> SUFFICES ASSUME NEW q \in Press
             PROVE  IF q <= p THEN Balance(q)' ELSE Untouched(q)'
  BY DEF Balanced
<1>1. presses \in Nat /\ p \in Nat /\ q \in Nat
  BY DEF EchoInv, TypeInv, Press
<1>2. CASE q = p
  BY <1>1, <1>2
<1>3. CASE q # p
  <2>1. IF q <= presses THEN Balance(q) ELSE Untouched(q)
    BY DEF EchoInv, Balanced
  <2>2. SameEchoes(q)
    BY <1>3
  <2>3. (Balance(q) => Balance(q)') /\ (Untouched(q) => Untouched(q)')
    BY <2>2, BalanceStays
  <2>4. q <= presses <=> q <= p
    BY <1>1, <1>3
  <2> QED BY <2>1, <2>3, <2>4
<1> QED BY <1>2, <1>3

(***************************************************************************)
(* A step that puts no new echo under way keeps every echo unique.         *)
(***************************************************************************)
LEMMA LessUnderWay ==
  ASSUME EchoInv,
         \A d \in Browsers :
           /\ Distinct(inbox'[d])
           /\ Tells(inbox'[d]) \subseteq Tells(inbox[d])
           /\ \A e \in outbox'[d] : e \in outbox[d] \/ e.kind # "button_press"
           /\ ~connected'[d] => inbox'[d] = << >> /\ outbox'[d] = {}
  PROVE  /\ UnderWayOnce'
         /\ \A d \in Browsers, k \in InterruptKind, p \in Press :
              <<k, p>> \in Tells(inbox'[d]) \cup Says(outbox'[d]) =>
                <<k, p>> \in Tells(inbox[d]) \cup Says(outbox[d])
<1> SUFFICES ASSUME NEW d \in Browsers
             PROVE  /\ \A g, f \in outbox'[d] :
                         (/\ g.kind = "button_press" /\ f.kind = "button_press"
                          /\ g.press = f.press /\ g.why = f.why) => g = f
                    /\ Tells(inbox'[d]) \cap Says(outbox'[d]) = {}
                    /\ Tells(inbox'[d]) \subseteq Tells(inbox[d])
                    /\ Says(outbox'[d]) \subseteq Says(outbox[d])
  BY DEF UnderWayOnce
<1>1. /\ \A g, f \in outbox[d] :
           (/\ g.kind = "button_press" /\ f.kind = "button_press"
            /\ g.press = f.press /\ g.why = f.why) => g = f
      /\ Tells(inbox[d]) \cap Says(outbox[d]) = {}
  BY DEF EchoInv, UnderWayOnce
<1>2. \A e \in outbox'[d] : e.kind = "button_press" => e \in outbox[d]
  OBVIOUS
<1>3. Says(outbox'[d]) \subseteq Says(outbox[d])
  BY <1>2 DEF Says
<1> QED BY <1>1, <1>2, <1>3

(* And a step of an earlier press leaves the others alone.                 *)
LEMMA EarlierPress ==
  ASSUME EchoInv, NEW p \in Press, p <= presses, presses' = presses,
         disconnects' = disconnects, Balance(p) => Balance(p)',
         \A q \in Press : q # p => SameEchoes(q)
  PROVE  Balanced'
<1> SUFFICES ASSUME NEW q \in Press
             PROVE  IF q <= presses THEN Balance(q)' ELSE Untouched(q)'
  BY DEF Balanced
<1>1. IF q <= presses THEN Balance(q) ELSE Untouched(q)
  BY DEF EchoInv, Balanced
<1>2. CASE q = p
  BY <1>1, <1>2
<1>3. CASE q # p
  <2>1. SameEchoes(q)
    BY <1>3
  <2>2. (Balance(q) => Balance(q)') /\ (Untouched(q) => Untouched(q)')
    BY <2>1, BalanceStays
  <2> QED BY <1>1, <2>2
<1> QED BY <1>2, <1>3

LEMMA NoEchoes ==
  ASSUME EchoInv, presses' = presses, disconnects' = 0 => disconnects = 0,
         \A q \in Press : SameEchoes(q)
  PROVE  Balanced'
<1> SUFFICES ASSUME NEW q \in Press
             PROVE  IF q <= presses THEN Balance(q)' ELSE Untouched(q)'
  BY DEF Balanced
<1>1. IF q <= presses THEN Balance(q) ELSE Untouched(q)
  BY DEF EchoInv, Balanced
<1>2. SameEchoes(q)
  OBVIOUS
<1>3. (Balance(q) => Balance(q)') /\ (Untouched(q) => Untouched(q)')
  BY <1>2, BalanceStays
<1> QED BY <1>1, <1>3

LEMMA SaysPair == \A es : \A x \in Says(es) : \E w, p : x = <<w, p>>
BY DEF Says

LEMMA SayMore ==
  ASSUME NEW es, NEW e, e.kind = "button_press"
  PROVE  Says(es \cup {e}) = Says(es) \cup {<<e.why, e.press>>}
<1>1. \A w, p : <<w, p>> \in Says(es \cup {e}) <=>
                  <<w, p>> \in Says(es) \/ (w = e.why /\ p = e.press)
  <2> TAKE w, p
  <2>1. <<w, p>> \in Says(es \cup {e}) <=>
          \E f \in es \cup {e} : f.kind = "button_press" /\ f.why = w /\ f.press = p
    BY SaysMember
  <2>2. <<w, p>> \in Says(es) <=>
          \E f \in es : f.kind = "button_press" /\ f.why = w /\ f.press = p
    BY SaysMember
  <2> QED BY <2>1, <2>2
<1>2. \A x \in Says(es \cup {e}) : x \in Says(es) \cup {<<e.why, e.press>>}
  <2> TAKE x \in Says(es \cup {e})
  <2>1. PICK w, p : x = <<w, p>>
    BY SaysPair
  <2> QED BY <1>1, <2>1
<1>3. \A x \in Says(es) : x \in Says(es \cup {e})
  BY DEF Says
<1>4. <<e.why, e.press>> \in Says(es \cup {e})
  BY <1>1
<1> QED BY <1>2, <1>3, <1>4

(* An event that is answered for takes its own pair away and no other.     *)
LEMMA SayLess ==
  ASSUME NEW es, NEW e \in es, e.kind = "button_press",
         \A f \in es : f.kind = "button_press" /\ f.press = e.press /\ f.why = e.why
                         => f = e
  PROVE  Says(es \ {e}) = Says(es) \ {<<e.why, e.press>>}
<1>1. \A x \in Says(es \ {e}) : x \in Says(es) /\ x # <<e.why, e.press>>
  BY DEF Says
<1>2. \A x \in Says(es) : x # <<e.why, e.press>> => x \in Says(es \ {e})
  BY DEF Says
<1> QED BY <1>1, <1>2

LEMMA SayOther ==
  ASSUME NEW es, NEW e, e.kind # "button_press"
  PROVE  Says(es \ {e}) = Says(es)
BY DEF Says

(***************************************************************************)
(* A step that tells no page of an interrupt, and announces nothing.       *)
(***************************************************************************)
NothingNew ==
  \A d \in Browsers, k \in InterruptKind, p \in Press :
    <<k, p>> \in Tells(inbox'[d]) \cup Says(outbox'[d]) =>
      <<k, p>> \in Tells(inbox[d]) \cup Says(outbox[d])

LEMMA StillTold ==
  ASSUME EchoInv, NothingNew, told' = told
  PROVE  ToldFirst'
BY DEF EchoInv, ToldFirst, NothingNew

LEMMA NothingUnderWay ==
  ASSUME EchoInv, presses' = presses, disconnects' = disconnects,
         UNCHANGED <<connected, inbox, outbox, told, applied>>
  PROVE  UnderWayOnce' /\ Balanced' /\ ToldFirst'
<1>1. UnderWayOnce' /\ ToldFirst'
  BY DEF EchoInv, UnderWayOnce, ToldFirst
<1>2. \A q \in Press : SameEchoes(q)
  BY DEF SameEchoes, ToPages, FromPages
<1> QED BY <1>1, <1>2, NoEchoes

(***************************************************************************)
(* A press by a program: nothing is announced of it yet.                   *)
(***************************************************************************)
LEMMA EchoProgram ==
  ASSUME EchoInv, NEW b \in Buttons, NEW h \in Hardware, ProgramPresses(b, h)
  PROVE  UnderWayOnce' /\ Balanced' /\ ToldFirst'
<1>0. presses < MaxPresses /\ presses + 1 \in Press
  BY Fresh DEF ProgramPresses
<1>p. PICK p \in Press : p = presses + 1
  BY <1>0
<1>1. /\ presses' = p /\ UNCHANGED <<connected, inbox, outbox, told, disconnects>>
  BY <1>p DEF ProgramPresses
<1>2. applied' = [applied EXCEPT ![p] = @ + 1]
  BY <1>p DEF ProgramPresses, HandleButtonPress, ButtonPress
<1>3. Untouched(p) /\ TypeInv
  BY <1>0, <1>p, Fresh DEF EchoInv
<1>4. UnderWayOnce' /\ ToldFirst'
  BY <1>1 DEF EchoInv, UnderWayOnce, ToldFirst
<1>5. ASSUME NEW q \in Press, q # p PROVE SameEchoes(q)
  <2>1. applied'[q] = applied[q]
    BY <1>2, <1>3, <1>5 DEF TypeInv
  <2> QED BY <1>1, <2>1 DEF SameEchoes, ToPages, FromPages
<1>6. Balance(p)'
  <2>1. applied'[p] = 1
    BY <1>2, <1>3 DEF Untouched, TypeInv
  <2>2. told'[p] = {} /\ ToPages(p)' = {} /\ FromPages(p)' = {}
    BY <1>1, <1>3 DEF Untouched, ToPages, FromPages
  <2>3. Cardinality({}) = 0
    BY FS_EmptySet
  <2> QED BY <2>1, <2>2, <2>3 DEF Balance
<1> QED BY <1>p, <1>1, <1>4, <1>5, <1>6, NewPress

LEMMA EchoClick ==
  ASSUME EchoInv, NEW c \in Browsers, NEW b \in Buttons, Click(c, b)
  PROVE  UnderWayOnce' /\ Balanced' /\ ToldFirst'
<1>0. presses < MaxPresses /\ presses + 1 \in Press
  BY Fresh DEF Click
<1>p. PICK p \in Press : p = presses + 1
  BY <1>0
<1>1. /\ presses' = p /\ connected[c]
      /\ outbox' = [outbox EXCEPT ![c] = @ \cup {ButtonPress(p, b, "click")}]
      /\ UNCHANGED <<connected, inbox, applied, told, disconnects>>
  BY <1>p DEF Click
<1>2. TypeInv
  BY DEF EchoInv
<1>3. /\ Untouched(p)
      /\ \A d \in Browsers, k \in Why :
           <<k, p>> \notin Tells(inbox[d]) /\ <<k, p>> \notin Says(outbox[d])
  BY <1>0, <1>p, Fresh
<1> DEFINE e == ButtonPress(p, b, "click")
<1>4. e.kind = "button_press" /\ e.press = p /\ e.why = "click" /\ "click" \in Why
  BY DEF ButtonPress, Why
<1>5. \A d \in Browsers : outbox'[d] = IF d = c THEN outbox[c] \cup {e} ELSE outbox[d]
  BY <1>1, <1>2 DEF TypeInv
<1> HIDE DEF e
<1>6. Says(outbox[c] \cup {e}) = Says(outbox[c]) \cup {<<"click", p>>}
  BY <1>4, SayMore
<1>7. \A f \in outbox[c] : f.kind = "button_press" => ~(f.press = p /\ f.why = "click")
  <2>1. <<"click", p>> \notin Says(outbox[c])
    BY <1>3, <1>4
  <2> QED BY <2>1, SaysMember
<1>8. UnderWayOnce'
  <2> SUFFICES ASSUME NEW d \in Browsers
               PROVE  /\ Distinct(inbox'[d])
                      /\ \A g, f \in outbox'[d] :
                           (/\ g.kind = "button_press" /\ f.kind = "button_press"
                            /\ g.press = f.press /\ g.why = f.why) => g = f
                      /\ Tells(inbox'[d]) \cap Says(outbox'[d]) = {}
                      /\ ~connected'[d] => inbox'[d] = << >> /\ outbox'[d] = {}
    BY DEF UnderWayOnce
  <2>1. /\ Distinct(inbox[d])
        /\ \A g, f \in outbox[d] :
             (/\ g.kind = "button_press" /\ f.kind = "button_press"
              /\ g.press = f.press /\ g.why = f.why) => g = f
        /\ Tells(inbox[d]) \cap Says(outbox[d]) = {}
        /\ ~connected[d] => inbox[d] = << >> /\ outbox[d] = {}
    BY DEF EchoInv, UnderWayOnce
  <2>2. inbox' = inbox /\ connected' = connected
    BY <1>1
  <2>3. CASE d # c
    BY <1>5, <2>1, <2>2, <2>3
  <2>4. CASE d = c
    <3>1. <<"click", p>> \notin Tells(inbox[c])
      BY <1>3, <1>4
    <3>2. Tells(inbox'[d]) \cap Says(outbox'[d]) = {}
      BY <1>5, <1>6, <2>1, <2>2, <2>4, <3>1
    <3>3. outbox'[d] = outbox[d] \cup {e}
      BY <1>5, <2>4
    <3>4. \A f \in outbox[d] : f.kind = "button_press" => ~(f.press = p /\ f.why = "click")
      BY <1>7, <2>4
    <3>5. \A g, f \in outbox'[d] :
             (/\ g.kind = "button_press" /\ f.kind = "button_press"
              /\ g.press = f.press /\ g.why = f.why) => g = f
      BY <1>4, <2>1, <3>3, <3>4
    <3> QED BY <1>1, <2>1, <2>2, <2>4, <3>2, <3>5
  <2> QED BY <2>3, <2>4
<1>9. ASSUME NEW q \in Press, q # p PROVE SameEchoes(q)
  <2>1. ToPages(q)' = ToPages(q)
    BY <1>1 DEF ToPages
  <2>2. \A d \in Browsers, k \in Why :
          <<k, q>> \in Says(outbox'[d]) <=> <<k, q>> \in Says(outbox[d])
    <3> TAKE d \in Browsers, k \in Why
    <3>1. CASE d = c
      <4>1. Says(outbox'[d]) = Says(outbox[d]) \cup {<<"click", p>>}
        BY <1>5, <1>6, <3>1
      <4> QED BY <1>9, <4>1
    <3>2. CASE d # c
      BY <1>5, <3>2
    <3> QED BY <3>1, <3>2
  <2>3. Sent(outbox', q) = Sent(outbox, q)
    BY <2>2, SentSame
  <2>4. FromPages(q)' = FromPages(q)
    BY <2>3 DEF FromPages
  <2> QED BY <1>1, <2>1, <2>4 DEF SameEchoes
<1>10. Balance(p)'
  <2>1. ToPages(p)' = {} /\ applied'[p] = 0 /\ told'[p] = {}
    BY <1>1, <1>3 DEF Untouched, ToPages
  <2>2. \A d \in Browsers, k \in Why :
          <<k, p>> \in Says(outbox'[d]) <=>
            <<k, p>> \in Says(outbox[d]) \/ (d = c /\ k = "click")
    <3> TAKE d \in Browsers, k \in Why
    <3>1. CASE d = c
      <4>1. Says(outbox'[d]) = Says(outbox[d]) \cup {<<"click", p>>}
        BY <1>5, <1>6, <3>1
      <4> QED BY <3>1, <4>1
    <3>2. CASE d # c
      BY <1>5, <3>2
    <3> QED BY <3>1, <3>2
  <2>3. Sent(outbox', p) = Sent(outbox, p) \cup {<<c, "click">>}
    BY <1>4, <2>2, SentMore
  <2>4. FromPages(p)' = {<<c, "click">>}
    BY <1>3, <2>3 DEF FromPages, Untouched
  <2>5. Cardinality({}) = 0 /\ Cardinality({<<c, "click">>}) = 1
    BY FS_EmptySet, FS_Singleton
  <2> QED BY <2>1, <2>4, <2>5 DEF Balance
<1>11. ToldFirst'
  <2>1. NothingNew
    <3> SUFFICES ASSUME NEW d \in Browsers, NEW k \in InterruptKind, NEW q \in Press,
                        <<k, q>> \in Says(outbox'[d])
                 PROVE  <<k, q>> \in Says(outbox[d])
      BY <1>1 DEF NothingNew
    <3>1. "click" \notin InterruptKind
      BY DEF InterruptKind
    <3> QED BY <1>5, <1>6, <3>1
  <2> QED BY <1>1, <2>1, StillTold
<1> QED BY <1>p, <1>1, <1>8, <1>9, <1>10, <1>11, NewPress

(***************************************************************************)
(* The thread of a press announces it: an interrupt more under way to each *)
(* page that is connected, which was not told of it before.                *)
(***************************************************************************)
LEMMA EchoAnnounce ==
  ASSUME EchoInv, NEW h \in handling, Announce(h)
  PROVE  UnderWayOnce' /\ Balanced' /\ ToldFirst'
<1>1. /\ TypeInv /\ h.at \in InterruptKind /\ h.event.press \in Press
      /\ h.event.code \in Buttons
  BY HandlerFields DEF EchoInv, Announce
<1>p. PICK p \in Press : p = h.event.press
  BY <1>1
<1>k. PICK k \in InterruptKind : k = h.at
  BY <1>1
<1>i. PICK i \in InEvent : i = Interrupt(h.at, h.event.press, h.event.code)
  BY <1>1, InterruptType
<1>2. i.kind = k /\ i.press = p /\ k \in Why
  BY <1>1, <1>p, <1>k, <1>i, InterruptType DEF Why
<1>3. /\ inbox' = [c \in Browsers |->
                     IF connected[c] THEN Append(inbox[c], i) ELSE inbox[c]]
      /\ told' = [told EXCEPT ![p] = @ \cup (Online \X {k})]
      /\ UNCHANGED <<connected, outbox, presses, applied, disconnects>>
  BY <1>p, <1>k, <1>i DEF Announce, Broadcast
<1>4. \A c \in Browsers : <<c, k>> \notin told[p]
  <2>1. k \in Left(h.at)
    BY <1>k DEF Left
  <2> QED BY <1>1, <1>p, <2>1 DEF EchoInv, Tellers
<1>5. \A c \in Browsers : <<k, p>> \notin Tells(inbox[c]) /\ <<k, p>> \notin Says(outbox[c])
  BY <1>4 DEF EchoInv, ToldFirst
<1>6. ASSUME NEW c \in Browsers
      PROVE  /\ Distinct(inbox'[c])
             /\ Tells(inbox'[c]) = Tells(inbox[c]) \cup
                                     (IF connected[c] THEN {<<k, p>>} ELSE {})
             /\ ~connected[c] => inbox'[c] = inbox[c]
  <2>1. inbox[c] \in Seq(InEvent) /\ Distinct(inbox[c])
    BY <1>1, InboxType DEF EchoInv, UnderWayOnce
  <2>2. CASE connected[c]
    <3>1. inbox'[c] = Append(inbox[c], i)
      BY <1>3, <2>2
    <3>2. <<i.kind, i.press>> \notin Tells(inbox[c])
      BY <1>2, <1>5
    <3>3. /\ Distinct(Append(inbox[c], i))
          /\ Tells(Append(inbox[c], i)) = Tells(inbox[c]) \cup {<<i.kind, i.press>>}
      BY <1>2, <2>1, <3>2, AppendInterrupt
    <3> QED BY <1>2, <2>2, <3>1, <3>3
  <2>3. CASE ~connected[c]
    <3>1. inbox'[c] = inbox[c]
      BY <1>3, <2>3
    <3> QED BY <2>1, <2>3, <3>1
  <2> QED BY <2>2, <2>3
<1>7. UnderWayOnce'
  <2> SUFFICES ASSUME NEW c \in Browsers
               PROVE  Tells(inbox'[c]) \cap Says(outbox'[c]) = {}
    BY <1>3, <1>6 DEF EchoInv, UnderWayOnce
  <2>1. Tells(inbox[c]) \cap Says(outbox[c]) = {} /\ outbox' = outbox
    BY <1>3 DEF EchoInv, UnderWayOnce
  <2> QED BY <1>5, <1>6, <2>1
<1>8. \A q \in Press : told'[q] = IF q = p THEN told[p] \cup (Online \X {k}) ELSE told[q]
  BY <1>1, <1>3 DEF TypeInv
<1>9. ToldFirst'
  <2> SUFFICES ASSUME NEW c \in Browsers, NEW j \in InterruptKind, NEW q \in Press,
                      <<j, q>> \in Tells(inbox'[c]) \cup Says(outbox[c])
               PROVE  <<c, j>> \in told'[q]
    BY <1>3 DEF ToldFirst
  <2>1. CASE <<j, q>> \in Tells(inbox[c]) \cup Says(outbox[c])
    <3>1. <<c, j>> \in told[q]
      BY <2>1 DEF EchoInv, ToldFirst
    <3> QED BY <1>8, <3>1
  <2>2. CASE connected[c] /\ j = k /\ q = p
    BY <1>8, <2>2 DEF Online
  <2> QED BY <1>6, <2>1, <2>2
<1>10. ASSUME NEW q \in Press, q # p PROVE SameEchoes(q)
  <2>1. applied'[q] = applied[q] /\ told'[q] = told[q]
    BY <1>3, <1>8, <1>10
  <2>2. \A c \in Browsers, j \in InterruptKind :
          <<j, q>> \in Tells(inbox'[c]) <=> <<j, q>> \in Tells(inbox[c])
    BY <1>6, <1>10
  <2>3. Told(inbox', q) = Told(inbox, q)
    BY <2>2, ToldSame
  <2> QED BY <1>3, <2>1, <2>3 DEF SameEchoes, ToPages, FromPages
<1> DEFINE New == Online \X {k}
<1>11. /\ IsFiniteSet(New) /\ Cardinality(New) \in Nat
       /\ New \in SUBSET (Browsers \X InterruptKind)
  <2>1. New \in SUBSET (Browsers \X InterruptKind)
    BY DEF Online
  <2>2. IsFiniteSet(Browsers \X InterruptKind)
    BY TwoKinds, EchoAssumption, FS_Product
  <2>3. IsFiniteSet(New)
    BY <2>1, <2>2, FS_Subset
  <2> QED BY <2>1, <2>3, FS_CardinalityType
<1>12. ToPages(p)' = ToPages(p) \cup New /\ ToPages(p) \cap New = {}
  <2> DEFINE S == ToPages(p) \cup New
  <2>1. S \in SUBSET (Browsers \X InterruptKind)
    BY <1>11 DEF ToPages, Told
  <2>2. ASSUME NEW c \in Browsers, NEW j \in InterruptKind
        PROVE  <<j, p>> \in Tells(inbox'[c]) <=> <<c, j>> \in S
    <3>1. <<j, p>> \in Tells(inbox'[c]) <=>
            <<j, p>> \in Tells(inbox[c]) \/ (connected[c] /\ j = k)
      BY <1>6
    <3>2. <<c, j>> \in New <=> connected[c] /\ j = k
      BY DEF Online
    <3> QED BY <3>1, <3>2, ToldMember DEF ToPages
  <2>3. Told(inbox', p) = S
    <3> HIDE DEF S
    <3> QED BY <2>1, <2>2, ToldEqual
  <2>4. ASSUME NEW x \in New PROVE x \notin ToPages(p)
    <3>1. PICK c \in Browsers : x = <<c, k>>
      BY DEF Online
    <3> QED BY <1>5, <3>1, ToldMember DEF ToPages
  <2> QED BY <2>3, <2>4 DEF ToPages
<1>13. told'[p] = told[p] \cup New /\ told[p] \cap New = {}
  <2>1. ASSUME NEW x \in New PROVE x \notin told[p]
    <3>1. PICK c \in Browsers : x = <<c, k>>
      BY DEF Online
    <3> QED BY <1>4, <3>1
  <2> QED BY <1>8, <2>1
<1> HIDE DEF New
<1>14. Cardinality(ToPages(p)') = Cardinality(ToPages(p)) + Cardinality(New)
  <2>1. IsFiniteSet(ToPages(p)) /\ Cardinality(ToPages(p)) \in Nat
    BY FiniteUnderWay
  <2>2. Cardinality(ToPages(p) \cup New)
          = Cardinality(ToPages(p)) + Cardinality(New) - Cardinality(ToPages(p) \cap New)
    BY <1>11, <2>1, FS_Union
  <2>3. Cardinality(ToPages(p) \cap New) = 0
    BY <1>12, FS_EmptySet
  <2> QED BY <1>11, <1>12, <2>1, <2>2, <2>3
<1>15. Cardinality(told'[p]) = Cardinality(told[p]) + Cardinality(New)
  <2>1. IsFiniteSet(told[p]) /\ Cardinality(told[p]) \in Nat
    BY <1>1, FiniteTold
  <2>2. Cardinality(told[p] \cup New)
          = Cardinality(told[p]) + Cardinality(New) - Cardinality(told[p] \cap New)
    BY <1>11, <2>1, FS_Union
  <2>3. Cardinality(told[p] \cap New) = 0
    BY <1>13, FS_EmptySet
  <2> QED BY <1>11, <1>13, <2>1, <2>2, <2>3
<1>16. Balance(p) => Balance(p)'
  <2>1. /\ applied'[p] = applied[p] /\ applied[p] \in Nat /\ disconnects' = disconnects
        /\ FromPages(p)' = FromPages(p)
    BY <1>1, <1>3 DEF TypeInv, FromPages
  <2>2. /\ Cardinality(FromPages(p)) \in Nat /\ Cardinality(ToPages(p)) \in Nat
        /\ Cardinality(told[p]) \in Nat
    BY <1>1, FiniteUnderWay, FiniteTold
  <2> QED BY <1>11, <1>14, <1>15, <2>1, <2>2 DEF Balance
<1>17. p <= presses
  BY <1>p DEF EchoInv, Tellers
<1> QED BY <1>3, <1>7, <1>9, <1>10, <1>16, <1>17, EarlierPress

(***************************************************************************)
(* A broadcast of the state is no echo.                                    *)
(***************************************************************************)
LEMMA EchoUpdate ==
  ASSUME EchoInv, Broadcast(StateUpdate(tv)),
         UNCHANGED <<connected, outbox, presses, applied, told, disconnects>>
  PROVE  UnderWayOnce' /\ Balanced' /\ NothingNew
<1>1. TypeInv /\ tv \in States
  BY DEF EchoInv, TypeInv
<1>2. ASSUME NEW d \in Browsers
      PROVE  /\ Distinct(inbox'[d])
             /\ Tells(inbox'[d]) = Tells(inbox[d])
             /\ ~connected'[d] => inbox'[d] = << >> /\ outbox'[d] = {}
  <2>1. inbox[d] \in Seq(InEvent) /\ Distinct(inbox[d])
    BY <1>1, InboxType DEF EchoInv, UnderWayOnce
  <2>2. ~connected[d] => inbox[d] = << >> /\ outbox[d] = {}
    BY DEF EchoInv, UnderWayOnce
  <2>3. inbox'[d] = IF connected[d] THEN Append(inbox[d], StateUpdate(tv)) ELSE inbox[d]
    BY DEF Broadcast
  <2>4. /\ Distinct(Append(inbox[d], StateUpdate(tv)))
        /\ Tells(Append(inbox[d], StateUpdate(tv))) = Tells(inbox[d])
    BY <1>1, <2>1, UpdateTells
  <2>5. CASE connected[d]
    <3>1. inbox'[d] = Append(inbox[d], StateUpdate(tv))
      BY <2>3, <2>5
    <3> QED BY <2>4, <2>5, <3>1
  <2>6. CASE ~connected[d]
    <3>1. inbox'[d] = inbox[d]
      BY <2>3, <2>6
    <3> QED BY <2>1, <2>2, <2>6, <3>1
  <2> QED BY <2>5, <2>6
<1>3. UnderWayOnce' /\ NothingNew
  BY <1>2, LessUnderWay DEF NothingNew
<1>4. ASSUME NEW q \in Press PROVE SameEchoes(q)
  <2>1. \A d \in Browsers, k \in InterruptKind :
          <<k, q>> \in Tells(inbox'[d]) <=> <<k, q>> \in Tells(inbox[d])
    BY <1>2
  <2>2. Told(inbox', q) = Told(inbox, q)
    BY <2>1, ToldSame
  <2> QED BY <2>2 DEF SameEchoes, ToPages, FromPages
<1> QED BY <1>3, <1>4, NoEchoes

(***************************************************************************)
(* The server handles an answer: an echo less, applied once more.          *)
(***************************************************************************)
LEMMA EchoAnswer ==
  ASSUME EchoInv, NEW c \in Browsers, NEW e \in outbox[c], e.kind = "button_press",
         applied' = [applied EXCEPT ![e.press] = @ + 1],
         outbox' = [outbox EXCEPT ![c] = @ \ {e}],
         UNCHANGED <<connected, inbox, presses, told, disconnects>>
  PROVE  UnderWayOnce' /\ Balanced' /\ NothingNew
<1>1. /\ e.press \in Press /\ e.code \in Buttons /\ e.why \in Why
      /\ <<e.why, e.press>> \in Says(outbox[c])
  BY EchoFields DEF EchoInv
<1>p. PICK p \in Press : p = e.press
  BY <1>1
<1>w. PICK w \in Why : w = e.why
  BY <1>1
<1>2. TypeInv /\ applied' = [applied EXCEPT ![p] = @ + 1]
  BY <1>p DEF EchoInv
<1>3. \A d \in Browsers : outbox'[d] = IF d = c THEN outbox[c] \ {e} ELSE outbox[d]
  BY <1>2 DEF TypeInv
<1>4. Says(outbox[c] \ {e}) = Says(outbox[c]) \ {<<w, p>>}
  <2>1. \A f \in outbox[c] : f.kind = "button_press" /\ f.press = e.press
                               /\ f.why = e.why => f = e
    BY DEF EchoInv, UnderWayOnce
  <2> QED BY <2>1, <1>p, <1>w, SayLess
<1>5. ASSUME NEW d \in Browsers
      PROVE  /\ Distinct(inbox'[d])
             /\ Tells(inbox'[d]) = Tells(inbox[d])
             /\ ~connected[d] => inbox'[d] = inbox[d]
  BY DEF EchoInv, UnderWayOnce
<1>6. UnderWayOnce' /\ NothingNew
  <2>1. ASSUME NEW d \in Browsers
        PROVE  /\ Distinct(inbox'[d])
               /\ Tells(inbox'[d]) \subseteq Tells(inbox[d])
               /\ \A f \in outbox'[d] : f \in outbox[d] \/ f.kind # "button_press"
               /\ ~connected'[d] => inbox'[d] = << >> /\ outbox'[d] = {}
    <3>1. outbox'[d] \subseteq outbox[d]
      BY <1>3
    <3>2. ~connected[d] => inbox[d] = << >> /\ outbox[d] = {}
      BY DEF EchoInv, UnderWayOnce
    <3> QED BY <1>5, <3>1, <3>2
  <2> QED BY <2>1, LessUnderWay DEF NothingNew
<1>7. ASSUME NEW q \in Press PROVE ToPages(q)' = ToPages(q)
  <2>1. \A d \in Browsers, k \in InterruptKind :
          <<k, q>> \in Tells(inbox'[d]) <=> <<k, q>> \in Tells(inbox[d])
    BY <1>5
  <2>2. Told(inbox', q) = Told(inbox, q)
    BY <2>1, ToldSame
  <2> QED BY <2>2 DEF ToPages
<1>8. ASSUME NEW q \in Press, q # p PROVE SameEchoes(q)
  <2>1. applied'[q] = applied[q] /\ told'[q] = told[q]
    BY <1>2, <1>8 DEF TypeInv
  <2>2. \A d \in Browsers, k \in Why :
          <<k, q>> \in Says(outbox'[d]) <=> <<k, q>> \in Says(outbox[d])
    BY <1>3, <1>4, <1>8
  <2>3. Sent(outbox', q) = Sent(outbox, q)
    BY <2>2, SentSame
  <2> QED BY <1>7, <2>1, <2>3 DEF SameEchoes, FromPages
<1>9. FromPages(p)' = FromPages(p) \ {<<c, w>>} /\ <<c, w>> \in FromPages(p)
  <2>1. \A d \in Browsers, k \in Why :
          <<k, p>> \in Says(outbox'[d]) <=>
            <<k, p>> \in Says(outbox[d]) /\ ~(d = c /\ k = w)
    <3> TAKE d \in Browsers, k \in Why
    <3>1. CASE d = c
      <4>1. Says(outbox'[d]) = Says(outbox[d]) \ {<<w, p>>}
        BY <1>3, <1>4, <3>1
      <4> QED BY <3>1, <4>1
    <3>2. CASE d # c
      BY <1>3, <3>2
    <3> QED BY <3>1, <3>2
  <2>a. ASSUME NEW box, NEW new,
               \A d \in Browsers, k \in Why :
                 <<k, p>> \in Says(new[d]) <=>
                   <<k, p>> \in Says(box[d]) /\ ~(d = c /\ k = w)
        PROVE  Sent(new, p) = Sent(box, p) \ {<<c, w>>}
    BY <2>a, SentLess
  <2>2. Sent(outbox', p) = Sent(outbox, p) \ {<<c, w>>}
    BY <2>1, <2>a
  <2>3. <<w, p>> \in Says(outbox[c])
    BY <1>1, <1>p, <1>w
  <2>4. <<c, w>> \in Sent(outbox, p)
    BY <2>3, SentMember
  <2> QED BY <2>2, <2>4 DEF FromPages
<1>10. Cardinality(FromPages(p)') = Cardinality(FromPages(p)) - 1
  <2>1. IsFiniteSet(FromPages(p))
    BY FiniteUnderWay
  <2>2. Cardinality(FromPages(p) \ {<<c, w>>}) = Cardinality(FromPages(p)) - 1
    BY <1>9, <2>1, FS_RemoveElement
  <2> QED BY <1>9, <2>2
<1>11. p <= presses
  <2>1. ~Untouched(p)
    BY <1>9 DEF Untouched
  <2> QED BY <2>1 DEF EchoInv, Balanced
<1>12. Balance(p) => Balance(p)'
  <2>1. applied'[p] = applied[p] + 1 /\ applied[p] \in Nat /\ told' = told
    BY <1>2 DEF TypeInv
  <2>2. Cardinality(FromPages(p)) \in Nat /\ Cardinality(ToPages(p)) \in Nat
    BY FiniteUnderWay
  <2>3. ToPages(p)' = ToPages(p)
    BY <1>7
  <2> QED BY <1>10, <2>1, <2>2, <2>3 DEF Balance
<1> QED BY <1>6, <1>8, <1>11, <1>12, EarlierPress

(***************************************************************************)
(* The server answers a request with an update, which is no echo.          *)
(***************************************************************************)
LEMMA EchoRequest ==
  ASSUME EchoInv, NEW c \in Browsers, NEW e \in outbox[c], e.kind = "request_state",
         inbox' = [inbox EXCEPT ![c] = Append(@, StateUpdate(tv))],
         outbox' = [outbox EXCEPT ![c] = @ \ {e}],
         UNCHANGED <<connected, presses, applied, told, disconnects>>
  PROVE  UnderWayOnce' /\ Balanced' /\ NothingNew
<1>1. TypeInv /\ tv \in States
  BY DEF EchoInv, TypeInv
<1>2. ASSUME NEW d \in Browsers
      PROVE  /\ Distinct(inbox'[d])
             /\ Tells(inbox'[d]) = Tells(inbox[d])
             /\ Says(outbox'[d]) = Says(outbox[d])
             /\ outbox'[d] \subseteq outbox[d]
             /\ ~connected'[d] => inbox'[d] = << >> /\ outbox'[d] = {}
  <2>1. inbox[d] \in Seq(InEvent) /\ Distinct(inbox[d])
    BY <1>1, InboxType DEF EchoInv, UnderWayOnce
  <2>2. ~connected[d] => inbox[d] = << >> /\ outbox[d] = {}
    BY DEF EchoInv, UnderWayOnce
  <2>3. CASE d # c
    BY <1>1, <2>1, <2>2, <2>3 DEF TypeInv
  <2>4. CASE d = c
    <3>1. inbox'[d] = Append(inbox[d], StateUpdate(tv)) /\ outbox'[d] = outbox[d] \ {e}
      BY <1>1, <2>4 DEF TypeInv
    <3>2. /\ Distinct(Append(inbox[d], StateUpdate(tv)))
          /\ Tells(Append(inbox[d], StateUpdate(tv))) = Tells(inbox[d])
      BY <1>1, <2>1, UpdateTells
    <3>3. Says(outbox[d] \ {e}) = Says(outbox[d])
      BY SayOther
    <3>4. connected[d]
      BY <2>2, <2>4
    <3> QED BY <3>1, <3>2, <3>3, <3>4
  <2> QED BY <2>3, <2>4
<1>3. UnderWayOnce' /\ NothingNew
  BY <1>2, LessUnderWay DEF NothingNew
<1>4. ASSUME NEW q \in Press PROVE SameEchoes(q)
  <2>1. \A d \in Browsers, k \in InterruptKind :
          <<k, q>> \in Tells(inbox'[d]) <=> <<k, q>> \in Tells(inbox[d])
    BY <1>2
  <2>2. Told(inbox', q) = Told(inbox, q)
    BY <2>1, ToldSame
  <2>3. \A d \in Browsers, k \in Why :
          <<k, q>> \in Says(outbox'[d]) <=> <<k, q>> \in Says(outbox[d])
    BY <1>2
  <2>4. Sent(outbox', q) = Sent(outbox, q)
    BY <2>3, SentSame
  <2> QED BY <2>2, <2>4 DEF SameEchoes, ToPages, FromPages
<1> QED BY <1>3, <1>4, NoEchoes

(***************************************************************************)
(* A page receives an update, or an interrupt, which it answers: the echo  *)
(* goes from the one side to the other.                                    *)
(***************************************************************************)
LEMMA Received ==
  ASSUME EchoInv, NEW c \in Browsers, Receive(c)
  PROVE  /\ inbox[c] \in Seq(InEvent) /\ inbox[c] # << >> /\ Head(inbox[c]) \in InEvent
         /\ Distinct(Tail(inbox[c])) /\ connected[c]
         /\ \A d \in Browsers :
              inbox'[d] = IF d = c THEN Tail(inbox[c]) ELSE inbox[d]
<1>1. inbox[c] \in Seq(InEvent) /\ inbox[c] # << >> /\ Distinct(inbox[c]) /\ TypeInv
  BY InboxType DEF EchoInv, UnderWayOnce, Receive
<1>2. Head(inbox[c]) \in InEvent
  BY <1>1
<1>2a. Distinct(Tail(inbox[c]))
  BY <1>1, TailTells
<1>3. \A d \in Browsers : inbox'[d] = IF d = c THEN Tail(inbox[c]) ELSE inbox[d]
  BY <1>1 DEF Receive, TypeInv
<1>4. connected[c]
  BY <1>1 DEF EchoInv, UnderWayOnce
<1> QED BY <1>1, <1>2, <1>2a, <1>3, <1>4

LEMMA EchoReceiveUpdate ==
  ASSUME EchoInv, NEW c \in Browsers, Receive(c), Head(inbox[c]).kind = "tv_state_update"
  PROVE  UnderWayOnce' /\ Balanced' /\ NothingNew
<1>1. /\ inbox[c] \in Seq(InEvent) /\ inbox[c] # << >> /\ Distinct(inbox[c])
      /\ Distinct(Tail(inbox[c])) /\ connected[c]
      /\ \A d \in Browsers :
           inbox'[d] = IF d = c THEN Tail(inbox[c]) ELSE inbox[d]
  BY Received DEF EchoInv, UnderWayOnce
<1>2. UNCHANGED <<connected, outbox, presses, applied, told, disconnects>>
  BY DEF Receive, InterruptKind
<1>3. Tells(Tail(inbox[c])) = Tells(inbox[c])
  <2>1. Head(inbox[c]).kind \notin InterruptKind
    BY DEF InterruptKind
  <2> QED BY <1>1, <2>1, TailTells
<1>4. ASSUME NEW d \in Browsers
      PROVE  /\ Distinct(inbox'[d])
             /\ Tells(inbox'[d]) = Tells(inbox[d])
             /\ ~connected'[d] => inbox'[d] = << >> /\ outbox'[d] = {}
  <2>1. Distinct(inbox[d]) /\ (~connected[d] => inbox[d] = << >> /\ outbox[d] = {})
    BY DEF EchoInv, UnderWayOnce
  <2> QED BY <1>1, <1>2, <1>3, <2>1
<1>5. UnderWayOnce' /\ NothingNew
  BY <1>2, <1>4, LessUnderWay DEF NothingNew
<1>6. ASSUME NEW q \in Press PROVE SameEchoes(q)
  <2>1. \A d \in Browsers, k \in InterruptKind :
          <<k, q>> \in Tells(inbox'[d]) <=> <<k, q>> \in Tells(inbox[d])
    BY <1>4
  <2>2. Told(inbox', q) = Told(inbox, q)
    BY <2>1, ToldSame
  <2> QED BY <1>2, <2>2 DEF SameEchoes, ToPages, FromPages
<1> QED BY <1>2, <1>5, <1>6, NoEchoes

LEMMA EchoReceiveInterrupt ==
  ASSUME EchoInv, NEW c \in Browsers, Receive(c), Head(inbox[c]).kind \in InterruptKind
  PROVE  UnderWayOnce' /\ Balanced' /\ NothingNew
<1> DEFINE i == Head(inbox[c])
<1>1. /\ inbox[c] \in Seq(InEvent) /\ inbox[c] # << >> /\ i \in InEvent
      /\ Distinct(Tail(inbox[c])) /\ connected[c] /\ Distinct(inbox[c])
      /\ \A d \in Browsers :
           inbox'[d] = IF d = c THEN Tail(inbox[c]) ELSE inbox[d]
  BY Received DEF EchoInv, UnderWayOnce
<1>2. i.press \in Press /\ i.code \in Buttons /\ i.kind \in InterruptKind
  BY <1>1 DEF InEvent, InterruptKind
<1>p. PICK p \in Press : p = i.press
  BY <1>2
<1>k. PICK k \in InterruptKind : k = i.kind
  BY <1>2
<1>e. PICK e : e = ButtonPress(i.press, i.code, i.kind)
  OBVIOUS
<1>3. /\ e.kind = "button_press" /\ e.press = p /\ e.why = k
      /\ k \in Why
  BY <1>p, <1>k, <1>e DEF ButtonPress, Why
<1>4. /\ outbox' = [outbox EXCEPT ![c] = @ \cup {e}]
      /\ UNCHANGED <<connected, presses, applied, told, disconnects>>
  BY <1>2, <1>e DEF Receive, InterruptKind
<1>5. /\ Tells(Tail(inbox[c])) = Tells(inbox[c]) \ {<<k, p>>}
      /\ <<k, p>> \in Tells(inbox[c])
  BY <1>1, <1>2, <1>p, <1>k, TailTells
<1> HIDE DEF i
<1>6. TypeInv
  BY DEF EchoInv
<1>7. \A d \in Browsers : outbox'[d] = IF d = c THEN outbox[c] \cup {e} ELSE outbox[d]
  BY <1>4, <1>6 DEF TypeInv
<1>8. Says(outbox[c] \cup {e}) = Says(outbox[c]) \cup {<<k, p>>}
  BY <1>3, SayMore
<1>9. <<k, p>> \notin Says(outbox[c])
  BY <1>5 DEF EchoInv, UnderWayOnce
<1>10. \A f \in outbox[c] : f.kind = "button_press" => ~(f.press = p /\ f.why = k)
  BY <1>9, SaysMember
<1>11. UnderWayOnce'
  <2> SUFFICES ASSUME NEW d \in Browsers
               PROVE  /\ Distinct(inbox'[d])
                      /\ \A g, f \in outbox'[d] :
                           (/\ g.kind = "button_press" /\ f.kind = "button_press"
                            /\ g.press = f.press /\ g.why = f.why) => g = f
                      /\ Tells(inbox'[d]) \cap Says(outbox'[d]) = {}
                      /\ ~connected'[d] => inbox'[d] = << >> /\ outbox'[d] = {}
    BY DEF UnderWayOnce
  <2>1. /\ Distinct(inbox[d])
        /\ \A g, f \in outbox[d] :
             (/\ g.kind = "button_press" /\ f.kind = "button_press"
              /\ g.press = f.press /\ g.why = f.why) => g = f
        /\ Tells(inbox[d]) \cap Says(outbox[d]) = {}
        /\ ~connected[d] => inbox[d] = << >> /\ outbox[d] = {}
    BY DEF EchoInv, UnderWayOnce
  <2>2. connected' = connected
    BY <1>4
  <2>3. CASE d # c
    BY <1>1, <1>7, <2>1, <2>2, <2>3
  <2>4. CASE d = c
    <3>1. Tells(inbox'[d]) = Tells(inbox[d]) \ {<<k, p>>} /\ Distinct(inbox'[d])
      BY <1>1, <1>5, <2>4
    <3>2. Says(outbox'[d]) = Says(outbox[d]) \cup {<<k, p>>}
      BY <1>7, <1>8, <2>4
    <3>3. outbox'[d] = outbox[d] \cup {e}
      BY <1>7, <2>4
    <3>4. \A f \in outbox[d] : f.kind = "button_press" => ~(f.press = p /\ f.why = k)
      BY <1>10, <2>4
    <3>5. \A g, f \in outbox'[d] :
             (/\ g.kind = "button_press" /\ f.kind = "button_press"
              /\ g.press = f.press /\ g.why = f.why) => g = f
      BY <1>3, <2>1, <3>3, <3>4
    <3> QED BY <1>1, <2>1, <2>2, <2>4, <3>1, <3>2, <3>5
  <2> QED BY <2>3, <2>4
<1>12. \A q \in Press, d \in Browsers, j \in InterruptKind :
         <<j, q>> \in Tells(inbox'[d]) <=>
           <<j, q>> \in Tells(inbox[d]) /\ ~(d = c /\ j = k /\ q = p)
  <2> TAKE q \in Press, d \in Browsers, j \in InterruptKind
  <2>1. CASE d = c
    <3>1. Tells(inbox'[d]) = Tells(inbox[d]) \ {<<k, p>>}
      BY <1>1, <1>5, <2>1
    <3> QED BY <2>1, <3>1
  <2>2. CASE d # c
    BY <1>1, <2>2
  <2> QED BY <2>1, <2>2
<1>13. \A q \in Press, d \in Browsers, j \in Why :
         <<j, q>> \in Says(outbox'[d]) <=>
           <<j, q>> \in Says(outbox[d]) \/ (d = c /\ j = k /\ q = p)
  <2> TAKE q \in Press, d \in Browsers, j \in Why
  <2>1. CASE d = c
    <3>1. Says(outbox'[d]) = Says(outbox[d]) \cup {<<k, p>>}
      BY <1>7, <1>8, <2>1
    <3> QED BY <2>1, <3>1
  <2>2. CASE d # c
    BY <1>7, <2>2
  <2> QED BY <2>1, <2>2
<1>14. ASSUME NEW q \in Press, q # p PROVE SameEchoes(q)
  <2>1. \A d \in Browsers, j \in InterruptKind :
          <<j, q>> \in Tells(inbox'[d]) <=> <<j, q>> \in Tells(inbox[d])
    BY <1>12, <1>14
  <2>2. Told(inbox', q) = Told(inbox, q)
    BY <2>1, ToldSame
  <2>3. \A d \in Browsers, j \in Why :
          <<j, q>> \in Says(outbox'[d]) <=> <<j, q>> \in Says(outbox[d])
    BY <1>13, <1>14
  <2>4. Sent(outbox', q) = Sent(outbox, q)
    BY <2>3, SentSame
  <2> QED BY <1>4, <2>2, <2>4 DEF SameEchoes, ToPages, FromPages
<1>15. ToPages(p)' = ToPages(p) \ {<<c, k>>} /\ <<c, k>> \in ToPages(p)
  <2>1. \A d \in Browsers, j \in InterruptKind :
          <<j, p>> \in Tells(inbox'[d]) <=>
            <<j, p>> \in Tells(inbox[d]) /\ ~(d = c /\ j = k)
    BY <1>12
  <2>2. Told(inbox', p) = Told(inbox, p) \ {<<c, k>>}
    BY <2>1, ToldLess
  <2>3. <<c, k>> \in Told(inbox, p)
    BY <1>5, ToldMember
  <2> QED BY <2>2, <2>3 DEF ToPages
<1>16. FromPages(p)' = FromPages(p) \cup {<<c, k>>} /\ <<c, k>> \notin FromPages(p)
  <2>1. \A d \in Browsers, j \in Why :
          <<j, p>> \in Says(outbox'[d]) <=>
            <<j, p>> \in Says(outbox[d]) \/ (d = c /\ j = k)
    BY <1>13
  <2>2. Sent(outbox', p) = Sent(outbox, p) \cup {<<c, k>>}
    BY <1>3, <2>1, SentMore
  <2>3. <<c, k>> \notin Sent(outbox, p)
    BY <1>3, <1>9, SentMember
  <2> QED BY <2>2, <2>3 DEF FromPages
<1>17. Cardinality(ToPages(p)') = Cardinality(ToPages(p)) - 1
  BY <1>15, FiniteUnderWay, FS_RemoveElement
<1>18. Cardinality(FromPages(p)') = Cardinality(FromPages(p)) + 1
  BY <1>16, FiniteUnderWay, FS_AddElement
<1>19. p <= presses
  <2>1. ~Untouched(p)
    BY <1>15 DEF Untouched
  <2> QED BY <2>1 DEF EchoInv, Balanced
<1>20. Balance(p) => Balance(p)'
  <2>1. applied[p] \in Nat /\ UNCHANGED <<applied, told, disconnects>>
    BY <1>4, <1>6 DEF TypeInv
  <2>2. Cardinality(FromPages(p)) \in Nat /\ Cardinality(ToPages(p)) \in Nat
    BY FiniteUnderWay
  <2>3. applied[p] + Cardinality(ToPages(p)') + Cardinality(FromPages(p)')
          = applied[p] + Cardinality(ToPages(p)) + Cardinality(FromPages(p))
    BY <1>17, <1>18, <2>1, <2>2
  <2> QED BY <2>1, <2>3 DEF Balance
<1>21. NothingNew
  <2> SUFFICES ASSUME NEW d \in Browsers, NEW j \in InterruptKind, NEW q \in Press,
                      <<j, q>> \in Tells(inbox'[d]) \cup Says(outbox'[d])
               PROVE  <<j, q>> \in Tells(inbox[d]) \cup Says(outbox[d])
    BY DEF NothingNew
  <2>1. <<j, q>> \in Tells(inbox'[d]) => <<j, q>> \in Tells(inbox[d])
    BY <1>12
  <2>2. <<j, q>> \in Says(outbox'[d]) =>
          <<j, q>> \in Says(outbox[d]) \/ (d = c /\ j = k /\ q = p)
    BY <1>13 DEF Why
  <2> QED BY <1>5, <2>1, <2>2
<1> QED BY <1>4, <1>11, <1>14, <1>19, <1>20, <1>21, EarlierPress

(***************************************************************************)
(* A lost connection takes echoes along: the sum only gets smaller.        *)
(***************************************************************************)
LEMMA EchoDisconnect ==
  ASSUME EchoInv, NEW c \in Browsers, Disconnect(c)
  PROVE  UnderWayOnce' /\ Balanced' /\ NothingNew
<1>1. /\ disconnects \in Nat /\ disconnects' = disconnects + 1 /\ TypeInv
      /\ UNCHANGED <<presses, applied, told>>
  <2>1. TypeInv
    BY DEF EchoInv
  <2>2. disconnects \in Nat
    BY <2>1 DEF TypeInv
  <2> QED BY <2>1, <2>2 DEF Disconnect
<1>2. /\ \A d \in Browsers : inbox'[d] = IF d = c THEN << >> ELSE inbox[d]
      /\ \A d \in Browsers : outbox'[d] = IF d = c THEN {} ELSE outbox[d]
      /\ \A d \in Browsers : connected'[d] = IF d = c THEN FALSE ELSE connected[d]
  BY <1>1 DEF Disconnect, TypeInv
<1>3. ASSUME NEW d \in Browsers
      PROVE  /\ Distinct(inbox'[d])
             /\ Tells(inbox'[d]) \subseteq Tells(inbox[d])
             /\ outbox'[d] \subseteq outbox[d]
             /\ Says(outbox'[d]) \subseteq Says(outbox[d])
             /\ ~connected'[d] => inbox'[d] = << >> /\ outbox'[d] = {}
  <2>1. Distinct(inbox[d]) /\ (~connected[d] => inbox[d] = << >> /\ outbox[d] = {})
    BY DEF EchoInv, UnderWayOnce
  <2>2. Says({}) = {}
    BY DEF Says
  <2>3. CASE d = c
    <3>1. inbox'[d] = << >> /\ outbox'[d] = {}
      BY <1>2, <2>3
    <3> QED BY <2>2, <3>1, EmptyTells
  <2>4. CASE d # c
    <3>1. inbox'[d] = inbox[d] /\ outbox'[d] = outbox[d] /\ connected'[d] = connected[d]
      BY <1>2, <2>4
    <3> QED BY <2>1, <3>1
  <2> QED BY <2>3, <2>4
<1>4. UnderWayOnce' /\ NothingNew
  <2>1. \A d \in Browsers :
          /\ Distinct(inbox'[d])
          /\ Tells(inbox'[d]) \subseteq Tells(inbox[d])
          /\ \A e \in outbox'[d] : e \in outbox[d] \/ e.kind # "button_press"
          /\ ~connected'[d] => inbox'[d] = << >> /\ outbox'[d] = {}
    BY <1>3
  <2> QED BY <2>1, LessUnderWay DEF NothingNew
<1>5. Balanced'
  <2> SUFFICES ASSUME NEW q \in Press
               PROVE  IF q <= presses THEN Balance(q)' ELSE Untouched(q)'
    BY <1>1 DEF Balanced
  <2>1. ToPages(q)' \in SUBSET ToPages(q)
    BY <1>3 DEF ToPages, Told
  <2>2. FromPages(q)' \in SUBSET FromPages(q)
    BY <1>3 DEF FromPages, Sent
  <2>3. Cardinality(ToPages(q)') <= Cardinality(ToPages(q))
        /\ Cardinality(ToPages(q)') \in Nat
    BY <2>1, FiniteUnderWay, FS_Subset, FS_CardinalityType
  <2>4. Cardinality(FromPages(q)') <= Cardinality(FromPages(q))
        /\ Cardinality(FromPages(q)') \in Nat
    BY <2>2, FiniteUnderWay, FS_Subset, FS_CardinalityType
  <2>5. Cardinality(ToPages(q)) \in Nat /\ Cardinality(FromPages(q)) \in Nat
    BY FiniteUnderWay
  <2>6. Cardinality(told[q]) \in Nat /\ applied[q] \in Nat
    BY <1>1, FiniteTold DEF TypeInv
  <2>7. ASSUME Balance(q) PROVE Balance(q)'
    <3>1. disconnects' # 0
      BY <1>1
    <3>2. applied[q] + Cardinality(ToPages(q)) + Cardinality(FromPages(q))
            <= 1 + Cardinality(told[q])
      BY <2>7 DEF Balance
    <3>3. applied[q] + Cardinality(ToPages(q)') + Cardinality(FromPages(q)')
            <= 1 + Cardinality(told[q])
      BY <2>3, <2>4, <2>5, <2>6, <3>2
    <3> QED BY <1>1, <3>1, <3>3 DEF Balance
  <2>8. Untouched(q) => Untouched(q)'
    BY <1>1, <2>1, <2>2 DEF Untouched
  <2>9. IF q <= presses THEN Balance(q) ELSE Untouched(q)
    BY DEF EchoInv, Balanced
  <2> QED BY <2>7, <2>8, <2>9
<1> QED BY <1>4, <1>5

LEMMA EchoConnect ==
  ASSUME EchoInv, NEW c \in Browsers, Connect(c)
  PROVE  UnderWayOnce' /\ Balanced' /\ NothingNew
<1>1. TypeInv /\ tv \in States /\ inbox[c] = << >> /\ outbox[c] = {}
      /\ UNCHANGED <<presses, applied, told, disconnects>>
  BY DEF Connect, EchoInv, TypeInv, UnderWayOnce
<1>2. /\ \A d \in Browsers : inbox'[d] = IF d = c THEN << StateUpdate(tv) >> ELSE inbox[d]
      /\ \A d \in Browsers : outbox'[d] = IF d = c THEN {RequestState} ELSE outbox[d]
      /\ \A d \in Browsers : connected'[d] = IF d = c THEN TRUE ELSE connected[d]
  BY <1>1 DEF Connect, TypeInv
<1>3. Distinct(<< StateUpdate(tv) >>) /\ Tells(<< StateUpdate(tv) >>) = {}
  <2>1. << >> \in Seq(InEvent) /\ Append(<< >>, StateUpdate(tv)) = << StateUpdate(tv) >>
    OBVIOUS
  <2> HIDE DEF Distinct
  <2>2. Distinct(Append(<< >>, StateUpdate(tv)))
        /\ Tells(Append(<< >>, StateUpdate(tv))) = Tells(<< >>)
    BY <1>1, <2>1, EmptyTells, UpdateTells
  <2> QED BY <2>1, <2>2, EmptyTells
<1>4. RequestState.kind # "button_press"
  BY DEF RequestState
<1>5. Says({RequestState}) = {} /\ Says({}) = {}
  BY <1>4 DEF Says
<1>6. ASSUME NEW d \in Browsers
      PROVE  /\ Distinct(inbox'[d])
             /\ Tells(inbox'[d]) = Tells(inbox[d])
             /\ Says(outbox'[d]) = Says(outbox[d])
             /\ \A e \in outbox'[d] : e \in outbox[d] \/ e.kind # "button_press"
             /\ ~connected'[d] => inbox'[d] = << >> /\ outbox'[d] = {}
  <2>1. Distinct(inbox[d]) /\ (~connected[d] => inbox[d] = << >> /\ outbox[d] = {})
    BY DEF EchoInv, UnderWayOnce
  <2>3. CASE d = c
    <3>1. inbox'[d] = << StateUpdate(tv) >> /\ outbox'[d] = {RequestState}
          /\ connected'[d] = TRUE /\ inbox[d] = << >> /\ outbox[d] = {}
      BY <1>1, <1>2, <2>3
    <3> QED BY <1>3, <1>4, <1>5, <3>1, EmptyTells
  <2>4. CASE d # c
    <3>1. inbox'[d] = inbox[d] /\ outbox'[d] = outbox[d] /\ connected'[d] = connected[d]
      BY <1>2, <2>4
    <3> QED BY <2>1, <3>1
  <2> QED BY <2>3, <2>4
<1>7. UnderWayOnce' /\ NothingNew
  <2>1. \A d \in Browsers :
          /\ Distinct(inbox'[d])
          /\ Tells(inbox'[d]) \subseteq Tells(inbox[d])
          /\ \A e \in outbox'[d] : e \in outbox[d] \/ e.kind # "button_press"
          /\ ~connected'[d] => inbox'[d] = << >> /\ outbox'[d] = {}
    BY <1>6
  <2> QED BY <2>1, LessUnderWay DEF NothingNew
<1>8. ASSUME NEW q \in Press PROVE SameEchoes(q)
  <2>1. \A d \in Browsers, k \in InterruptKind :
          <<k, q>> \in Tells(inbox'[d]) <=> <<k, q>> \in Tells(inbox[d])
    BY <1>6
  <2>2. Told(inbox', q) = Told(inbox, q)
    BY <2>1, ToldSame
  <2>3. \A d \in Browsers, k \in Why :
          <<k, q>> \in Says(outbox'[d]) <=> <<k, q>> \in Says(outbox[d])
    BY <1>6
  <2>4. Sent(outbox', q) = Sent(outbox, q)
    BY <2>3, SentSame
  <2> QED BY <1>1, <2>2, <2>4 DEF SameEchoes, ToPages, FromPages
<1> QED BY <1>1, <1>7, <1>8, NoEchoes

(***************************************************************************)
(* The handlers: one that starts has announced nothing, one that announces *)
(* an interrupt has the later ones left.                                   *)
(***************************************************************************)
LEMMA TellersAnnounce ==
  ASSUME EchoInv, NEW h \in handling, Announce(h)
  PROVE  Tellers'
<1>1. /\ TypeInv /\ h \in Handler /\ h.at \in InterruptKind /\ h.event.press \in Press
  BY HandlerFields DEF EchoInv, Announce
<1> DEFINE n == Next1(h)
<1>2. /\ n.event = h.event
      /\ n.at = IF h.at = "hardware_interrupt" THEN "button_press_interrupt" ELSE "branch"
  BY <1>1, AfterAnnounce
<1>3. /\ handling' = (handling \ {h}) \cup {n} /\ presses' = presses
      /\ told' = [told EXCEPT ![h.event.press] = @ \cup (Online \X {h.at})]
  BY DEF Announce, Next1
<1> HIDE DEF n
<1>4. ASSUME NEW g \in handling, g # h, g.at \in InterruptKind
      PROVE  g.event.press # h.event.press
  BY <1>1, <1>4 DEF EchoInv, Tellers
<1>5. ASSUME NEW g \in handling
      PROVE  /\ g.event.press \in Press /\ g.event.press <= presses
             /\ g.at \in InterruptKind =>
                  \A c \in Browsers, k \in Left(g.at) : <<c, k>> \notin told[g.event.press]
  BY <1>1, HandlerFields DEF EchoInv, Tellers
<1>6. ASSUME NEW g \in handling'
      PROVE  /\ g.event.press <= presses
             /\ g.at \in InterruptKind =>
                  \A c \in Browsers, k \in Left(g.at) : <<c, k>> \notin told'[g.event.press]
  <2>1. CASE g = n
    <3>1. g.event.press <= presses
      BY <1>2, <1>5, <2>1
    <3>2. ASSUME g.at \in InterruptKind, NEW c \in Browsers, NEW k \in Left(g.at)
          PROVE  <<c, k>> \notin told'[g.event.press]
      <4>1. /\ h.at = "hardware_interrupt" /\ k = "button_press_interrupt"
            /\ k \in Left(h.at) /\ k # h.at
        BY <1>2, <2>1, <3>2 DEF InterruptKind, Left
      <4>2. <<c, k>> \notin told[h.event.press]
        BY <1>1, <1>5, <4>1
      <4>3. told'[h.event.press] = told[h.event.press] \cup (Online \X {h.at})
        BY <1>1, <1>3 DEF TypeInv
      <4> QED BY <1>2, <2>1, <4>1, <4>2, <4>3
    <3> QED BY <3>1, <3>2
  <2>2. CASE g \in handling /\ g # h
    <3>1. ASSUME g.at \in InterruptKind PROVE told'[g.event.press] = told[g.event.press]
      BY <1>1, <1>3, <1>4, <1>5, <2>2, <3>1 DEF TypeInv
    <3> QED BY <1>5, <2>2, <3>1
  <2> QED BY <1>3, <2>1, <2>2
<1>7. ASSUME NEW g \in handling', NEW f \in handling', g.at \in InterruptKind,
             f.at \in InterruptKind, g.event.press = f.event.press
      PROVE  g = f
  <2>1. CASE g = n \/ f = n
    BY <1>2, <1>3, <1>4, <1>7, <2>1
  <2>2. CASE g # n /\ f # n
    BY <1>3, <1>7, <2>2 DEF EchoInv, Tellers
  <2> QED BY <2>1, <2>2
<1> QED BY <1>3, <1>6, <1>7 DEF Tellers

LEMMA TellersFewer ==
  ASSUME EchoInv, told' = told, presses' >= presses, presses' \in Nat,
         NEW n, handling' \subseteq handling \cup {n}, n.event.press \in Press,
         n.event.press <= presses',
         n.at \in InterruptKind =>
           /\ told[n.event.press] = {}
           /\ \A g \in handling : g.event.press # n.event.press
  PROVE  Tellers'
<1>0. TypeInv
  BY DEF EchoInv
<1>1. /\ presses \in Nat /\ n.event.press \in Nat
      /\ \A g \in handling : g.event.press \in Nat
  <2>1. presses \in Nat
    BY <1>0 DEF TypeInv
  <2>2. \A g \in handling : g.event.press \in Press
    BY <1>0, HandlerFields
  <2> QED BY <2>1, <2>2 DEF Press
<1>2. ASSUME NEW g \in handling'
      PROVE  /\ g.event.press <= presses'
             /\ g.at \in InterruptKind =>
                  \A c \in Browsers, k \in Left(g.at) : <<c, k>> \notin told'[g.event.press]
  <2>1. CASE g \in handling
    <3>1. /\ g.event.press <= presses
          /\ g.at \in InterruptKind =>
               \A c \in Browsers, k \in Left(g.at) : <<c, k>> \notin told[g.event.press]
      BY <2>1 DEF EchoInv, Tellers
    <3>2. g.event.press <= presses'
      BY <1>1, <2>1, <3>1
    <3> QED BY <3>1, <3>2
  <2>2. CASE g = n
    <3>1. ASSUME g.at \in InterruptKind PROVE told'[g.event.press] = {}
      BY <2>2, <3>1
    <3> QED BY <2>2, <3>1
  <2> QED BY <2>1, <2>2
<1>3. ASSUME NEW g \in handling', NEW f \in handling', g.at \in InterruptKind,
             f.at \in InterruptKind, g.event.press = f.event.press
      PROVE  g = f
  <2>1. CASE g \in handling /\ f \in handling
    BY <1>3, <2>1 DEF EchoInv, Tellers
  <2>2. CASE g \notin handling \/ f \notin handling
    BY <1>3, <2>2
  <2> QED BY <2>1, <2>2
<1> QED BY <1>2, <1>3 DEF Tellers

LEMMA TellersSame ==
  ASSUME EchoInv, told' = told, presses' = presses, handling' \subseteq handling
  PROVE  Tellers'
BY DEF EchoInv, Tellers

LEMMA TellersProgram ==
  ASSUME EchoInv, NEW b \in Buttons, NEW h \in Hardware, ProgramPresses(b, h)
  PROVE  Tellers'
<1>0. presses \in Nat
  BY DEF EchoInv, TypeInv
<1>1. /\ presses < MaxPresses /\ presses + 1 \in Press /\ presses \in Nat
      /\ Untouched(presses + 1)
  BY <1>0, Fresh DEF ProgramPresses
<1>p. PICK p \in Press : p = presses + 1
  BY <1>1
<1> DEFINE n == [from |-> "program", event |-> ButtonPress(p, b, "program"),
                 at |-> IF h THEN "hardware_interrupt" ELSE "branch"]
<1>2. n.event.press = p
  BY DEF ButtonPress
<1>3. handling' = handling \cup {n} /\ presses' = p /\ told' = told
  BY <1>p DEF ProgramPresses, HandleButtonPress
<1> HIDE DEF n
<1>4. told[p] = {}
  BY <1>1, <1>p DEF Untouched
<1>5. ASSUME NEW g \in handling PROVE g.event.press # p
  <2>1. g.event.press <= presses
    BY DEF EchoInv, Tellers
  <2> QED BY <1>1, <1>p, <2>1
<1>6. presses' >= presses /\ presses' \in Nat /\ n.event.press <= presses'
  BY <1>1, <1>p, <1>2, <1>3
<1> QED BY <1>2, <1>3, <1>4, <1>5, <1>6, TellersFewer

LEMMA TellersAnswer ==
  ASSUME EchoInv, NEW c \in Browsers, NEW e \in outbox[c], e.kind = "button_press",
         HandleButtonPress(c, e, FALSE), UNCHANGED <<told, presses>>
  PROVE  Tellers'
<1>0. TypeInv /\ presses \in Nat
  <2>1. TypeInv
    BY DEF EchoInv
  <2>2. presses \in Nat
    BY <2>1 DEF TypeInv
  <2> QED BY <2>1, <2>2
<1>1. /\ e.press \in Press /\ e.why \in Why /\ <<e.why, e.press>> \in Says(outbox[c])
      /\ presses \in Nat
  BY <1>0, EchoFields
<1>2. e.press <= presses
  <2>1. <<c, e.why>> \in FromPages(e.press)
    BY <1>1, SentMember DEF FromPages
  <2> QED BY <1>1, <2>1 DEF EchoInv, Balanced, Untouched
<1> DEFINE n == [from |-> c, event |-> e, at |-> "branch"]
<1>3. n.event.press = e.press /\ n.at \notin InterruptKind
  BY DEF InterruptKind
<1>4. handling' = handling \cup {n}
  BY DEF HandleButtonPress
<1> HIDE DEF n
<1>5. presses' >= presses /\ presses' \in Nat /\ n.event.press <= presses'
  BY <1>1, <1>2, <1>3
<1> QED BY <1>1, <1>3, <1>4, <1>5, TellersFewer

LEMMA EchoNext == EchoInv /\ [Next]_vars => EchoInv'
<1> SUFFICES ASSUME EchoInv, [Next]_vars
             PROVE  UnderWayOnce' /\ Balanced' /\ ToldFirst' /\ Tellers'
  BY TypeNext DEF EchoInv
<1>1. ASSUME NEW b \in Buttons, NEW h \in Hardware, ProgramPresses(b, h)
      PROVE  UnderWayOnce' /\ Balanced' /\ ToldFirst' /\ Tellers'
  BY <1>1, EchoProgram, TellersProgram
<1>2. ASSUME NEW c \in Browsers, NEW b \in Buttons, Click(c, b)
      PROVE  UnderWayOnce' /\ Balanced' /\ ToldFirst' /\ Tellers'
  <2>1. /\ told' = told /\ handling' = handling /\ presses' = presses + 1
        /\ presses \in Nat
    BY <1>2 DEF Click, EchoInv, TypeInv
  <2>2. Tellers'
    <3>1. ASSUME NEW g \in handling PROVE g.event.press <= presses'
      <4>1. g.event.press <= presses /\ g.event.press \in Nat
        BY HandlerFields DEF EchoInv, Tellers, Press
      <4> QED BY <2>1, <4>1
    <3> QED BY <2>1, <3>1 DEF EchoInv, Tellers
  <2> QED BY <1>2, <2>2, EchoClick
<1>3. ASSUME NEW c \in Browsers, NEW e \in outbox[c], HandleEvent(c, e)
      PROVE  UnderWayOnce' /\ Balanced' /\ ToldFirst' /\ Tellers'
  <2>1. /\ outbox' = [outbox EXCEPT ![c] = @ \ {e}]
        /\ UNCHANGED <<connected, presses, told, disconnects>>
    BY <1>3 DEF HandleEvent
  <2>2. CASE e.kind = "button_press" /\ HandleButtonPress(c, e, FALSE) /\ inbox' = inbox
    <3>1. applied' = [applied EXCEPT ![e.press] = @ + 1]
      BY <2>2 DEF HandleButtonPress
    <3>2. UnderWayOnce' /\ Balanced' /\ NothingNew
      BY <2>1, <2>2, <3>1, EchoAnswer
    <3>3. Tellers'
      BY <2>1, <2>2, TellersAnswer
    <3> QED BY <2>1, <3>2, <3>3, StillTold
  <2>3. CASE /\ e.kind = "request_state"
             /\ inbox' = [inbox EXCEPT ![c] = Append(@, StateUpdate(tv))]
             /\ UNCHANGED <<tv, applied, handling>>
    <3>1. UnderWayOnce' /\ Balanced' /\ NothingNew
      BY <2>1, <2>3, EchoRequest
    <3>2. Tellers'
      BY <2>1, <2>3, TellersSame
    <3> QED BY <2>1, <3>1, <3>2, StillTold
  <2> QED BY <1>3, <2>2, <2>3 DEF HandleEvent
<1>4. ASSUME NEW c \in Browsers, Receive(c)
      PROVE  UnderWayOnce' /\ Balanced' /\ ToldFirst' /\ Tellers'
  <2>1. \/ Head(inbox[c]).kind = "tv_state_update"
        \/ Head(inbox[c]).kind \in InterruptKind
    BY <1>4 DEF Receive
  <2>2. UNCHANGED <<told, presses, handling>>
    BY <1>4 DEF Receive
  <2>3. UnderWayOnce' /\ Balanced' /\ NothingNew
    BY <1>4, <2>1, EchoReceiveUpdate, EchoReceiveInterrupt
  <2> QED BY <2>2, <2>3, TellersSame, StillTold
<1>5. ASSUME NEW c \in Browsers, Disconnect(c)
      PROVE  UnderWayOnce' /\ Balanced' /\ ToldFirst' /\ Tellers'
  <2>1. UNCHANGED <<told, presses, handling>>
    BY <1>5 DEF Disconnect
  <2> QED BY <1>5, <2>1, EchoDisconnect, TellersSame, StillTold
<1>6. ASSUME NEW c \in Browsers, Connect(c)
      PROVE  UnderWayOnce' /\ Balanced' /\ ToldFirst' /\ Tellers'
  <2>1. UNCHANGED <<told, presses, handling>>
    BY <1>6 DEF Connect
  <2> QED BY <1>6, <2>1, EchoConnect, TellersSame, StillTold
<1>7. ASSUME NEW h \in handling, Announce(h)
      PROVE  UnderWayOnce' /\ Balanced' /\ ToldFirst' /\ Tellers'
  BY <1>7, EchoAnnounce, TellersAnnounce
<1>8. ASSUME NEW h \in handling, Branch(h)
      PROVE  UnderWayOnce' /\ Balanced' /\ ToldFirst' /\ Tellers'
  BY <1>8, NothingUnderWay, TellersSame DEF Branch
<1>9. ASSUME NEW h \in handling, Finish(h)
      PROVE  UnderWayOnce' /\ Balanced' /\ ToldFirst' /\ Tellers'
  <2>1. /\ Broadcast(StateUpdate(tv)) /\ handling' \subseteq handling
        /\ UNCHANGED <<connected, outbox, presses, applied, told, disconnects>>
    BY <1>9 DEF Finish
  <2> QED BY <2>1, EchoUpdate, TellersSame, StillTold
<1>10. CASE Write
  BY <1>10, NothingUnderWay, TellersSame DEF Write
<1>11. CASE FinishWrite
  <2>1. /\ Broadcast(StateUpdate(tv)) /\ handling' \subseteq handling
        /\ UNCHANGED <<connected, outbox, presses, applied, told, disconnects>>
    BY <1>11 DEF FinishWrite
  <2> QED BY <2>1, EchoUpdate, TellersSame, StillTold
<1>12. CASE UNCHANGED vars
  BY <1>12, NothingUnderWay, TellersSame DEF vars
<1> QED BY <1>1, <1>2, <1>3, <1>4, <1>5, <1>6, <1>7, <1>8, <1>9, <1>10, <1>11, <1>12
        DEF Next, ServerStep

LEMMA EchoesBalance == Spec => []EchoInv
BY EchoInit, EchoNext, PTL DEF Spec

LEMMA EchoesWithin == EchoInv => EchoesEnd
<1> SUFFICES ASSUME EchoInv, NEW p \in Press
             PROVE  applied[p] <= 1 + Cardinality(told[p])
  BY DEF EchoesEnd
<1>1. applied[p] \in Nat /\ Cardinality(told[p]) \in Nat
  BY FiniteTold DEF EchoInv, TypeInv
<1>2. Cardinality(ToPages(p)) \in Nat /\ Cardinality(FromPages(p)) \in Nat
  BY FiniteUnderWay
<1>3. CASE Balance(p)
  BY <1>1, <1>2, <1>3 DEF Balance
<1>4. CASE Untouched(p)
  BY <1>1, <1>4 DEF Untouched
<1> QED BY <1>3, <1>4 DEF EchoInv, Balanced

(***************************************************************************)
(* A press is handled at most once for itself and once for each interrupt  *)
(* that a page was told of it, whatever the pages, the threads, the lost   *)
(* connections and the order of the events (handle_button_press,           *)
(* handleHardwareInterrupt and handleButtonPressInterrupt of the page).    *)
(***************************************************************************)
THEOREM EchoesAreBounded == Spec => []EchoesEnd
BY EchoesWithin, EchoesBalance, PTL

LEMMA OneToOne ==
  ASSUME NEW S, NEW T, IsFiniteSet(T), NEW f \in [S -> T],
         \A x, y \in S : f[x] = f[y] => x = y,
         \A t \in T : \E x \in S : f[x] = t
  PROVE  Cardinality(S) = Cardinality(T)
<1>1. f \in Bijection(S, T)
  BY DEF Bijection, Injection, Surjection, IsInjective
<1>2. ExistsBijection(S, T)
  BY <1>1 DEF ExistsBijection
<1>3. ExistsBijection(T, S)
  BY <1>2, Fun_ExistsBijSymmetric
<1> QED BY <1>3, FS_Bijection

LEMMA AnnouncedMember ==
  ASSUME NEW p, NEW c \in Browsers, NEW i
  PROVE  <<c, i>> \in Announced(p) <=>
           i \in DOMAIN inbox[c] /\ inbox[c][i].kind \in InterruptKind
             /\ inbox[c][i].press = p
BY DEF Announced

LEMMA AnnouncedPair ==
  ASSUME NEW p, NEW x \in Announced(p)
  PROVE  x[1] \in Browsers /\ x = <<x[1], x[2]>>
BY DEF Announced

LEMMA AnsweredMember ==
  ASSUME NEW p, NEW c \in Browsers, NEW e
  PROVE  <<c, e>> \in Answered(p) <=>
           e \in outbox[c] /\ e.kind = "button_press" /\ e.press = p
BY DEF Answered

LEMMA AnsweredPair ==
  ASSUME NEW p, NEW x \in Answered(p)
  PROVE  x[1] \in Browsers /\ x = <<x[1], x[2]>>
BY DEF Answered

LEMMA AnnouncedEchoes ==
  ASSUME EchoInv, NEW p \in Press
  PROVE  Cardinality(Announced(p)) = Cardinality(ToPages(p))
<1> DEFINE f == [x \in Announced(p) |-> <<x[1], inbox[x[1]][x[2]].kind>>]
<1>1. ASSUME NEW x \in Announced(p)
      PROVE  /\ x[1] \in Browsers /\ x = <<x[1], x[2]>> /\ x[2] \in DOMAIN inbox[x[1]]
             /\ inbox[x[1]][x[2]].kind \in InterruptKind
             /\ inbox[x[1]][x[2]].press = p
  <2>1. x[1] \in Browsers /\ x = <<x[1], x[2]>>
    BY AnnouncedPair
  <2>2. <<x[1], x[2]>> \in Announced(p)
    BY <2>1
  <2> QED BY <2>1, <2>2, AnnouncedMember
<1>2. ASSUME NEW x \in Announced(p) PROVE f[x] \in ToPages(p)
  <2>1. <<inbox[x[1]][x[2]].kind, p>> \in Tells(inbox[x[1]])
    BY <1>1, TellsMember
  <2>2. <<x[1], inbox[x[1]][x[2]].kind>> \in Told(inbox, p)
    BY <1>1, <2>1, ToldMember
  <2> QED BY <2>2 DEF ToPages
<1>3. f \in [Announced(p) -> ToPages(p)]
  BY <1>2
<1>4. ASSUME NEW x \in Announced(p), NEW y \in Announced(p), f[x] = f[y] PROVE x = y
  <2>1. x[1] = y[1] /\ inbox[x[1]][x[2]].kind = inbox[y[1]][y[2]].kind
    BY <1>4
  <2>2. Distinct(inbox[x[1]])
    BY <1>1 DEF EchoInv, UnderWayOnce
  <2>3. x[2] = y[2]
    BY <1>1, <2>1, <2>2 DEF Distinct
  <2>4. x = <<x[1], x[2]>> /\ y = <<y[1], y[2]>>
    BY <1>1
  <2> QED BY <2>1, <2>3, <2>4
<1>5. ASSUME NEW t \in ToPages(p) PROVE \E x \in Announced(p) : f[x] = t
  <2>1. /\ t[1] \in Browsers /\ t[2] \in InterruptKind /\ t = <<t[1], t[2]>>
        /\ <<t[2], p>> \in Tells(inbox[t[1]])
    BY DEF ToPages, Told
  <2>2. PICK i \in DOMAIN inbox[t[1]] :
          inbox[t[1]][i].kind = t[2] /\ inbox[t[1]][i].press = p
    BY <2>1, TellsMember
  <2>3. <<t[1], i>> \in Announced(p)
    BY <2>1, <2>2, AnnouncedMember
  <2>4. f[<<t[1], i>>] = t
    BY <2>1, <2>2, <2>3
  <2> QED BY <2>3, <2>4
<1>6. IsFiniteSet(ToPages(p))
  BY FiniteUnderWay
<1> HIDE DEF f
<1>7. /\ \A x, y \in Announced(p) : f[x] = f[y] => x = y
      /\ \A t \in ToPages(p) : \E x \in Announced(p) : f[x] = t
  BY <1>4, <1>5
<1> QED BY <1>3, <1>6, <1>7, OneToOne

LEMMA AnsweredEchoes ==
  ASSUME EchoInv, NEW p \in Press
  PROVE  Cardinality(Answered(p)) = Cardinality(FromPages(p))
<1> DEFINE f == [x \in Answered(p) |-> <<x[1], x[2].why>>]
<1>1. ASSUME NEW x \in Answered(p)
      PROVE  /\ x[1] \in Browsers /\ x = <<x[1], x[2]>> /\ x[2] \in outbox[x[1]]
             /\ x[2].kind = "button_press" /\ x[2].press = p /\ x[2].why \in Why
  <2>1. x[1] \in Browsers /\ x = <<x[1], x[2]>>
    BY AnsweredPair
  <2>2. <<x[1], x[2]>> \in Answered(p)
    BY <2>1
  <2>3. x[2] \in outbox[x[1]] /\ x[2].kind = "button_press" /\ x[2].press = p
    BY <2>1, <2>2, AnsweredMember
  <2>4. x[2].why \in Why
    BY <2>1, <2>3, EchoFields DEF EchoInv
  <2> QED BY <2>1, <2>3, <2>4
<1>2. ASSUME NEW x \in Answered(p) PROVE f[x] \in FromPages(p)
  <2>1. <<x[2].why, p>> \in Says(outbox[x[1]])
    BY <1>1, SaysMember
  <2>2. <<x[1], x[2].why>> \in Sent(outbox, p)
    BY <1>1, <2>1, SentMember
  <2> QED BY <2>2 DEF FromPages
<1>3. f \in [Answered(p) -> FromPages(p)]
  BY <1>2
<1>4. ASSUME NEW x \in Answered(p), NEW y \in Answered(p), f[x] = f[y] PROVE x = y
  <2>1. x[1] = y[1] /\ x[2].why = y[2].why
    BY <1>4
  <2>2. \A e, g \in outbox[x[1]] :
          (/\ e.kind = "button_press" /\ g.kind = "button_press"
           /\ e.press = g.press /\ e.why = g.why) => e = g
    BY <1>1 DEF EchoInv, UnderWayOnce
  <2>3. x[2] = y[2]
    BY <1>1, <2>1, <2>2
  <2>4. x = <<x[1], x[2]>> /\ y = <<y[1], y[2]>>
    BY <1>1
  <2> QED BY <2>1, <2>3, <2>4
<1>5. ASSUME NEW t \in FromPages(p) PROVE \E x \in Answered(p) : f[x] = t
  <2>1. /\ t[1] \in Browsers /\ t[2] \in Why /\ t = <<t[1], t[2]>>
        /\ <<t[2], p>> \in Says(outbox[t[1]])
    BY DEF FromPages, Sent
  <2>2. PICK e \in outbox[t[1]] : e.kind = "button_press" /\ e.why = t[2] /\ e.press = p
    BY <2>1, SaysMember
  <2>3. <<t[1], e>> \in Answered(p)
    BY <2>1, <2>2, AnsweredMember
  <2>4. f[<<t[1], e>>] = t
    BY <2>1, <2>2, <2>3
  <2> QED BY <2>3, <2>4
<1>6. IsFiniteSet(FromPages(p))
  BY FiniteUnderWay
<1> HIDE DEF f
<1>7. /\ \A x, y \in Answered(p) : f[x] = f[y] => x = y
      /\ \A t \in FromPages(p) : \E x \in Answered(p) : f[x] = t
  BY <1>4, <1>5
<1> QED BY <1>3, <1>6, <1>7, OneToOne

(***************************************************************************)
(* And as long as no connection was lost no echo is missing: how often a   *)
(* press was handled, what is announced to the pages and what they have    *)
(* answered make one and one for each interrupt that a page was told of.   *)
(***************************************************************************)
THEOREM NoEchoIsLost == Spec => []EveryEchoIsApplied
<1>1. EchoInv => EveryEchoIsApplied
  <2> SUFFICES ASSUME EchoInv, disconnects = 0, NEW p \in 1..presses
               PROVE  applied[p] + Cardinality(Announced(p)) + Cardinality(Answered(p))
                        = 1 + Cardinality(told[p])
    BY DEF EveryEchoIsApplied
  <2>1. p \in Press /\ p <= presses
    BY EchoAssumption DEF EchoInv, TypeInv, Press
  <2>2. Balance(p)
    BY <2>1 DEF EchoInv, Balanced
  <2> QED BY <2>1, <2>2, AnnouncedEchoes, AnsweredEchoes DEF Balance
<1> QED BY <1>1, EchoesBalance, PTL

(***************************************************************************)
(* Without presses of hardware nothing is announced, and no press is       *)
(* handled twice: the echoes are all that PressEcho repeats.               *)
(***************************************************************************)
THEOREM OnlyEchoesRepeat ==
  ASSUME Hardware \subseteq {FALSE}
  PROVE  Spec => []AppliedOnce
<1> DEFINE Unheard == /\ \A p \in Press : told[p] = {}
                      /\ \A h \in handling : h.at = "branch"
<1>1. Init => Unheard
  BY DEF Init
<1>2. EchoInv /\ Unheard /\ [Next]_vars => Unheard'
  <2> SUFFICES ASSUME EchoInv, Unheard, [Next]_vars
               PROVE  told' = told /\ \A h \in handling' : h.at = "branch"
    OBVIOUS
  <2>1. ASSUME NEW b \in Buttons, NEW h \in Hardware, ProgramPresses(b, h)
        PROVE  told' = told /\ \A g \in handling' : g.at = "branch"
    <3>1. h = FALSE
      OBVIOUS
    <3> QED BY <2>1, <3>1 DEF ProgramPresses, HandleButtonPress
  <2>2. ASSUME NEW c \in Browsers, NEW e \in outbox[c], HandleEvent(c, e)
        PROVE  told' = told /\ \A g \in handling' : g.at = "branch"
    BY <2>2 DEF HandleEvent, HandleButtonPress
  <2>3. ASSUME NEW h \in handling, Announce(h) PROVE FALSE
    BY <2>3 DEF Announce, InterruptKind
  <2>4. ASSUME UNCHANGED told, handling' \subseteq handling
        PROVE  told' = told /\ \A g \in handling' : g.at = "branch"
    BY <2>4
  <2>5. ASSUME NEW h \in handling, Branch(h) \/ Finish(h)
        PROVE  UNCHANGED told /\ handling' \subseteq handling
    BY <2>5 DEF Branch, Finish
  <2>6. ASSUME NEW c \in Browsers, Receive(c) \/ Disconnect(c) \/ Connect(c)
        PROVE  UNCHANGED told /\ handling' \subseteq handling
    BY <2>6 DEF Receive, Disconnect, Connect
  <2>7. ASSUME NEW c \in Browsers, NEW b \in Buttons, Click(c, b)
        PROVE  UNCHANGED told /\ handling' \subseteq handling
    BY <2>7 DEF Click
  <2>8. CASE Write \/ FinishWrite \/ UNCHANGED vars
    BY <2>4, <2>8 DEF Write, FinishWrite, vars
  <2> QED BY <2>1, <2>2, <2>3, <2>4, <2>5, <2>6, <2>7, <2>8 DEF Next, ServerStep
<1>3. EchoInv /\ Unheard => AppliedOnce
  <2> SUFFICES ASSUME EchoInv, Unheard, NEW p \in Press PROVE applied[p] <= 1
    BY DEF AppliedOnce
  <2>1. applied[p] \in Nat /\ Cardinality(told[p]) = 0
    BY FS_EmptySet DEF EchoInv, TypeInv
  <2>2. applied[p] <= 1 + Cardinality(told[p])
    BY EchoesWithin DEF EchoesEnd
  <2> QED BY <2>1, <2>2
<1> QED BY <1>1, <1>2, <1>3, EchoesBalance, PTL DEF Spec

-----------------------------------------------------------------------------
(***************************************************************************)
(* The promise about presses.  Every event carries the code of its press:  *)
(* an interrupt under way to a page, and what is under way from a page.    *)
(***************************************************************************)
Carries(s, codes) ==
  \A i \in DOMAIN s : s[i].kind \in InterruptKind => s[i].code = codes[s[i].press]

Answers(es, codes) ==
  \A e \in es : e.kind = "button_press" => e.code = codes[e.press]

CodesKept ==
  /\ \A c \in Browsers : Carries(inbox[c], pressed) /\ Answers(outbox[c], pressed)
  /\ \A h \in handling : h.event.code = pressed[h.event.press]
  /\ \A p \in Press : pressed[p] = NoButton <=> p > presses

LEMMA AppendCarries ==
  ASSUME NEW s \in Seq(InEvent), NEW e \in InEvent, NEW codes, Carries(s, codes),
         e.kind \in InterruptKind => e.code = codes[e.press]
  PROVE  Append(s, e) \in Seq(InEvent) /\ Carries(Append(s, e), codes)
<1> DEFINE t == Append(s, e)
<1>1. /\ DOMAIN s = 1..Len(s) /\ DOMAIN t = 1..(Len(s) + 1) /\ Len(s) \in Nat
      /\ \A i \in 1..Len(s) : t[i] = s[i]
      /\ t[Len(s) + 1] = e /\ t \in Seq(InEvent)
  OBVIOUS
<1> HIDE DEF t
<1>2. ASSUME NEW i \in DOMAIN t PROVE (i \in DOMAIN s /\ t[i] = s[i]) \/ t[i] = e
  <2>1. i \in 1..Len(s) \/ i = Len(s) + 1
    BY <1>1
  <2> QED BY <1>1, <2>1
<1>3. Carries(t, codes)
  BY <1>2 DEF Carries
<1> QED BY <1>1, <1>3 DEF t

LEMMA TailCarries ==
  ASSUME NEW s \in Seq(InEvent), s # << >>, NEW codes, Carries(s, codes)
  PROVE  /\ Carries(Tail(s), codes)
         /\ Head(s).kind \in InterruptKind => Head(s).code = codes[Head(s).press]
<1> DEFINE t == Tail(s)
<1>1. /\ Len(s) \in Nat /\ Len(s) > 0 /\ DOMAIN s = 1..Len(s)
      /\ DOMAIN t = 1..(Len(s) - 1)
      /\ \A i \in 1..(Len(s) - 1) : t[i] = s[i + 1]
      /\ Head(s) = s[1]
  OBVIOUS
<1> HIDE DEF t
<1>2. \A i \in DOMAIN t : i + 1 \in DOMAIN s /\ t[i] = s[i + 1]
  BY <1>1
<1>3. 1 \in DOMAIN s
  BY <1>1
<1> QED BY <1>1, <1>2, <1>3 DEF Carries, t

(* A new press disturbs no code under way: nothing of it is.               *)
LEMMA NewCode ==
  ASSUME TypeInv, CodesKept, NEW b \in Buttons, presses + 1 \in Press,
         pressed' = [pressed EXCEPT ![presses + 1] = b], NEW c \in Browsers
  PROVE  Carries(inbox[c], pressed') /\ Answers(outbox[c], pressed')
<1>1. presses \in Nat /\ pressed[presses + 1] = NoButton /\ NoButton \notin Buttons
  BY EchoAssumption DEF TypeInv, CodesKept
<1>2. \A p \in Press : pressed[p] # NoButton => pressed'[p] = pressed[p]
  BY <1>1 DEF TypeInv
<1>3. ASSUME NEW i \in DOMAIN inbox[c], inbox[c][i].kind \in InterruptKind
      PROVE  inbox[c][i].code = pressed'[inbox[c][i].press]
  <2>1. inbox[c][i] \in InEvent
    BY InboxType
  <2>2. inbox[c][i].press \in Press /\ inbox[c][i].code \in Buttons
    BY <1>3, <2>1 DEF InEvent, InterruptKind
  <2>3. inbox[c][i].code = pressed[inbox[c][i].press]
    BY <1>3 DEF CodesKept, Carries
  <2> QED BY <1>1, <1>2, <2>2, <2>3
<1>4. ASSUME NEW e \in outbox[c], e.kind = "button_press"
      PROVE  e.code = pressed'[e.press]
  <2>1. e.press \in Press /\ e.code \in Buttons
    BY <1>4, EchoFields
  <2>2. e.code = pressed[e.press]
    BY <1>4 DEF CodesKept, Answers
  <2> QED BY <1>1, <1>2, <2>1, <2>2
<1> QED BY <1>3, <1>4 DEF Carries, Answers

LEMMA NewCodeHandled ==
  ASSUME TypeInv, CodesKept, NEW b \in Buttons, presses + 1 \in Press,
         pressed' = [pressed EXCEPT ![presses + 1] = b], NEW h \in handling
  PROVE  h.event.code = pressed'[h.event.press]
<1>1. presses \in Nat /\ pressed[presses + 1] = NoButton /\ NoButton \notin Buttons
  BY EchoAssumption DEF TypeInv, CodesKept
<1>2. h.event.press \in Press /\ h.event.code \in Buttons
  BY HandlerFields
<1>3. h.event.code = pressed[h.event.press]
  BY DEF CodesKept
<1> QED BY <1>1, <1>2, <1>3 DEF TypeInv

LEMMA CodeOfNew ==
  ASSUME TypeInv, CodesKept, NEW b \in Buttons, presses + 1 \in Press,
         presses' = presses + 1, pressed' = [pressed EXCEPT ![presses + 1] = b]
  PROVE  /\ pressed'[presses + 1] = b
         /\ \A p \in Press : pressed'[p] = NoButton <=> p > presses'
<1>1. presses \in Nat /\ NoButton \notin Buttons
  BY EchoAssumption DEF TypeInv
<1>2. \A p \in Press : pressed'[p] = IF p = presses + 1 THEN b ELSE pressed[p]
  BY DEF TypeInv
<1>3. \A p \in Press : p \in Nat /\ (p > presses <=> p > presses + 1 \/ p = presses + 1)
  BY <1>1 DEF Press
<1> QED BY <1>1, <1>2, <1>3 DEF CodesKept

LEMMA CodesInit == Init => CodesKept
<1> SUFFICES ASSUME Init PROVE CodesKept
  OBVIOUS
<1>1. ASSUME NEW c \in Browsers
      PROVE  Carries(inbox[c], pressed) /\ Answers(outbox[c], pressed)
  <2>1. inbox[c] = << >> /\ outbox[c] = {} /\ DOMAIN << >> = {}
    BY DEF Init
  <2> QED BY <2>1 DEF Carries, Answers
<1>2. \A p \in Press : pressed[p] = NoButton /\ p > presses
  BY EchoAssumption DEF Init, Press
<1>3. handling = {}
  BY DEF Init
<1> QED BY <1>1, <1>2, <1>3 DEF CodesKept

(* What the server sends to the pages carries the code of its press.       *)
LEMMA BroadcastCarries ==
  ASSUME TypeInv, CodesKept, NEW e \in InEvent, Broadcast(e),
         e.kind \in InterruptKind => e.code = pressed[e.press]
  PROVE  \A d \in Browsers : Carries(inbox'[d], pressed)
<1> TAKE d \in Browsers
<1>1. inbox[d] \in Seq(InEvent) /\ Carries(inbox[d], pressed)
  BY InboxType DEF CodesKept
<1>2. Carries(Append(inbox[d], e), pressed)
  BY <1>1, AppendCarries
<1>3. inbox'[d] \in {inbox[d], Append(inbox[d], e)}
  BY DEF Broadcast
<1> QED BY <1>1, <1>2, <1>3

LEMMA CodesNext == TypeInv /\ CodesKept /\ [Next]_vars => CodesKept'
<1> SUFFICES ASSUME TypeInv, CodesKept, [Next]_vars PROVE CodesKept'
  OBVIOUS
<1> USE EchoAssumption
<1> DEFINE Kept(d) == Carries(inbox'[d], pressed') /\ Answers(outbox'[d], pressed')
<1> DEFINE HandledKept == \A h \in handling' : h.event.code = pressed'[h.event.press]
<1>0. /\ \A d \in Browsers : Carries(inbox[d], pressed) /\ Answers(outbox[d], pressed)
      /\ \A h \in handling : h.event.code = pressed[h.event.press]
      /\ \A p \in Press : pressed[p] = NoButton <=> p > presses
  BY DEF CodesKept
<1>a. ASSUME UNCHANGED <<pressed, presses>>, \A d \in Browsers : Kept(d), HandledKept
      PROVE  CodesKept'
  BY <1>0, <1>a DEF CodesKept
<1>b. ASSUME UNCHANGED <<pressed, presses>>, handling' \subseteq handling PROVE HandledKept
  BY <1>0, <1>b
<1>1. ASSUME NEW b \in Buttons, NEW h \in Hardware, ProgramPresses(b, h) PROVE CodesKept'
  <2>1. /\ presses + 1 \in Press /\ presses' = presses + 1
        /\ pressed' = [pressed EXCEPT ![presses + 1] = b]
        /\ UNCHANGED <<inbox, outbox>>
    BY <1>1 DEF ProgramPresses, Press, TypeInv
  <2>2. /\ pressed'[presses + 1] = b
        /\ \A p \in Press : pressed'[p] = NoButton <=> p > presses'
    BY <2>1, CodeOfNew
  <2>3. ASSUME NEW d \in Browsers PROVE Kept(d)
    BY <2>1, NewCode
  <2>4. HandledKept
    <3> DEFINE n == [from |-> "program", event |-> ButtonPress(presses + 1, b, "program"),
                     at |-> IF h THEN "hardware_interrupt" ELSE "branch"]
    <3>1. handling' = handling \cup {n}
      BY <1>1 DEF ProgramPresses, HandleButtonPress
    <3>2. n.event.code = b /\ n.event.press = presses + 1
      BY DEF ButtonPress
    <3> HIDE DEF n
    <3>3. \A g \in handling : g.event.code = pressed'[g.event.press]
      BY <2>1, NewCodeHandled
    <3> QED BY <2>2, <3>1, <3>2, <3>3
  <2> QED BY <2>2, <2>3, <2>4 DEF CodesKept
<1>2. ASSUME NEW c \in Browsers, NEW b \in Buttons, Click(c, b) PROVE CodesKept'
  <2>1. /\ presses + 1 \in Press /\ presses' = presses + 1 /\ inbox' = inbox
        /\ pressed' = [pressed EXCEPT ![presses + 1] = b]
    BY <1>2 DEF Click, Press, TypeInv
  <2>2. /\ pressed'[presses + 1] = b
        /\ \A p \in Press : pressed'[p] = NoButton <=> p > presses'
    BY <2>1, CodeOfNew
  <2>3. ASSUME NEW d \in Browsers PROVE Kept(d)
    <3>1. Carries(inbox[d], pressed') /\ Answers(outbox[d], pressed')
      BY <2>1, NewCode
    <3> DEFINE e == ButtonPress(presses + 1, b, "click")
    <3>2. outbox'[d] \subseteq outbox[d] \cup {e}
      BY <1>2 DEF Click, TypeInv
    <3>3. e.press = presses + 1 /\ e.code = b
      BY DEF ButtonPress
    <3> HIDE DEF e
    <3>4. Answers(outbox'[d], pressed')
      BY <2>2, <3>1, <3>2, <3>3 DEF Answers
    <3> QED BY <2>1, <3>1, <3>4
  <2>4. HandledKept
    <3>1. handling' = handling
      BY <1>2 DEF Click
    <3> QED BY <2>1, <3>1, NewCodeHandled
  <2> QED BY <2>2, <2>3, <2>4 DEF CodesKept
<1>3. ASSUME NEW c \in Browsers, NEW e \in outbox[c], HandleEvent(c, e) PROVE CodesKept'
  <2>1. UNCHANGED <<pressed, presses>> /\ \A d \in Browsers : outbox'[d] \subseteq outbox[d]
    BY <1>3 DEF HandleEvent, TypeInv
  <2>2. ASSUME NEW d \in Browsers PROVE Answers(outbox'[d], pressed')
    BY <1>0, <2>1 DEF Answers
  <2>3. CASE e.kind = "button_press" /\ HandleButtonPress(c, e, FALSE) /\ inbox' = inbox
    <3>1. e.code = pressed[e.press]
      BY <1>0, <2>3 DEF Answers
    <3>2. handling' = handling \cup {[from |-> c, event |-> e, at |-> "branch"]}
      BY <2>3 DEF HandleButtonPress
    <3>3. HandledKept
      BY <1>0, <2>1, <3>1, <3>2
    <3>4. \A d \in Browsers : Kept(d)
      BY <1>0, <2>1, <2>2, <2>3
    <3> QED BY <1>a, <2>1, <3>3, <3>4
  <2>4. CASE /\ inbox' = [inbox EXCEPT ![c] = Append(@, StateUpdate(tv))]
             /\ UNCHANGED <<tv, applied, handling>>
    <3>1. StateUpdate(tv) \in InEvent /\ StateUpdate(tv).kind \notin InterruptKind
      BY StateUpdateType DEF TypeInv
    <3>2. ASSUME NEW d \in Browsers PROVE Carries(inbox'[d], pressed)
      <4>1. Carries(Append(inbox[d], StateUpdate(tv)), pressed)
        BY <1>0, <3>1, InboxType, AppendCarries
      <4>2. inbox'[d] \in {inbox[d], Append(inbox[d], StateUpdate(tv))}
        BY <2>4 DEF TypeInv
      <4> QED BY <1>0, <4>1, <4>2
    <3>3. HandledKept
      BY <1>b, <2>1, <2>4
    <3> QED BY <1>a, <2>1, <2>2, <3>2, <3>3
  <2> QED BY <1>3, <2>3, <2>4 DEF HandleEvent
<1>4. ASSUME NEW c \in Browsers, Receive(c) PROVE CodesKept'
  <2>1. UNCHANGED <<pressed, presses>> /\ inbox[c] # << >> /\ inbox[c] \in Seq(InEvent)
    BY <1>4, InboxType DEF Receive
  <2> DEFINE e == Head(inbox[c])
             a == ButtonPress(e.press, e.code, e.kind)
  <2>2. /\ Carries(Tail(inbox[c]), pressed)
        /\ e.kind \in InterruptKind => e.code = pressed[e.press]
    BY <1>0, <2>1, TailCarries
  <2>3. ASSUME NEW d \in Browsers PROVE Carries(inbox'[d], pressed)
    <3>1. inbox'[d] \in {inbox[d], Tail(inbox[c])}
      BY <1>4 DEF Receive, TypeInv
    <3> QED BY <1>0, <2>2, <3>1
  <2>4. ASSUME NEW d \in Browsers PROVE Answers(outbox'[d], pressed)
    <3>1. a.press = e.press /\ a.code = e.code
      BY DEF ButtonPress
    <3>2. \/ outbox'[d] \subseteq outbox[d]
          \/ e.kind \in InterruptKind /\ outbox'[d] \subseteq outbox[d] \cup {a}
      BY <1>4 DEF Receive, TypeInv
    <3> HIDE DEF a, e
    <3> QED BY <1>0, <2>2, <3>1, <3>2 DEF Answers
  <2>9. HandledKept
    <3>1. UNCHANGED <<pressed, presses, handling>>
      BY <1>4 DEF Receive
    <3> QED BY <1>b, <3>1
  <2> QED BY <1>a, <2>9, <2>1, <2>3, <2>4
<1>5. ASSUME NEW c \in Browsers, Disconnect(c) PROVE CodesKept'
  <2>1. UNCHANGED <<pressed, presses>>
    BY <1>5 DEF Disconnect
  <2>2. ASSUME NEW d \in Browsers PROVE Kept(d)
    <3>1. \/ inbox'[d] = inbox[d] /\ outbox'[d] = outbox[d]
          \/ inbox'[d] = << >> /\ outbox'[d] = {}
      BY <1>5 DEF Disconnect, TypeInv
    <3> QED BY <1>0, <2>1, <3>1 DEF Carries, Answers
  <2>9. HandledKept
    <3>1. UNCHANGED <<pressed, presses, handling>>
      BY <1>5 DEF Disconnect
    <3> QED BY <1>b, <3>1
  <2> QED BY <1>a, <2>9, <2>1, <2>2
<1>6. ASSUME NEW c \in Browsers, Connect(c) PROVE CodesKept'
  <2>1. UNCHANGED <<pressed, presses>>
    BY <1>6 DEF Connect
  <2>2. ASSUME NEW d \in Browsers PROVE Kept(d)
    <3>1. \/ inbox'[d] = inbox[d] /\ outbox'[d] = outbox[d]
          \/ inbox'[d] = << StateUpdate(tv) >> /\ outbox'[d] = {RequestState}
      BY <1>6 DEF Connect, TypeInv
    <3>2. /\ << StateUpdate(tv) >>[1].kind \notin InterruptKind
          /\ DOMAIN << StateUpdate(tv) >> = {1} /\ RequestState.kind # "button_press"
      BY DEF StateUpdate, InterruptKind, RequestState
    <3> QED BY <1>0, <2>1, <3>1, <3>2 DEF Carries, Answers
  <2>9. HandledKept
    <3>1. UNCHANGED <<pressed, presses, handling>>
      BY <1>6 DEF Connect
    <3> QED BY <1>b, <3>1
  <2> QED BY <1>a, <2>9, <2>1, <2>2
<1>7. ASSUME UNCHANGED <<pressed, presses, outbox>>, handling' \subseteq handling,
             \A d \in Browsers : Carries(inbox'[d], pressed)
      PROVE  CodesKept'
  <2>1. HandledKept
    BY <1>b, <1>7
  <2> QED BY <1>0, <1>a, <1>7, <2>1
<1>8. ASSUME Broadcast(StateUpdate(tv)) PROVE \A d \in Browsers : Carries(inbox'[d], pressed)
  <2>1. StateUpdate(tv) \in InEvent /\ StateUpdate(tv).kind \notin InterruptKind
    BY StateUpdateType DEF TypeInv
  <2> QED BY <1>8, <2>1, BroadcastCarries
<1>9. ASSUME NEW h \in handling, Announce(h) PROVE CodesKept'
  <2>1. /\ h \in Handler /\ h.event.press \in Press /\ h.event.code \in Buttons
        /\ h.at \in InterruptKind /\ h.event.code = pressed[h.event.press]
    BY <1>0, <1>9, HandlerFields DEF Announce
  <2>2. PICK i \in InEvent : i = Interrupt(h.at, h.event.press, h.event.code)
    BY <2>1, InterruptType
  <2>3. i.code = pressed[i.press] /\ Broadcast(i) /\ UNCHANGED <<pressed, presses, outbox>>
    BY <1>9, <2>1, <2>2, InterruptType DEF Announce
  <2>4. \A d \in Browsers : Carries(inbox'[d], pressed)
    BY <2>3, BroadcastCarries
  <2>5. HandledKept
    <3>1. handling' = (handling \ {h}) \cup {Next1(h)}
      BY <1>9 DEF Announce, Next1
    <3>2. Next1(h).event = h.event
      BY <2>1, AfterAnnounce
    <3> QED BY <1>0, <2>1, <2>3, <3>1, <3>2
  <2> QED BY <1>0, <1>a, <2>3, <2>4, <2>5
<1>10. ASSUME NEW h \in handling, Finish(h) PROVE CodesKept'
  BY <1>7, <1>8, <1>10 DEF Finish
<1>11. CASE FinishWrite
  BY <1>7, <1>8, <1>11 DEF FinishWrite
<1>12. ASSUME NEW h \in handling, Branch(h) PROVE CodesKept'
  BY <1>0, <1>7, <1>12 DEF Branch
<1>13. CASE Write
  BY <1>0, <1>7, <1>13 DEF Write
<1>14. CASE UNCHANGED vars
  BY <1>0, <1>7, <1>14 DEF vars
<1> QED BY <1>1, <1>2, <1>3, <1>4, <1>5, <1>6, <1>9, <1>10, <1>11, <1>12, <1>13, <1>14
        DEF Next, ServerStep

(***************************************************************************)
(* How often a press can have been applied, as the promise counts it.      *)
(***************************************************************************)
Within(p) ==
  /\ told[p] = {} => applied[p] <= 1
  /\ applied[p] <= 1 + 2 * Cardinality(Browsers)

LEMMA WithinEchoes == EchoInv => \A p \in Press : Within(p)
<1> SUFFICES ASSUME EchoInv, NEW p \in Press PROVE Within(p)
  OBVIOUS
<1>1. applied[p] \in Nat /\ applied[p] <= 1 + Cardinality(told[p])
  BY EchoesWithin DEF EchoInv, TypeInv, EchoesEnd
<1>2. /\ Cardinality(told[p]) \in Nat /\ Cardinality(Browsers) \in Nat
      /\ Cardinality(told[p]) <= 2 * Cardinality(Browsers)
  BY FiniteTold DEF EchoInv
<1>3. told[p] = {} => Cardinality(told[p]) = 0
  BY FS_EmptySet
<1> QED BY <1>1, <1>2, <1>3 DEF Within

LEMMA WithinNext == EchoInv' => \A p \in Press : Within(p)'
<1> DEFINE All == \A p \in Press : Within(p)
<1>1. EchoInv => All
  BY WithinEchoes
<1> HIDE DEF All
<1>2. EchoInv' => All'
  BY <1>1, PTL
<1> QED BY <1>2 DEF All

(* The presses that are being handled, and those pages were told of.       *)
Handled == { <<h.event.press, h.event.code>> : h \in handling }

Heard == { p \in Press : told[p] # {} }

(* A program's press and what arrives from a page, as steps of the promise. *)
LEMMA ProgramPromised ==
  ASSUME EchoInv, CodesKept, NEW b \in Buttons, NEW h \in Hardware, ProgramPresses(b, h)
  PROVE  Promise!Next
<1>0. TypeInv
  BY DEF EchoInv
<1>1. presses \in Nat /\ presses + 1 \in Press /\ presses + 1 > presses
  BY <1>0, EchoAssumption DEF ProgramPresses, TypeInv, Press
<1>p. PICK p \in Press : p = presses + 1
  BY <1>1
<1> DEFINE n == [from |-> "program", event |-> ButtonPress(p, b, "program"),
                 at |-> IF h THEN "hardware_interrupt" ELSE "branch"]
<1>2. /\ pressed' = [pressed EXCEPT ![p] = b] /\ handling' = handling \cup {n}
      /\ applied' = [applied EXCEPT ![p] = @ + 1] /\ told' = told
  BY <1>p DEF ProgramPresses, HandleButtonPress, ButtonPress
<1>3. n.event.press = p /\ n.event.code = b
  BY DEF ButtonPress
<1> HIDE DEF n
<1>4. Handled' = Handled \cup {<<p, b>>} /\ Heard' = Heard
  BY <1>2, <1>3 DEF Handled, Heard
<1>5. pressed[p] = NoButton
  BY <1>1, <1>p DEF CodesKept
<1>6. Promise!Program(p, b)
  BY <1>2, <1>4, <1>5 DEF Promise!Program, Handled, Heard
<1> QED BY <1>6 DEF Promise!Next

LEMMA ArrivalPromised ==
  ASSUME EchoInv, EchoInv', CodesKept, NEW c \in Browsers, NEW e \in outbox[c],
         e.kind = "button_press", HandleButtonPress(c, e, FALSE),
         UNCHANGED <<pressed, told>>
  PROVE  Promise!Next
<1>1. TypeInv /\ NoButton \notin Buttons
  BY EchoAssumption DEF EchoInv
<1>2. PICK p \in Press : p = e.press /\ e.code \in Buttons
  BY <1>1, EchoFields
<1>3. pressed[p] = e.code /\ pressed[p] # NoButton
  BY <1>1, <1>2 DEF CodesKept, Answers
<1> DEFINE n == [from |-> c, event |-> e, at |-> "branch"]
<1>4. applied' = [applied EXCEPT ![p] = @ + 1] /\ handling' = handling \cup {n}
  BY <1>2 DEF HandleButtonPress
<1>4a. n.event.press = p /\ n.event.code = pressed[p]
  BY <1>2, <1>3
<1> HIDE DEF n
<1>4b. Handled' = Handled \cup {<<p, pressed[p]>>} /\ Heard' = Heard
  BY <1>4, <1>4a DEF Handled, Heard
<1>5. applied[p] \in Nat /\ applied'[p] = applied[p] + 1
  BY <1>1, <1>4 DEF TypeInv
<1>6. /\ told'[p] = {} => applied'[p] <= 1
      /\ applied'[p] <= 1 + 2 * Cardinality(Browsers)
  BY WithinNext DEF Within
<1>c. Cardinality(Browsers) \in Nat
  BY EchoAssumption, FS_CardinalityType
<1>7. applied[p] < IF p \in Heard THEN 1 + 2 * Cardinality(Browsers) ELSE 1
  <2>1. told[p] = {} => applied[p] < 1
    BY <1>5, <1>6
  <2>2. applied[p] < 1 + 2 * Cardinality(Browsers)
    BY <1>c, <1>5, <1>6
  <2> QED BY <2>1, <2>2 DEF Heard
<1>8. Promise!Arrive(p)
  BY <1>3, <1>4, <1>4b, <1>7 DEF Promise!Arrive, Handled, Heard
<1> QED BY <1>8 DEF Promise!Next

LEMMA AnnouncePromised ==
  ASSUME EchoInv, CodesKept, NEW h \in handling, Announce(h)
  PROVE  [Promise!Next]_Promise!vars
<1>1. TypeInv /\ h \in Handler /\ h.event.press \in Press
  BY HandlerFields DEF EchoInv
<1>p. PICK p \in Press : p = h.event.press
  BY <1>1
<1>2. /\ handling' = (handling \ {h}) \cup {Next1(h)} /\ Next1(h).event = h.event
      /\ told' = [told EXCEPT ![p] = @ \cup (Online \X {h.at})]
      /\ UNCHANGED <<pressed, applied>>
  BY <1>1, <1>p, AfterAnnounce DEF Announce, Next1
<1>3. Handled' = Handled
  BY <1>2 DEF Handled
<1>4. <<p, pressed[p]>> \in Handled
  BY <1>p DEF CodesKept, Handled
<1>5. CASE Online = {}
  <2>1. told' = told
    BY <1>1, <1>2, <1>5 DEF TypeInv
  <2>2. Heard' = Heard
    BY <2>1 DEF Heard
  <2> QED BY <1>2, <1>3, <2>2 DEF Promise!vars, Handled, Heard
<1>6. CASE Online # {}
  <2>1. \A q \in Press : told'[q] = IF q = p THEN told[p] \cup (Online \X {h.at})
                                             ELSE told[q]
    BY <1>1, <1>2 DEF TypeInv
  <2>2. told[p] \cup (Online \X {h.at}) # {}
    <3>1. PICK c \in Online : TRUE
      BY <1>6
    <3>2. <<c, h.at>> \in Online \X {h.at}
      BY <3>1
    <3> QED BY <3>2
  <2>3. Heard' = Heard \cup {p}
    BY <2>1, <2>2 DEF Heard
  <2>4. Promise!Announce(p)
    BY <1>2, <1>3, <1>4, <2>3 DEF Promise!Announce, Handled, Heard
  <2> QED BY <2>4 DEF Promise!Next
<1> QED BY <1>5, <1>6

(* A handler is done, unless another one is under way for the same press.  *)
LEMMA FinishPromised ==
  ASSUME EchoInv, CodesKept, NEW h \in handling, Finish(h)
  PROVE  [Promise!Next]_Promise!vars
<1>1. TypeInv /\ h.event.press \in Press
  BY HandlerFields DEF EchoInv
<1>p. PICK p \in Press : p = h.event.press
  BY <1>1
<1>2. h.event.code = pressed[p]
  BY <1>p DEF CodesKept
<1>3. /\ handling' = handling \ {h} /\ told' = told
      /\ UNCHANGED <<pressed, applied>>
  BY DEF Finish
<1>4. Heard' = Heard
  BY <1>3 DEF Heard
<1> DEFINE Pair(g) == <<g.event.press, g.event.code>>
<1>5. CASE \E g \in handling : g # h /\ Pair(g) = Pair(h)
  <2>1. Handled' = Handled
    BY <1>3, <1>5 DEF Handled
  <2> QED BY <1>3, <1>4, <2>1 DEF Promise!vars, Handled, Heard
<1>6. CASE \A g \in handling : g # h => Pair(g) # Pair(h)
  <2>1. Handled' = Handled \ {Pair(h)}
    BY <1>3, <1>6 DEF Handled
  <2>2. Pair(h) = <<p, pressed[p]>>
    BY <1>p, <1>2
  <2>3. Promise!Done(p)
    BY <1>3, <1>4, <2>1, <2>2 DEF Promise!Done, Handled, Heard
  <2> QED BY <2>3 DEF Promise!Next
<1> QED BY <1>5, <1>6

LEMMA PromiseNext ==
  EchoInv /\ EchoInv' /\ CodesKept /\ [Next]_vars => [Promise!Next]_Promise!vars
<1> SUFFICES ASSUME EchoInv, EchoInv', CodesKept, [Next]_vars
             PROVE  [Promise!Next]_Promise!vars
  OBVIOUS
<1>a. ASSUME UNCHANGED <<handling, pressed, applied, told>> PROVE UNCHANGED Promise!vars
  BY <1>a DEF Promise!vars
<1>1. ASSUME NEW b \in Buttons, NEW h \in Hardware, ProgramPresses(b, h)
      PROVE  Promise!Next
  BY <1>1, ProgramPromised
<1>2. ASSUME NEW c \in Browsers, NEW b \in Buttons, Click(c, b) PROVE Promise!Next
  <2>1. PICK p \in Press : p = presses + 1 /\ p > presses
    BY <1>2 DEF Click, EchoInv, TypeInv, Press
  <2>2. pressed[p] = NoButton
    BY <2>1 DEF CodesKept
  <2>3. Promise!Click(p, b)
    BY <1>2, <2>1, <2>2 DEF Click, Promise!Click
  <2> QED BY <2>3 DEF Promise!Next
<1>3. ASSUME NEW c \in Browsers, NEW e \in outbox[c], HandleEvent(c, e)
      PROVE  [Promise!Next]_Promise!vars
  <2>1. UNCHANGED <<pressed, told>>
    BY <1>3 DEF HandleEvent
  <2>2. CASE e.kind = "button_press" /\ HandleButtonPress(c, e, FALSE)
    BY <2>1, <2>2, ArrivalPromised
  <2>3. CASE UNCHANGED <<tv, applied, handling>>
    BY <1>a, <2>1, <2>3
  <2> QED BY <1>3, <2>2, <2>3 DEF HandleEvent
<1>4. ASSUME NEW c \in Browsers, Receive(c) \/ Disconnect(c) \/ Connect(c)
      PROVE  UNCHANGED Promise!vars
  BY <1>4, <1>a DEF Receive, Disconnect, Connect
<1>5. ASSUME NEW h \in handling, Announce(h) \/ Finish(h)
      PROVE  [Promise!Next]_Promise!vars
  BY <1>5, AnnouncePromised, FinishPromised
<1>6. ASSUME NEW h \in handling, Branch(h) PROVE UNCHANGED Promise!vars
  BY <1>6, <1>a DEF Branch
<1>7. CASE Write \/ FinishWrite \/ UNCHANGED vars
  BY <1>7, <1>a DEF Write, FinishWrite, vars
<1> QED BY <1>1, <1>2, <1>3, <1>4, <1>5, <1>6, <1>7 DEF Next, ServerStep

(***************************************************************************)
(* Server and pages together implement the promise about presses, for any  *)
(* number of pages, threads, presses and lost connections and any order of *)
(* events: only presses that were made are handled, each with its own code *)
(* and once, and again only as an echo of a press that pages were told of  *)
(* (handle_button_press, handleButtonPressInterrupt).                      *)
(***************************************************************************)
THEOREM PromiseIsKept == Spec => KeepsPressPromise
<1>1. Init => Promise!Init
  BY DEF Init, Promise!Init
<1> QED BY <1>1, PromiseNext, CodesInit, CodesNext, TypeCorrect, EchoesBalance, PTL
        DEF Spec, KeepsPressPromise, Promise!Spec

-----------------------------------------------------------------------------

-----------------------------------------------------------------------------
(***************************************************************************)
(* What a page will show: its view is the state once the updates in a      *)
(* queue have arrived, if the last of them is, or it already shows it.     *)
(***************************************************************************)
UpdatesIn(s) == { i \in DOMAIN s : s[i].kind = "tv_state_update" }

Current(s, shown, state) ==
  /\ \A i \in UpdatesIn(s) : (\A j \in UpdatesIn(s) : j <= i) => s[i].state = state
  /\ UpdatesIn(s) = {} => shown = state

Shows ==
  handling = {} /\ writers = 0 =>
    \A c \in Browsers : connected[c] => Current(inbox[c], view[c], tv)

LEMMA InStepCurrent == PagesInStep <=> Shows
BY DEF PagesInStep, Shows, UpdatesTo, Current, UpdatesIn

LEMMA AppendCurrent ==
  ASSUME NEW s \in Seq(InEvent), NEW shown, NEW state \in States
  PROVE  Current(Append(s, StateUpdate(state)), shown, state)
<1> DEFINE u == StateUpdate(state)
           t == Append(s, u)
           n == Len(s) + 1
<1>1. u \in InEvent /\ u.kind = "tv_state_update" /\ u.state = state
  BY DEF StateUpdate, InEvent
<1> HIDE DEF u
<1>2. Len(s) \in Nat /\ DOMAIN t = 1..n /\ t[n] = u
  BY <1>1
<1> HIDE DEF t
<1>3. n \in UpdatesIn(t)
  BY <1>1, <1>2 DEF UpdatesIn
<1>4. ASSUME NEW i \in UpdatesIn(t), \A j \in UpdatesIn(t) : j <= i
      PROVE  t[i].state = state
  <2>1. i \in 1..n /\ n <= i
    BY <1>2, <1>3, <1>4 DEF UpdatesIn
  <2>2. i = n
    BY <1>2, <2>1
  <2> QED BY <1>1, <1>2, <2>2
<1> QED BY <1>3, <1>4 DEF Current, t, u

LEMMA TailCurrent ==
  ASSUME NEW s \in Seq(InEvent), s # << >>, NEW shown, NEW state,
         Current(s, shown, state)
  PROVE  Current(Tail(s), IF Head(s).kind = "tv_state_update"
                          THEN Head(s).state ELSE shown, state)
<1> DEFINE t == Tail(s)
           e == Head(s)
<1>1. /\ Len(s) \in Nat /\ Len(s) > 0 /\ DOMAIN s = 1..Len(s)
      /\ DOMAIN t = 1..(Len(s) - 1)
      /\ \A i \in 1..(Len(s) - 1) : t[i] = s[i + 1]
      /\ e = s[1]
  OBVIOUS
<1> HIDE DEF t, e
<1>2. \A i \in UpdatesIn(t) : i \in Int /\ i + 1 \in UpdatesIn(s) /\ t[i] = s[i + 1]
                              /\ i >= 1
  BY <1>1 DEF UpdatesIn
<1>3. ASSUME NEW j \in UpdatesIn(s), j # 1 PROVE j - 1 \in UpdatesIn(t) /\ j \in Int
  <2>1. j \in Int /\ j - 1 \in 1..(Len(s) - 1) /\ (j - 1) + 1 = j
    BY <1>1, <1>3 DEF UpdatesIn
  <2>2. t[j - 1] = s[(j - 1) + 1]
    BY <1>1, <2>1
  <2>3. t[j - 1].kind = "tv_state_update"
    BY <2>1, <2>2 DEF UpdatesIn
  <2> QED BY <1>1, <2>1, <2>3 DEF UpdatesIn
<1>4. ASSUME NEW i \in UpdatesIn(t), \A j \in UpdatesIn(t) : j <= i
      PROVE  t[i].state = state
  <2>1. i \in Int /\ i + 1 \in UpdatesIn(s) /\ t[i] = s[i + 1] /\ i >= 1
    BY <1>2
  <2>2. ASSUME NEW j \in UpdatesIn(s) PROVE j <= i + 1
    <3>1. CASE j = 1
      BY <2>1, <3>1
    <3>2. CASE j # 1
      <4>1. j - 1 \in UpdatesIn(t) /\ j \in Int
        BY <1>3, <3>2
      <4>2. j - 1 <= i
        BY <1>4, <4>1
      <4> QED BY <2>1, <4>1, <4>2
    <3> QED BY <3>1, <3>2
  <2>3. s[i + 1].state = state
    BY <2>1, <2>2 DEF Current
  <2> QED BY <2>1, <2>3
<1>5. ASSUME UpdatesIn(t) = {}
      PROVE  (IF e.kind = "tv_state_update" THEN e.state ELSE shown) = state
  <2>1. \A j \in UpdatesIn(s) : j = 1
    BY <1>3, <1>5
  <2>2. 1 \in UpdatesIn(s) <=> e.kind = "tv_state_update"
    BY <1>1 DEF UpdatesIn
  <2>3. CASE e.kind = "tv_state_update"
    <3>1. \A j \in UpdatesIn(s) : j <= 1
      BY <2>1
    <3>2. s[1].state = state
      BY <2>2, <2>3, <3>1 DEF Current
    <3> QED BY <1>1, <2>3, <3>2
  <2>4. CASE e.kind # "tv_state_update"
    <3>1. UpdatesIn(s) = {}
      BY <2>1, <2>2, <2>4
    <3>2. shown = state
      BY <3>1 DEF Current
    <3> QED BY <2>4, <3>2
  <2> QED BY <2>3, <2>4
<1> QED BY <1>4, <1>5 DEF Current, t, e

(* A broadcast of the state brings every page up to date that is connected. *)
LEMMA BroadcastCurrent ==
  ASSUME TypeInv, Broadcast(StateUpdate(tv)), NEW d \in Browsers, connected[d], NEW shown
  PROVE  Current(inbox'[d], shown, tv)
<1>1. inbox[d] \in Seq(InEvent) /\ tv \in States
  BY InboxType DEF TypeInv
<1>2. inbox'[d] = Append(inbox[d], StateUpdate(tv))
  BY DEF Broadcast
<1> QED BY <1>1, <1>2, AppendCurrent

LEMMA ShowsInit == Init => Shows
<1> SUFFICES ASSUME Init, NEW c \in Browsers PROVE Current(<< >>, InitTv, InitTv)
  BY DEF Init, Shows
<1>1. UpdatesIn(<< >>) = {}
  BY DEF UpdatesIn
<1> QED BY <1>1 DEF Current

LEMMA ShowsNext == TypeInv /\ Shows /\ [Next]_vars => Shows'
<1> SUFFICES ASSUME TypeInv, Shows, [Next]_vars, NEW d \in Browsers, connected'[d],
                    handling' = {}, writers' = 0
             PROVE  Current(inbox'[d], view'[d], tv')
  BY DEF Shows
<1> USE EchoAssumption
<1>0. ASSUME UNCHANGED <<handling, writers>>
      PROVE  \A c \in Browsers : connected[c] => Current(inbox[c], view[c], tv)
  BY <1>0 DEF Shows
<1>1. ASSUME NEW b \in Buttons, NEW h \in Hardware, ProgramPresses(b, h)
      PROVE  Current(inbox'[d], view'[d], tv')
  BY <1>1 DEF ProgramPresses, HandleButtonPress
<1>2. ASSUME NEW c \in Browsers, NEW b \in Buttons, Click(c, b)
      PROVE  Current(inbox'[d], view'[d], tv')
  BY <1>0, <1>2 DEF Click
<1>3. ASSUME NEW c \in Browsers, NEW e \in outbox[c], HandleEvent(c, e)
      PROVE  Current(inbox'[d], view'[d], tv')
  <2>1. connected[d] /\ view' = view /\ writers' = writers
    BY <1>3 DEF HandleEvent
  <2>2. CASE HandleButtonPress(c, e, FALSE)
    BY <2>2 DEF HandleButtonPress
  <2>3. CASE /\ inbox' = [inbox EXCEPT ![c] = Append(@, StateUpdate(tv))]
             /\ UNCHANGED <<tv, applied, handling>>
    <3>1. CASE d = c
      <4>1. inbox'[d] = Append(inbox[d], StateUpdate(tv)) /\ tv' = tv /\ tv \in States
        BY <2>3, <3>1 DEF TypeInv
      <4>2. inbox[d] \in Seq(InEvent)
        BY InboxType
      <4>3. Current(Append(inbox[d], StateUpdate(tv)), view'[d], tv)
        BY <4>1, <4>2, AppendCurrent
      <4> QED BY <4>1, <4>3
    <3>2. CASE d # c
      <4>1. inbox'[d] = inbox[d]
        BY <2>3, <3>2 DEF TypeInv
      <4> QED BY <1>0, <2>1, <2>3, <4>1
    <3> QED BY <3>1, <3>2
  <2> QED BY <1>3, <2>2, <2>3 DEF HandleEvent
<1>4. ASSUME NEW c \in Browsers, Receive(c) PROVE Current(inbox'[d], view'[d], tv')
  <2>0. UNCHANGED <<handling, writers>>
    BY <1>4 DEF Receive
  <2>1. connected[d] /\ tv' = tv
    BY <1>4 DEF Receive
  <2>2. CASE d = c
    <3>1. inbox[d] \in Seq(InEvent) /\ inbox[d] # << >>
      BY <1>4, <2>2, InboxType DEF Receive
    <3>2. Current(inbox[d], view[d], tv)
      BY <1>0, <2>0, <2>1
    <3>3. inbox'[d] = Tail(inbox[d])
      BY <1>4, <2>2 DEF Receive, TypeInv
    <3>4. view'[d] = IF Head(inbox[d]).kind = "tv_state_update"
                     THEN Head(inbox[d]).state ELSE view[d]
      BY <1>4, <2>2 DEF Receive, TypeInv, InterruptKind
    <3>5. Current(Tail(inbox[d]), IF Head(inbox[d]).kind = "tv_state_update"
                                  THEN Head(inbox[d]).state ELSE view[d], tv)
      BY <3>1, <3>2, TailCurrent
    <3> QED BY <2>1, <3>3, <3>4, <3>5
  <2>3. CASE d # c
    <3>1. inbox'[d] = inbox[d] /\ view'[d] = view[d]
      BY <1>4, <2>3 DEF Receive, TypeInv
    <3> QED BY <1>0, <2>0, <2>1, <3>1
  <2> QED BY <2>2, <2>3
<1>5. ASSUME NEW c \in Browsers, Disconnect(c)
      PROVE  Current(inbox'[d], view'[d], tv')
  <2>0. UNCHANGED <<handling, writers>>
    BY <1>5 DEF Disconnect
  <2>1. d # c /\ inbox'[d] = inbox[d] /\ connected[d] /\ view' = view /\ tv' = tv
    BY <1>5 DEF Disconnect, TypeInv
  <2> QED BY <1>0, <2>0, <2>1
<1>6. ASSUME NEW c \in Browsers, Connect(c)
      PROVE  Current(inbox'[d], view'[d], tv')
  <2>0. UNCHANGED <<handling, writers>>
    BY <1>6 DEF Connect
  <2>1. view' = view /\ tv' = tv /\ tv \in States
    BY <1>6 DEF Connect, TypeInv
  <2>2. CASE d = c
    <3>1. inbox'[d] = << StateUpdate(tv) >>
      BY <1>6, <2>2 DEF Connect, TypeInv
    <3>2. << >> \in Seq(InEvent) /\ Append(<< >>, StateUpdate(tv)) = << StateUpdate(tv) >>
      OBVIOUS
    <3>3. Current(Append(<< >>, StateUpdate(tv)), view'[d], tv)
      BY <2>1, <3>2, AppendCurrent
    <3> QED BY <2>1, <3>1, <3>2, <3>3
  <2>3. CASE d # c
    <3>1. inbox'[d] = inbox[d] /\ connected[d]
      BY <1>6, <2>3 DEF Connect, TypeInv
    <3> QED BY <1>0, <2>0, <2>1, <3>1
  <2> QED BY <2>2, <2>3
<1>7. ASSUME NEW h \in handling, Announce(h) PROVE FALSE
  BY <1>7 DEF Announce
<1>8. ASSUME NEW h \in handling, Branch(h) PROVE FALSE
  BY <1>8 DEF Branch
<1>9. ASSUME NEW h \in handling, Finish(h) PROVE Current(inbox'[d], view'[d], tv')
  <2>1. Broadcast(StateUpdate(tv)) /\ connected[d] /\ tv' = tv
    BY <1>9 DEF Finish
  <2> QED BY <2>1, BroadcastCurrent
<1>10. CASE Write
  BY <1>10 DEF Write, TypeInv
<1>11. CASE FinishWrite
  <2>1. Broadcast(StateUpdate(tv)) /\ connected[d] /\ tv' = tv
    BY <1>11 DEF FinishWrite
  <2> QED BY <2>1, BroadcastCurrent
<1>12. CASE UNCHANGED vars
  BY <1>0, <1>12 DEF vars
<1> QED BY <1>1, <1>2, <1>3, <1>4, <1>5, <1>6, <1>7, <1>8, <1>9, <1>10, <1>11, <1>12
        DEF Next, ServerStep

(***************************************************************************)
(* While no thread is between its store and its broadcast, a connected     *)
(* page has the server's state ahead of it or shows it, for any number of  *)
(* pages, threads and lost connections (handle_button_press,               *)
(* handle_connect, handle_request_state).                                  *)
(***************************************************************************)
THEOREM PagesStayInStep == Spec => []PagesInStep
BY InStepCurrent, ShowsInit, ShowsNext, TypeCorrect, PTL DEF Spec

=============================================================================
