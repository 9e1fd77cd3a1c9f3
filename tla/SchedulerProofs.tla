-------------------------- MODULE SchedulerProofs ---------------------------
(***************************************************************************)
(* Theorems about Scheduler, for any rules, presets, check interval and    *)
(* time a send takes.                                                      *)
(***************************************************************************)
EXTENDS Scheduler, TLAPS

-----------------------------------------------------------------------------
(* Minutes. *)

LEMMA Division ==
  ASSUME NEW a \in Nat, NEW n \in Nat \ {0}
  PROVE  a \div n \in Nat /\ n * (a \div n) <= a /\ a < n * (a \div n) + n
BY SMTT(20)

LEMMA Multiples ==
  ASSUME NEW x \in Nat, NEW y \in Nat, NEW n \in Nat \ {0}, x > y
  PROVE  n * x >= n * y + n
BY SMTT(20)

LEMMA MinuteGrows ==
  ASSUME NEW a \in Nat, NEW b \in Nat, a <= b
  PROVE  Minute(a) \in Nat /\ Minute(a) <= Minute(b)
<1> DEFINE n == TicksPerMinute  x == a \div n  y == b \div n
<1>1. x \in Nat /\ n * x <= a /\ a < n * x + n
  BY Division, SchedulerAssumption
<1>2. y \in Nat /\ n * y <= b /\ b < n * y + n
  BY Division, SchedulerAssumption
<1>3. n \in Nat \ {0} /\ Minute(a) = x /\ Minute(b) = y
  BY SchedulerAssumption DEF Minute
<1> HIDE DEF x, y, n
<1>4. CASE x > y
  <2>1. n * x >= n * y + n
    BY <1>1, <1>2, <1>3, <1>4, Multiples
  <2>2. n * x \in Nat /\ n * y \in Nat
    BY <1>1, <1>2, <1>3
  <2> QED BY <1>1, <1>2, <1>3, <2>1, <2>2
<1> QED BY <1>1, <1>2, <1>3, <1>4

(***************************************************************************)
(* Less than a minute later it is at most the next minute.                 *)
(***************************************************************************)
LEMMA NextMinute ==
  ASSUME NEW a \in Nat, NEW b \in Nat, b < a + TicksPerMinute
  PROVE  Minute(b) <= Minute(a) + 1
<1> DEFINE n == TicksPerMinute  x == a \div n  y == b \div n
<1>1. x \in Nat /\ n * x <= a /\ a < n * x + n
  BY Division, SchedulerAssumption
<1>2. y \in Nat /\ n * y <= b /\ b < n * y + n
  BY Division, SchedulerAssumption
<1>3. n \in Nat \ {0} /\ Minute(a) = x /\ Minute(b) = y /\ b < a + n
  BY SchedulerAssumption DEF Minute
<1> HIDE DEF x, y, n
<1>4. CASE y > x + 1
  <2>1. n * y >= n * (x + 1) + n
    BY <1>1, <1>2, <1>3, <1>4, Multiples
  <2>2. n * (x + 1) >= n * x + n
    BY <1>1, <1>3, Multiples
  <2>3. n * x \in Nat /\ n * y \in Nat /\ n * (x + 1) \in Nat
    BY <1>1, <1>2, <1>3
  <2> QED BY <1>1, <1>2, <1>3, <2>1, <2>2, <2>3
<1> QED BY <1>1, <1>2, <1>3, <1>4

LEMMA FirstMinute == ASSUME NEW t \in 0..TicksPerMinute-1 PROVE Minute(t) = 0
<1> DEFINE n == TicksPerMinute  x == t \div n
<1>1. t \in Nat /\ n \in Nat \ {0} /\ t < n
  BY SchedulerAssumption
<1>2. x \in Nat /\ n * x <= t
  BY <1>1, Division
<1>3. Minute(t) = x
  BY DEF Minute
<1> HIDE DEF x, n
<1>4. CASE x > 0
  <2>1. n * x >= n * 0 + n
    BY <1>1, <1>2, <1>4, Multiples
  <2> QED BY <1>1, <1>2, <2>1
<1> QED BY <1>2, <1>3, <1>4

-----------------------------------------------------------------------------
LEMMA RuleType ==
  ASSUME NEW i \in DOMAIN Rules
  PROVE  /\ i \in 1..Len(Rules) /\ Rules[i].minute \in Nat
         /\ Key(Rules[i]) \in Keys /\ Key(Rules[i])[1] = Rules[i].minute
         /\ ToSend(Rules[i]) \in Nat
<1>1. DOMAIN Rules = 1..Len(Rules) /\ Rules[i] \in TimeRule
  BY SchedulerAssumption
<1>3. Rules[i].minute \in Nat
  BY <1>1 DEF TimeRule
<1>2. ToSend(Rules[i]) \in Nat
  BY SchedulerAssumption DEF ToSend, Preset
<1> QED BY <1>1, <1>2, <1>3 DEF Keys, Key

LEMMA TypeInit == Init => TypeInv
<1> SUFFICES ASSUME Init PROVE TypeInv
  OBVIOUS
<1>1. clock \in Nat /\ began = clock /\ 1 \in 1..Len(Rules)+1
  BY SchedulerAssumption DEF Init
<1>2. started \in [Keys -> Nat] /\ lastTriggered \subseteq Keys
  BY DEF Init
<1>3. stopping \in BOOLEAN /\ overran \in BOOLEAN
  BY DEF Init
<1>4. now \in Nat /\ rule = 1 /\ left \in Nat /\ attempt \in 0..SendRetries-1 /\ pc = "wake"
  BY DEF Init, SendRetries
<1> QED BY <1>1, <1>2, <1>3, <1>4 DEF TypeInv

LEMMA TypeNext == TypeInv /\ [Next]_vars => TypeInv'
<1> SUFFICES ASSUME TypeInv, [Next]_vars PROVE TypeInv'
  OBVIOUS
<1> USE DEF TypeInv
<1>0. Len(Rules) \in Nat /\ DOMAIN Rules = 1..Len(Rules) /\ CheckInterval \in Nat
  BY SchedulerAssumption
<1>1. CASE Wake
  <2>1. Minute(clock) \in Nat
    BY MinuteGrows
  <2> QED BY <1>0, <1>1, <2>1 DEF Wake, history
<1>2. CASE Stop
  BY <1>2 DEF Stop, history
<1>3. CASE SkipRule
  BY <1>0, <1>3 DEF SkipRule, history
<1>4. CASE Trigger
  <2>1. rule \in DOMAIN Rules /\ Key(Rules[rule]) \in Keys /\ left' = ToSend(Rules[rule])
        /\ left' \in Nat
    BY <1>4, RuleType DEF Trigger
  <2>2. started' \in [Keys -> Nat] /\ lastTriggered' \subseteq Keys
    BY <1>4, <2>1 DEF Trigger
  <2>3. rule' \in 1..Len(Rules)+1 /\ pc' \in {"rule", "send"} /\ (pc' = "send" => left' > 0 /\ rule' = rule)
    BY <1>0, <1>4, <2>1 DEF Trigger
  <2>4. attempt' = 0 /\ UNCHANGED <<clock, now, began, stopping, overran>>
    BY <1>4 DEF Trigger
  <2> QED BY <2>1, <2>2, <2>3, <2>4 DEF SendRetries
<1>5. ASSUME NEW d \in 0..MaxSendTicks, NEW sent \in BOOLEAN, Send(d, sent) PROVE TypeInv'
  <2>0. clock' = clock + d /\ began' = began
    BY <1>5 DEF Send
  <2>1. clock' \in Nat /\ began' = began /\ began' <= clock'
    BY SMTT(30), <2>0, SchedulerAssumption
  <2>2. left' \in Nat /\ (pc' = "send" => left' > 0 /\ rule' \in DOMAIN Rules)
        /\ pc' \in {"rule", "send"}
    BY <1>5 DEF Send
  <2>3. attempt' \in 0..SendRetries-1
    BY <1>5 DEF Send, Settled, SendRetries
  <2>4. rule' \in 1..Len(Rules)+1
    BY <1>0, <1>5 DEF Send
  <2>5. UNCHANGED <<now, lastTriggered, stopping, history>>
    BY <1>5 DEF Send
  <2> QED BY <2>1, <2>2, <2>3, <2>4, <2>5 DEF history
<1>6. CASE EndPass
  <2>1. overran' \in BOOLEAN
    BY <1>6, Zenon DEF EndPass
  <2> QED BY <1>6, <2>1 DEF EndPass, Remembered
<1>7. CASE Sleep
  BY <1>0, <1>7 DEF Sleep, history
<1>8. CASE Signal
  BY <1>8 DEF Signal, history
<1>9. CASE Hang
  BY <1>9 DEF Hang, history
<1>10. CASE UNCHANGED vars
  BY <1>10 DEF vars, history
<1> QED BY <1>1, <1>2, <1>3, <1>4, <1>5, <1>6, <1>7, <1>8, <1>9, <1>10 DEF Next, Step, Sends

(***************************************************************************)
(* The clock, the pass and the retries stay well formed (run_scheduler,    *)
(* run_due_rules, send_button_with_retry).                                 *)
(***************************************************************************)
THEOREM TypeCorrect == Spec => []TypeInv
BY TypeInit, TypeNext, PTL DEF Spec

-----------------------------------------------------------------------------
(***************************************************************************)
(* What last_triggered remembers.  `now` is the minute the pass began in,  *)
(* so that it never goes back; what was started in it is remembered for as *)
(* long as it lasts, and nothing else is.                                  *)
(***************************************************************************)
PassInv ==
  /\ now = Minute(began)
  /\ \A k \in Keys : started[k] > 0 => k[1] <= now /\ (k[1] = now => k \in lastTriggered)
  /\ \A k \in lastTriggered : started[k] > 0

KeyInv == PassInv /\ OncePerMinute

LEMMA KeyInit == Init => KeyInv
<1> SUFFICES ASSUME Init PROVE KeyInv
  OBVIOUS
<1>1. now = Minute(began)
  BY FirstMinute DEF Init
<1>2. \A k \in Keys : started[k] = 0
  BY DEF Init
<1> QED BY <1>1, <1>2 DEF Init, KeyInv, PassInv, OncePerMinute

LEMMA KeyNext == TypeInv /\ KeyInv /\ [Next]_vars => KeyInv'
<1> SUFFICES ASSUME TypeInv, KeyInv, [Next]_vars PROVE KeyInv'
  OBVIOUS
<1> USE DEF TypeInv, KeyInv, PassInv, OncePerMinute
<1>0. \A k \in Keys : k[1] \in Nat
  BY RuleType DEF Keys
<1>1. CASE Wake
  <2>1. now' = Minute(clock) /\ began' = clock /\ now' \in Nat /\ now <= now'
    BY <1>1, MinuteGrows DEF Wake
  <2>2. UNCHANGED <<started, lastTriggered>>
    BY <1>1 DEF Wake, history
  <2>3. Minute(began)' = now'
    BY <2>1 DEF Minute
  <2> QED BY <1>0, <2>1, <2>2, <2>3
<1>2. CASE Trigger
  <2> DEFINE k0 == Key(Rules[rule])
  <2>1. k0 \in Keys /\ k0[1] = now /\ k0 \notin lastTriggered
    BY <1>2, RuleType DEF Trigger, Due
  <2>2. started' = [started EXCEPT ![k0] = @ + 1] /\ lastTriggered' = lastTriggered \cup {k0}
        /\ UNCHANGED <<now, began>>
    BY <1>2 DEF Trigger
  <2>3. started[k0] = 0
    BY <2>1
  <2> HIDE DEF k0
  <2>4. \A k \in Keys : started'[k] = IF k = k0 THEN 1 ELSE started[k]
    BY <2>1, <2>2, <2>3
  <2>5. now' = Minute(began)'
    BY <2>2 DEF Minute
  <2> QED BY <1>0, <2>1, <2>2, <2>4, <2>5
<1>3. CASE EndPass
  BY <1>0, <1>3 DEF EndPass, Remembered, Minute
<1>4. CASE UNCHANGED <<now, began, started, lastTriggered>>
  BY <1>4 DEF Minute
<1> QED BY <1>1, <1>2, <1>3, <1>4
     DEF Next, Step, Sends, Stop, SkipRule, Send, Sleep, Hang, Signal, vars, history

(***************************************************************************)
(* A preset is started at most once in a minute, however many passes fall  *)
(* into it and however long they take (run_due_rules).                     *)
(***************************************************************************)
THEOREM PresetOncePerMinute == Spec => []OncePerMinute
<1>1. KeyInv => OncePerMinute
  BY DEF KeyInv
<1> QED BY <1>1, KeyInit, KeyNext, TypeCorrect, PTL DEF Spec

-----------------------------------------------------------------------------
(***************************************************************************)
(* The rules a pass has left behind are served, and a pass that is over    *)
(* has left all of them behind.  The next one begins within a minute.      *)
(***************************************************************************)
ServedInv ==
  /\ MissedOnlyIfSlow
  /\ \A i \in DOMAIN Rules :
       i < rule /\ Rules[i].minute = now => started[Key(Rules[i])] > 0
  /\ pc = "send" => started[Key(Rules[rule])] > 0
  /\ pc = "wake" => rule = Len(Rules) + 1 \/ Minute(clock) = now
  /\ pc = "sleep" => rule = Len(Rules) + 1
  /\ pc = "sleep" /\ ~overran => clock + CheckInterval < began + TicksPerMinute
  /\ pc = "wake" /\ ~overran => clock < began + TicksPerMinute

LEMMA ServedInit == Init => ServedInv
<1> SUFFICES ASSUME Init PROVE ServedInv
  OBVIOUS
<1>1. Minute(clock) = now /\ now = 0 /\ rule = 1 /\ pc = "wake" /\ began = clock
  BY FirstMinute DEF Init
<1>2. clock \in Nat /\ clock < began + TicksPerMinute
  BY <1>1, SchedulerAssumption DEF Init
<1>3. \A i \in DOMAIN Rules : i \in Nat /\ i >= 1 /\ Rules[i].minute \in Nat
  <2> SUFFICES ASSUME NEW i \in DOMAIN Rules
               PROVE  i \in Nat /\ i >= 1 /\ Rules[i].minute \in Nat
    OBVIOUS
  <2>1. Len(Rules) \in Nat
    BY SchedulerAssumption
  <2>2. i \in 1..Len(Rules) /\ Rules[i].minute \in Nat
    BY RuleType
  <2> QED BY <2>1, <2>2
<1> QED BY <1>1, <1>2, <1>3 DEF ServedInv, MissedOnlyIfSlow

LEMMA ServedNext == TypeInv /\ KeyInv /\ ServedInv /\ [Next]_vars => ServedInv'
<1> SUFFICES ASSUME TypeInv, KeyInv, ServedInv, [Next]_vars PROVE ServedInv'
  OBVIOUS
<1>0. /\ Len(Rules) \in Nat /\ DOMAIN Rules = 1..Len(Rules)
      /\ CheckInterval \in Nat /\ TicksPerMinute \in Nat
      /\ \A i \in DOMAIN Rules : Rules[i].minute \in Nat /\ Key(Rules[i]) \in Keys
                                /\ Key(Rules[i])[1] = Rules[i].minute
  BY SchedulerAssumption, RuleType
<1> USE DEF TypeInv, ServedInv, MissedOnlyIfSlow
<1>1. CASE Wake
  <2>1. now' = Minute(clock) /\ rule' = 1 /\ pc' = "rule" /\ pc = "wake"
        /\ UNCHANGED <<started, overran>>
    BY <1>1 DEF Wake, history
  <2>2. now' \in Nat /\ now <= now'
    BY <2>1, MinuteGrows DEF KeyInv, PassInv
  <2>3. ~overran => now' <= now + 1
    BY <2>1, NextMinute DEF KeyInv, PassInv
  <2>4. ASSUME ~overran, NEW i \in DOMAIN Rules, Rules[i].minute < now'
        PROVE  started[Key(Rules[i])] > 0
    <3>1. CASE Rules[i].minute < now
      BY <2>4, <3>1
    <3>2. CASE Rules[i].minute = now
      <4>1. rule = Len(Rules) + 1
        BY <2>1, <2>4, <3>2
      <4> QED BY <1>0, <3>2, <4>1
    <3> QED BY <1>0, <2>2, <2>3, <2>4, <3>1, <3>2
  <2> QED BY <1>0, <2>1, <2>4
<1>2. CASE Stop
  BY <1>2 DEF Stop, history
<1>3. CASE SkipRule
  <2>1. Rules[rule].minute = now => started[Key(Rules[rule])] > 0
    BY <1>3 DEF SkipRule, Due, KeyInv, PassInv
  <2> QED BY <1>0, <1>3, <2>1 DEF SkipRule, history
<1>4. CASE Trigger
  <2> DEFINE k0 == Key(Rules[rule])
  <2>1. rule \in DOMAIN Rules /\ k0 \in Keys /\ started' = [started EXCEPT ![k0] = @ + 1]
        /\ pc' \in {"rule", "send"} /\ rule' \in {rule, rule + 1}
        /\ (pc' = "send" => rule' = rule)
        /\ UNCHANGED <<now, overran>>
    BY <1>0, <1>4 DEF Trigger
  <2> HIDE DEF k0
  <2>2. /\ started'[k0] > 0
        /\ \A k \in Keys : started[k] > 0 => started'[k] > 0
    BY <2>1
  <2>3. \A i \in DOMAIN Rules : i < rule' => i < rule \/ i = rule
    BY <1>0, <2>1
  <2>4. Key(Rules[rule]) = k0
    BY DEF k0
  <2>5. MissedOnlyIfSlow'
    BY <1>0, <2>1, <2>2
  <2>6. \A i \in DOMAIN Rules :
          i < rule' /\ Rules[i].minute = now' => started'[Key(Rules[i])] > 0
    BY <1>0, <2>1, <2>2, <2>3, <2>4
  <2>7. pc' = "send" => started'[Key(Rules[rule'])] > 0
    BY <2>1, <2>2, <2>4
  <2> QED BY <2>1, <2>5, <2>6, <2>7
<1>5. ASSUME NEW d \in 0..MaxSendTicks, NEW sent \in BOOLEAN, Send(d, sent) PROVE ServedInv'
  <2>1. /\ pc = "send" /\ pc' \in {"rule", "send"} /\ rule' \in {rule, rule + 1}
        /\ (pc' = "send" => rule' = rule)
        /\ UNCHANGED <<now, started, overran>>
    BY <1>5 DEF Send, history
  <2>2. \A i \in DOMAIN Rules : i < rule' => i < rule \/ i = rule
    BY <1>0, <2>1
  <2> QED BY <1>0, <2>1, <2>2
<1>6. CASE EndPass
  <2>1. /\ pc' = "sleep" /\ rule' = rule /\ rule = Len(Rules) + 1
        /\ UNCHANGED <<clock, began, now, started>>
    BY <1>0, <1>6 DEF EndPass
  <2>2. ~overran' => ~overran /\ ~(clock - began + CheckInterval >= TicksPerMinute)
    BY <1>6, Zenon DEF EndPass
  <2>3. ~overran' => clock + CheckInterval < began + TicksPerMinute
    BY <1>0, <2>2
  <2> QED BY <2>1, <2>2, <2>3
<1>7. CASE Sleep
  BY <1>0, <1>7 DEF Sleep, history
<1>8. CASE Signal
  BY <1>8 DEF Signal, history, Minute
<1>9. CASE Hang
  BY <1>9 DEF Hang, history
<1>10. CASE UNCHANGED vars
  BY <1>10 DEF vars, history, Minute
<1> QED BY <1>1, <1>2, <1>3, <1>4, <1>5, <1>6, <1>7, <1>8, <1>9, <1>10 DEF Next, Step, Sends

(***************************************************************************)
(* As long as a pass and the sleep after it take less than a minute, no    *)
(* minute with a rule goes by unserved, for any check interval that        *)
(* run_scheduler admits.                                                   *)
(***************************************************************************)
THEOREM NoMinuteSkipped == Spec => []MissedOnlyIfSlow
<1>1. ServedInv => MissedOnlyIfSlow
  BY DEF ServedInv
<1> QED BY <1>1, ServedInit, ServedNext, KeyInit, KeyNext, TypeCorrect, PTL DEF Spec

-----------------------------------------------------------------------------
(* The way to the end. *)

(***************************************************************************)
(* What is left to do before the loop looks at shutdown_requested: the     *)
(* stages of the loop, the rules of the pass, the start of the rule it is  *)
(* at, the buttons of the preset and the attempts for the button.          *)
(***************************************************************************)
Stage ==
  CASE pc \in {"done", "hung"} -> 0
    [] pc = "wake" -> 1
    [] pc = "sleep" -> 2
    [] OTHER -> 3

Remaining ==
  <<Stage, Len(Rules) + 1 - rule, IF pc = "rule" THEN 1 ELSE 0, left, SendRetries - attempt>>

Lower(r, s) ==
  \E i \in DOMAIN s : r[i] < s[i] /\ \A j \in 1..i-1 : r[j] = s[j]

LEMMA RemainingType == TypeInv => Remaining \in Nat \X Nat \X Nat \X Nat \X Nat
<1> SUFFICES ASSUME TypeInv PROVE Remaining \in Nat \X Nat \X Nat \X Nat \X Nat
  OBVIOUS
<1>1. Stage \in Nat
  BY DEF Stage
<1>2. Len(Rules) + 1 - rule \in Nat
  BY SchedulerAssumption DEF TypeInv
<1>3. left \in Nat /\ SendRetries - attempt \in Nat
  BY DEF TypeInv, SendRetries
<1> QED BY <1>1, <1>2, <1>3 DEF Remaining

(***************************************************************************)
(* A first entry that falls lowers the whole, whatever the entries after   *)
(* it do.                                                                  *)
(***************************************************************************)
LEMMA LowerBy ==
  ASSUME NEW a1, NEW a2, NEW a3, NEW a4, NEW a5,
         NEW b1, NEW b2, NEW b3, NEW b4, NEW b5,
         \/ b1 < a1
         \/ b1 = a1 /\ b2 < a2
         \/ b1 = a1 /\ b2 = a2 /\ b3 < a3
         \/ b1 = a1 /\ b2 = a2 /\ b3 = a3 /\ b4 < a4
         \/ b1 = a1 /\ b2 = a2 /\ b3 = a3 /\ b4 = a4 /\ b5 < a5
  PROVE  Lower(<<b1, b2, b3, b4, b5>>, <<a1, a2, a3, a4, a5>>)
<1> DEFINE r == <<b1, b2, b3, b4, b5>>  s == <<a1, a2, a3, a4, a5>>
<1>1. /\ r[1] = b1 /\ r[2] = b2 /\ r[3] = b3 /\ r[4] = b4 /\ r[5] = b5
      /\ s[1] = a1 /\ s[2] = a2 /\ s[3] = a3 /\ s[4] = a4 /\ s[5] = a5
      /\ DOMAIN s = 1..5
  OBVIOUS
<1> HIDE DEF r, s
<1>2. SUFFICES Lower(r, s)
  BY DEF r, s
<1>3. ASSUME NEW i \in 1..5, r[i] < s[i], \A j \in 1..i-1 : r[j] = s[j] PROVE Lower(r, s)
  BY <1>1, <1>3 DEF Lower
<1>4. CASE b1 < a1
  BY <1>1, <1>3, <1>4
<1>5. CASE b1 = a1 /\ b2 < a2
  BY <1>1, <1>3, <1>5
<1>6. CASE b1 = a1 /\ b2 = a2 /\ b3 < a3
  BY <1>1, <1>3, <1>6
<1>7. CASE b1 = a1 /\ b2 = a2 /\ b3 = a3 /\ b4 < a4
  BY <1>1, <1>3, <1>7
<1>8. CASE b1 = a1 /\ b2 = a2 /\ b3 = a3 /\ b4 = a4 /\ b5 < a5
  BY <1>1, <1>3, <1>8
<1> QED BY <1>4, <1>5, <1>6, <1>7, <1>8

LEMMA StopNearer ==
  TypeInv /\ stopping /\ Next => stopping' /\ Lower(Remaining', Remaining)
<1> SUFFICES ASSUME TypeInv, stopping, Next PROVE stopping' /\ Lower(Remaining', Remaining)
  OBVIOUS
<1> USE DEF Stage
<1>0. Len(Rules) \in Nat /\ rule \in Nat /\ left \in Nat /\ attempt \in 0..SendRetries-1
  BY SchedulerAssumption DEF TypeInv
<1>a. SUFFICES /\ stopping'
               /\ \/ Stage' < Stage
                  \/ Stage' = Stage /\ rule' = rule + 1
                  \/ Stage' = Stage /\ rule' = rule /\ pc = "rule" /\ pc' # "rule"
                  \/ Stage' = Stage /\ rule' = rule /\ pc' = pc /\ left' < left
                  \/ Stage' = Stage /\ rule' = rule /\ pc' = pc /\ left' = left
                     /\ attempt' = attempt + 1
  <2> DEFINE n == Len(Rules)
             at == IF pc = "rule" THEN 1 ELSE 0
             st == Stage
  <2>1. /\ Remaining = <<st, n + 1 - rule, at, left, SendRetries - attempt>>
        /\ Remaining' = <<st', n + 1 - rule', at', left', SendRetries - attempt'>>
    BY DEF Remaining
  <2>2. \/ st' < st
        \/ st' = st /\ n + 1 - rule' < n + 1 - rule
        \/ st' = st /\ n + 1 - rule' = n + 1 - rule /\ at' < at
        \/ st' = st /\ n + 1 - rule' = n + 1 - rule /\ at' = at /\ left' < left
        \/ st' = st /\ n + 1 - rule' = n + 1 - rule /\ at' = at /\ left' = left
           /\ SendRetries - attempt' < SendRetries - attempt
    BY <1>0, <1>a DEF SendRetries
  <2> HIDE DEF n, at, st
  <2>3. Lower(<<st', n + 1 - rule', at', left', SendRetries - attempt'>>,
              <<st, n + 1 - rule, at, left, SendRetries - attempt>>)
    BY <2>2, LowerBy
  <2> QED BY <1>a, <2>1, <2>3
<1>1. CASE Wake
  BY <1>1 DEF Wake
<1>2. CASE Stop
  BY <1>2 DEF Stop
<1>3. CASE SkipRule
  BY <1>3 DEF SkipRule
<1>4. CASE Trigger
  BY <1>4 DEF Trigger
<1>5. ASSUME NEW d \in 0..MaxSendTicks, NEW sent \in BOOLEAN, Send(d, sent)
      PROVE  /\ stopping'
             /\ \/ Stage' = Stage /\ rule' = rule + 1
                \/ Stage' = Stage /\ rule' = rule /\ pc' = pc /\ left' < left
                \/ Stage' = Stage /\ rule' = rule /\ pc' = pc /\ left' = left
                   /\ attempt' = attempt + 1
  BY <1>0, <1>5 DEF Send, TypeInv
<1>6. CASE EndPass
  BY <1>6 DEF EndPass
<1>7. CASE Sleep
  BY <1>7 DEF Sleep
<1>8. CASE Signal
  BY <1>8 DEF Signal
<1>9. CASE Hang
  BY <1>9 DEF Hang
<1> QED BY <1>1, <1>2, <1>3, <1>4, <1>5, <1>6, <1>7, <1>8, <1>9 DEF Next, Step, Sends

(***************************************************************************)
(* After SIGTERM the flag stays set, and every step the process takes, the *)
(* failing sends included, leaves less to do in a well-founded order: no   *)
(* rules, presets or failures make it loop (run_scheduler, run_due_rules,  *)
(* send_button_with_retry); a send that never ends is the other way to the *)
(* bottom of the order.  StopsWhenAsked is this with the fairness of the   *)
(* process.                                                                *)
(***************************************************************************)
THEOREM StopApproaches ==
  Spec => /\ [](Remaining \in Nat \X Nat \X Nat \X Nat \X Nat)
          /\ [][stopping => stopping' /\ Lower(Remaining', Remaining)]_vars
<1>1. TypeInv /\ [Next]_vars => [stopping => stopping' /\ Lower(Remaining', Remaining)]_vars
  BY StopNearer
<1> QED BY <1>1, RemainingType, TypeCorrect, PTL DEF Spec

=============================================================================
