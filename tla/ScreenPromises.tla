--------------------------- MODULE ScreenPromises ---------------------------
(***************************************************************************)
(* What a viewer relies on, whatever the television shows, said of an      *)
(* instance of TvScreens under names that can stand beside those of the    *)
(* other models of the page.                                               *)
(***************************************************************************)
EXTENDS Integers, FiniteSets

VARIABLES screen, pen, align, saved  \* those of TvScreens

Canvas == INSTANCE TvScreens

ScreenSpec == Canvas!Spec

(* Where a text is written: from, around or up to its point. *)
LeftOf(t) == CASE align \in {"start", "left"} -> t.x
               [] align = "center" -> t.x - t.wide \div 2
               [] align = "right" -> t.x - t.wide

Readable(t) ==
  /\ LeftOf(t) >= 0 /\ LeftOf(t) + t.wide <= Canvas!W
  /\ t.y - t.px >= 0 /\ t.y <= Canvas!H

Visible(b) == b.x1 < Canvas!W /\ b.x2 > 0 /\ b.y1 < Canvas!H /\ b.y2 > 0

(* The known exceptions, all of them on the canvas only in part: cards that*)
(* are wider than the screen (Disney, Hulu, Gaming, Calibration), lines    *)
(* below its edge (Cast, Calibration), a time after the text it should be  *)
(* right of (Schedule), the score of sports and long titles, which nothing *)
(* centres (19, 25, 58, 82, 83).                                           *)
CutOff ==
  {<<"app", a>> : a \in {"Disney", "Hulu", "Gaming", "Calibration", "Cast",
                         "Schedule"}}
  \cup {<<"show", c>> : c \in Canvas!SportsChannels \cup {19, 58, 82, 83}}

(* Devices below the screen, tiles right of it or below, and smoke that has*)
(* been rising since 1970.                                                 *)
OffScreen == {<<"app", "Cast">>, <<"show", 8>>, <<"show", 12>>, <<"show", 14>>}

(* All text of a screen that is not a known exception lies on the canvas,  *)
(* although most shows take the alignment they find (draw...Show).         *)
Legible ==
  Canvas!Drawing /\ Canvas!Op.op = "text" => Readable(Canvas!Op) \/ screen \in CutOff

(* Nothing is drawn outside of the canvas, where nobody sees it: rows and  *)
(* columns fit, whatever moves comes past.                                 *)
Seen ==
  Canvas!Drawing /\ Canvas!Op.op = "pic" => Visible(Canvas!Op) \/ screen \in OffScreen

(* How many alignments the operations of a frame have saved and not yet    *)
(* restored when it comes to the n-th.                                     *)
Before(ops, n, kind) == {k \in 1..n-1 : ops[k].op = kind}
Depth(ops, n) == Cardinality(Before(ops, n, "save")) - Cardinality(Before(ops, n, "restore"))

(* The operations that set an alignment which no restore has taken back.   *)
InForce(ops, n) ==
  {m \in Before(ops, n, "align") : \A k \in m+1..n : Depth(ops, k) >= Depth(ops, m)}

(* How text is aligned by the time of the n-th operation if the frame is   *)
(* drawn alone on a new canvas: as the last of them says.                  *)
AlignedAlone(ops, n, a) ==
  \/ InForce(ops, n) = {} /\ a = "start"
  \/ \E m \in InForce(ops, n) : a = ops[m].to /\ \A k \in InForce(ops, n) : k <= m

(* A screen looks the same whatever was drawn before it: helpers of the    *)
(* last frame leave nothing in the context (ctx.reset, "Fresh drawing      *)
(* state each frame").                                                     *)
SameEveryTime ==
  Canvas!Drawing => AlignedAlone(Canvas!Frames[screen], pen, align)
=============================================================================
