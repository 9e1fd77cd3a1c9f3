------------------------------ MODULE TvScreens ------------------------------
(***************************************************************************)
(* The canvas context at work: a frame draws the screen of an app or the   *)
(* show of a channel, operation by operation, and the next frame draws     *)
(* another.  What an operation puts where depends on how text is aligned   *)
(* at that moment, which is whatever the operations before left.           *)
(***************************************************************************)
EXTENDS ScreenLayout

VARIABLES
  screen,   \* what the frame draws
  pen,      \* its next operation
  align,    \* textAlign of the context
  saved     \* alignments on the context's stack

vars == <<screen, pen, align, saved>>

-----------------------------------------------------------------------------
(* The lineup: types and lengths of the names of channels 1 to 135, and 136*)
(* for all others.                                                         *)

Channels == 1..136

NameLengths ==
  <<12, 12, 13, 15, 15, 11, 17, 19, 8, 14, 13, 13, 13, 19, 13, 15, 14, 17, 22,
    10, 13, 15, 16, 17, 19, 12, 12, 10, 11, 15, 12, 11, 14, 12, 12, 15, 16, 14,
    11, 14, 15, 14, 11, 8, 13, 14, 9, 14, 12, 11, 3, 3, 12, 12, 13, 14, 11, 16,
    13, 8, 13, 15, 10, 11, 13, 18, 12, 16, 14, 16, 10, 10, 14, 9, 11, 21, 17,
    11, 15, 14, 10, 17, 17, 12, 13, 11, 10, 14, 13, 13, 10, 12, 8, 14, 16, 6,
    8, 13, 12, 10, 10, 14, 9, 7, 5, 8, 5, 4, 10, 6, 11, 4, 8, 4, 12, 11, 10, 9,
    15, 12, 9, 11, 14, 9, 9, 4, 7, 7, 11, 10, 6, 5, 12, 13, 11, 10>>

NewsChannels == {1, 2, 3, 5, 96, 97} \cup 71..76
SportsChannels == 21..30
DramaChannels == {38, 93, 94} \cup 61..70
ComedyChannels == {20, 33} \cup 81..83 \cup 88..92
MovieChannels == {31, 32, 36, 39, 40, 49}
CartoonChannels == {41, 42, 43, 47, 48}
MusicChannels == 51..60 \cup 126..135
DocumentaryChannels == {37, 45, 46, 50, 78, 79, 80} \cup 84..87

(* drawTVShowContent; types it does not know are drawn as general shows *)
Show(c) ==
  LET n == NameLengths[c]
  IN  CASE c \in NewsChannels -> NewsShow(n)
        [] c \in SportsChannels -> SportsShow(n)
        [] c \in DramaChannels -> DramaShow(n)
        [] c \in ComedyChannels -> ComedyShow(n)
        [] c \in MovieChannels -> MovieShow(n)
        [] c \in CartoonChannels -> CartoonShow(n)
        [] c \in MusicChannels -> MusicShow(n)
        [] c \in {4, 77} -> WeatherShow(n)
        [] c = 34 -> HorrorShow(n)
        [] c \in DocumentaryChannels -> DocumentaryShow(n)
        [] c = 6 -> BigRedDogShow(n)
        [] c = 7 -> PabstShow(n)
        [] c = 8 -> LifeguardShow(n)
        [] c = 9 -> CupsShow(n)
        [] c = 10 -> TrashCanShow(n)
        [] c = 11 -> LochNessShow(n)
        [] c = 12 -> BananaShow(n)
        [] c = 13 -> DrivingShow(n)
        [] c = 14 -> OceanVolcanoShow(n)
        [] c = 15 -> FridgePlanetShow(n)
        [] c = 16 -> ToasterShow(n)
        [] c = 17 -> CloudsShow(n)
        [] c = 18 -> PaintShow(n)
        [] c = 19 -> RubberDuckShow(n)
        [] OTHER -> GeneralTVShow(n)

(* The screens by name of current_app.  The server of this repository names*)
(* the first five only.                                                    *)
AppScreen ==
  [Home |-> HomeScreen, YouTube |-> YouTubeContent, Netflix |-> NetflixContent,
   Prime |-> PrimeContent, HBO |-> HBOMaxContent, Disney |-> DisneyPlusContent,
   AppleTV |-> AppleTVContent, Hulu |-> HuluContent, Peacock |-> PeacockContent,
   Recordings |-> RecordingsScreen, Schedule |-> ScheduleScreen,
   SleepTimer |-> SleepTimerScreen, Calibration |-> CalibrationScreen,
   Cast |-> CastScreen, Gaming |-> GamingDashboardScreen,
   Music |-> MusicPlayerScreen, Settings |-> SettingsScreen]

(* The boot sequence is drawn only at a brightness of ten percent. *)
Screens == ({"app"} \X DOMAIN AppScreen) \cup ({"show"} \X Channels)
             \cup {<<"boot", 10>>}
             \cup ({"switch"} \X {"slideOut", "loading", "logo", "content"})

Operations ==
  [s \in Screens |-> CASE s[1] = "app" -> AppScreen[s[2]]
                       [] s[1] = "show" -> Show(s[2])
                       [] s[1] = "switch" -> AppSwitch(s[2])
                       [] s[1] = "boot" -> BootSequence(s[2])]

(* What is drawn around the content, with the overlay up as after a change *)
(* of the channel; nothing is while the TV boots.  The alignment the volume*)
(* bar sets stays.  An overlay of the input is never drawn (TvPicture).    *)
Frame(s) ==
  IF s[1] = "boot" THEN Operations[s]
  ELSE <<Fill>> \o ChannelNumber \o Operations[s] \o VolumeBar
         \o ChannelOverlay \o InputLabel
Frames == [s \in Screens |-> Frame(s)]

-----------------------------------------------------------------------------
(* Mutant: the context is used as the last frame left it. *)
ResetNothing == align

Reset == "start"

RestoredFrom(stack) == Last(stack)

Init ==
  /\ screen \in Screens
  /\ pen = 1 /\ align = "start" /\ saved = <<>>

Drawing == pen <= Len(Frames[screen])
Op == Frames[screen][pen]

Step(kind) == Drawing /\ Op.op = kind /\ pen' = pen + 1 /\ UNCHANGED screen

SetAlign == Step("align") /\ align' = Op.to /\ UNCHANGED saved
SaveContext == Step("save") /\ saved' = Append(saved, align) /\ UNCHANGED align
RestoreContext ==
  /\ Step("restore") /\ saved # <<>>
  /\ align' = RestoredFrom(saved) /\ saved' = Front(saved)
Write == Step("text") /\ UNCHANGED <<align, saved>>
Paint == Step("pic") /\ UNCHANGED <<align, saved>>

NextFrame ==
  /\ ~Drawing
  /\ screen' \in Screens
  /\ pen' = 1 /\ align' = Reset /\ saved' = <<>>

Next == SetAlign \/ SaveContext \/ RestoreContext \/ Write \/ Paint \/ NextFrame

Spec == Init /\ [][Next]_vars

=============================================================================
