---------------------------- MODULE ScreenLayout ----------------------------
(***************************************************************************)
(* What screen.js draws on the canvas of the TV: one operator per draw...  *)
(* function, a sequence of drawing operations with whole-pixel extents.    *)
(* Colours, gradients and fonts' weights are left out.  What moves with    *)
(* the sine of the time has the box it sweeps, so does what drifts past.   *)
(*                                                                         *)
(* Text is anchored the way the context says (textAlign) when it is drawn, *)
(* so alignment is state: set, saved, restored, and left for what follows. *)
(* The vertical anchor, textBaseline, is state of the context as well; it  *)
(* is not modelled, a text has the y it is drawn at.                       *)
(*                                                                         *)
(* What slides, shrinks or turns during a second (channel numbers, overlay *)
(* and logo on their way) is drawn as if it stood still.  Left out are     *)
(* particles, ripples and waves of the animations, scan lines and shimmer. *)
(***************************************************************************)
EXTENDS Integers, Sequences, SequencesExt

W == 512  \* getTVScreenCanvas
H == 512

(* A fraction of the canvas, in percent *)
Pc(p) == (W * p) \div 100

Align(a) == [op |-> "align", to |-> a]
Save == [op |-> "save"]
Restore == [op |-> "restore"]
Keep(ops) == <<Save>> \o ops \o <<Restore>>

(* n characters of px pixels, half as wide as high in the mean of Arial    *)
Words(x, y, px, n) == [op |-> "text", x |-> x, y |-> y, px |-> px,
                       wide |-> (px * n) \div 2]
Text(x, y, px, s) == Words(x, y, px, Len(s))

(* A centred text that swings d pixels to either side                      *)
Swinging(t, d) == [t EXCEPT !.wide = @ + 2 * d]

Box(x, y, w, h) ==
  [op |-> "pic", x1 |-> x, x2 |-> x + w, y1 |-> y, y2 |-> y + h]
Oval(x, y, rx, ry) == Box(x - rx, y - ry, 2 * rx, 2 * ry)
Disc(x, y, r) == Oval(x, y, r, r)
Fill == Box(0, 0, W, H)

(* Item(0), ..., Item(n-1), each a sequence of operations                  *)
Each(n, Item(_)) == FlattenSeq([i \in 1..n |-> Item(i - 1)])

(* Left edge of n boxes of width w, gap apart, centred on the canvas       *)
Centred(n, w, gap) == (W - (n * (w + gap) - gap)) \div 2

-----------------------------------------------------------------------------
(* Apps *)

HomeIcons == <<"YouTube", "Netflix", "Prime", "HBO", "Disney+", "Apple TV+",
               "Hulu", "Peacock", "Music", "Games", "Settings", "Photos">>

HomeScreen ==
  <<Fill, Align("center")>>
  \o Each(12, LAMBDA i :
       LET x == Centred(4, 80, 20) + (i % 4) * 100
           y == Centred(3, 80, 20) + (i \div 4) * 100
       IN  <<Box(x, y, 80, 80), Text(x + 40, y + 40, 12, HomeIcons[i + 1])>>)
  \o <<Fill>>  \* particles all over the canvas

YouTubeContent ==
  <<Fill>> \o Keep(<<Align("center"), Text(W \div 2, 100, 60, "YouTube")>>)
  \o Each(6, LAMBDA i :
       LET x == Centred(3, 140, 15) + (i % 3) * 155
           y == 180 + (i \div 3) * 115
       IN  <<Box(x, y, 140, 100), Disc(x + 70, y + 50, 20),
             Box(x + 90, y + 75, 45, 20), Align("right"),
             Text(x + 135, y + 90, 12, "62:59")>>)
  \o <<Box(Pc(10), H - 40, Pc(80), 4)>>

NetflixContent ==
  <<Fill, Align("center"), Text(W \div 2, 80, 50, "NETFLIX"),
    Box(0, 120, W, 180), Text(W \div 2, 180, 32, "Featured Title"),
    Text(W \div 2, 220, 18, "Watch Now")>>
  \o Each(4, LAMBDA i :
       LET x == Centred(4, 100, 15) + i * 115
       IN  <<Box(x, 320, 100, 140), Text(x + 50, 440, 12, "Title 1")>>)

PrimeContent ==
  <<Fill, Align("center"), Text(W \div 2, 80, 40, "PRIME VIDEO")>>
  \o Each(3, LAMBDA i :
       LET x == Centred(3, 120, 20) + i * 140
       IN  <<Box(x, 125, 120, 170), Disc(x + 60, 210, 30)>>)

DisneySections ==
  <<"Disney", "Pixar", "Marvel", "Star Wars", "National Geographic">>

DisneyPlusContent ==
  <<Fill, Align("center"), Text(W \div 2, 80, 48, "Disney+"), Fill>>
  \o Each(5, LAMBDA i :
       LET x == Centred(5, 120, 15) + i * 135
       IN  <<Box(x, 200, 120, 160),
             Text(x + 60, 385, 16, DisneySections[i + 1])>>)

AppleTVContent ==
  <<Fill, Align("center"), Text(W \div 2, 100, 42, "Apple TV+")>>
  \o Each(3, LAMBDA i :
       LET x == Centred(3, 180, 20) + i * 200
       IN  <<Box(x, 180, 180, 250),
             Text(x + 90, 455, 18, <<"Originals", "Movies", "Series">>[i + 1])>>)

HuluContent ==
  <<Fill, Align("center"), Text(W \div 2, 80, 48, "hulu")>>
  \o Each(4, LAMBDA i :
       LET x == Centred(4, 140, 15) + i * 155
       IN  <<Box(x, 180, 140, 180),
             Text(x + 70, 382, 16,
                  <<"Popular", "New", "Expiring", "Watchlist">>[i + 1])>>)

(* Mutant: two cards in a row, spaced for four. *)
PeacockInPairs ==
  <<Fill, Align("center"), Text(W \div 2, 80, 36, "peacock"),
    Disc(W \div 2, 180, 95)>>
  \o Each(8, LAMBDA i : <<Box(Centred(4, 100, 12) + (i % 2) * 112,
                              350 + (i \div 2) * 142, 100, 130)>>)

PeacockContent ==
  <<Fill, Align("center"), Text(W \div 2, 80, 36, "peacock"),
    Disc(W \div 2, 180, 95)>>
  \o Each(8, LAMBDA i : <<Box(Centred(4, 100, 12) + (i % 4) * 112,
                              350 + (i \div 4) * 142, 100, 130)>>)

HBOMaxContent ==
  <<Fill, Align("center"), Text(W \div 2, 80, 45, "HBO MAX"),
    Box(0, 100, W, 200), Text(W \div 2, 180, 36, "Featured Series")>>
  \o Each(8, LAMBDA i : <<Box(Centred(4, 100, 15) + (i % 4) * 115,
                              320 + (i \div 4) * 135, 100, 120)>>)

RecordingsScreen ==
  <<Fill, Align("center"), Text(W \div 2, 80, 42, "My Recordings")>>
  \o Each(4, LAMBDA i :
       LET y == 140 + i * 75
       IN  <<Box(50, y, W - 100, 60),
             Align("left"), Text(70, y + 25, 20, "Series: Drama Ep.5"),
             Align("right"), Text(W - 70, y + 25, 20, "1h 45m * Today")>>)
  \o <<Align("center"),
       Text(W \div 2, H - 50, 18, "Press Record to schedule new recording")>>

ScheduleScreen ==
  <<Fill, Align("center"), Text(W \div 2, 80, 42, "Scheduled Recordings")>>
  \o Each(3, LAMBDA i :
       LET y == 130 + i * 67
       IN  <<Box(60, y, W - 120, 55),
             Align("left"), Text(75, y + 22, 18, "News at 6PM"),
             Text(W - 75, y + 22, 14, "Channel 1 * Today 6:00 PM")>>)

(* Sixths of the circle, 120 across and 100 high around the centre         *)
SleepTimerScreen ==
  <<Fill, Align("center"), Text(W \div 2, 100, 36, "Sleep Timer")>>
  \o Each(6, LAMBDA i :
       LET x == W \div 2 + <<0, 104, 104, 0, -104, -104>>[i + 1]
           y == 280 + <<-100, -50, 50, 100, 50, -50>>[i + 1]
       IN  <<Disc(x, y, 50), Text(x, y + 5, 14, "120 min")>>)
  \o <<Text(W \div 2, H - 80, 18, "Auto-off when timer ends")>>

CalibrationScreen ==
  <<Fill, Align("center"), Text(W \div 2, 70, 38, "Picture Settings")>>
  \o Each(6, LAMBDA i :
       LET x == Centred(6, 100, 10) + i * 110
       IN  <<Box(x, 130, 100, 50), Text(x + 50, 160, 16, "Natural")>>)
  \o Each(6, LAMBDA i :
       LET y == 250 + i * 45
       IN  <<Align("left"), Text(80, y + 20, 16, "Brightness"),
             Box(200, y, W - 280, 25), Box(200, y, (W - 280) \div 2, 25)>>)
  \o <<Align("center"),
       Text(W \div 2, 560, 16, "HDR Mode: Auto | Game | Film"),
       Text(W \div 2, 590, 16, "Motion: Clear | Auto | LED")>>

MusicPlayerScreen ==
  <<Fill>>
  \o Each(32, LAMBDA i : <<Box(i * 16, H - 220, 14, 70)>>)
  \o <<Box(50, 150, 120, 120), Align("left"),
       Text(190, 200, 22, "Track Title"), Text(190, 230, 16, "Artist Name"),
       Box(50, 300, W - 100, 8), Align("center"),
       Text(W \div 2, 350, 32, "<< | > | >>"),
       Text(W \div 2, 385, 14, "0:45 --------------- 2:30")>>

SettingsNames ==
  <<"Network", "Sound", "Picture", "General", "Apps", "System">>

SettingsScreen ==
  <<Fill, Align("center"), Text(W \div 2, 60, 36, "Settings")>>
  \o Each(6, LAMBDA i :
       LET y == 100 + i * 60
       IN  <<Box(40, y, W - 80, 50), Align("left"), Text(55, y + 32, 20, "##"),
             Text(100, y + 32, 20, SettingsNames[i + 1]),
             Align("right"), Text(W - 60, y + 32, 20, "Connected")>>)
  \o <<Align("center"), Text(W \div 2, H - 30, 14,
                             "Version 1.0.0 | Model: Phillips Smart TV")>>

CastScreen ==
  <<Fill, Align("center"), Text(W \div 2, 100, 48, "## Cast"),
    Disc(W \div 2, 300, 80), Disc(W \div 2, 300, 50),
    Text(W \div 2, 450, 20, "Searching for devices...")>>
  \o Each(3, LAMBDA i :
       <<Box(100, 520 + i * 50, W - 200, 40),
         Text(W \div 2, 545 + i * 50, 16,
              <<"Living Room TV", "Bedroom TV", "Soundbar">>[i + 1])>>)

GamingDashboardScreen ==
  <<Fill, Align("center"), Text(W \div 2, 80, 42, "Gaming Hub")>>
  \o Each(4, LAMBDA i :
       LET x == Centred(4, 140, 15) + i * 155
       IN  <<Box(x, 150, 140, 120), Text(x + 70, 200, 32, "##"),
             Text(x + 70, 240, 14,
               <<"Cloud Gaming", "Game Apps", "Remote Play", "Steam Link">>
                 [i + 1])>>)
  \o <<Text(W \div 2, 350, 24, "Game Mode: ON | Low Latency"),
       Text(W \div 2, 385, 24, "VRR / ALLM: Supported")>>

-----------------------------------------------------------------------------
(* Television shows; name is the number of characters of the show's name   *)

Mid == W \div 2
Live == <<Disc(30, 30, 8), Text(45, 35, 18, "LIVE")>>

NewsShow(name) ==
  <<Fill, Box(0, Pc(60), W, Pc(40)), Box(Pc(20), Pc(65), Pc(60), Pc(30)),
    Box(0, 0, W, 60), Align("center"), Text(Mid, 40, 32, "BREAKING NEWS"),
    Box(-200, H - 50, W + 200, 20)>>  \* the ticker, from side to side
  \o Each(4, LAMBDA i :
       <<Text(Mid, 100 + i * 40, 24, "* Major Development in Technology")>>)

SportsShow(name) ==
  <<Fill, Box(Mid, 0, 1, H), Disc(Mid, Mid, 80), Box(Mid - 150, 20, 300, 80),
    Text(Mid, 70, 36, "HOME 24 - 18 AWAY"), Disc(30, 30, 8),
    Text(45, 35, 16, "LIVE")>>
  \o Each(10, LAMBDA i : <<Oval(IF i < 5 THEN Mid + 100 ELSE Mid - 100,
                                Mid, 42, 72)>>)
  \o <<Words(Mid, H - 40, 28, name)>>

DramaShow(name) ==
  <<Fill>> \o Each(3, LAMBDA i : <<Oval(Pc(20 + i * 30), Pc(70), 36, 72)>>)
  \o <<Align("center"), Words(Mid, Mid - 50, 42, name),
       Text(Mid, Mid, 20, "Season 3 * Episode 12"), Fill>>

ComedyShow(name) ==
  <<Fill>>
  \o Each(5, LAMBDA i :
       Keep(<<Align("center"), Swinging(Text(Pc(10 + i * 20), Pc(30), 52, "Ha"), 20)>>))
  \o <<Words(Mid, Mid, 36, name), Text(Mid, Mid + 40, 20, "LAUGH TRACK")>>

MovieShow(name) ==
  <<Fill, Box(Pc(10), Pc(20), Pc(80), Pc(60)), Fill, Align("center"),
    Words(Mid, Mid, 40, name), Text(Mid, Mid + 40, 24, "5 Stars"),
    Text(Mid, Mid + 70, 18, "Now Playing")>>

CartoonShow(name) ==
  <<Fill>>
  \o Each(4, LAMBDA i : <<Oval(Pc(15 + i * 25), Pc(60), 50, 55)>>)
  \o <<Words(Mid, 80, 32, name), Fill>>

MusicShow(name) ==
  <<Fill>>
  \o Each(20, LAMBDA i : <<Box((W * (i + 1)) \div 21 - 12, Pc(40), 22, Pc(60))>>)
  \o <<Words(Mid, 80, 36, name), Text(Mid, 120, 24, "Now Playing")>>

WeatherShow(name) ==
  <<Fill, Disc(Pc(70), Pc(30), 45)>>
  \o Each(3, LAMBDA i : <<Box(-70, Pc(40) + i * 30 - 25, W + 190, 50)>>)
  \o <<Text(Mid, Mid, 48, "72oF"),
       Text(Mid, Mid + 40, 24, "Sunny * Partly Cloudy"),
       Words(Mid, H - 40, 24, name)>>

HorrorShow(name) ==
  <<Fill, Fill, Oval(Mid, Pc(70), 60, 120), Disc(Mid - 20, Pc(70) - 30, 8),
    Disc(Mid + 20, Pc(70) - 30, 8), Words(Mid, Mid, 40, name)>>

DocumentaryShow(name) ==
  <<Fill>>
  \o Each(5, LAMBDA i : <<Box(Pc(10 + i * 20) - 5, Pc(70), 10, 60),
                          Disc(Pc(10 + i * 20), Pc(70), 25)>>)
  \o <<Oval(Mid, Pc(65), 90, 25), Words(Mid, 80, 32, name),
       Text(Mid, H - 40, 18, "Exploring Nature")>>

(* Mutant: the name is not centred. *)
GeneralUnaligned(name) ==
  <<Fill, Words(Mid, Mid - 20, 40, name),
    Text(Mid, Mid + 20, 24, "Shopping"), Text(Mid, H - 40, 20, "Channel 999")>>

GeneralTVShow(name) ==
  <<Fill, Align("center"), Words(Mid, Mid - 20, 40, name),
    Text(Mid, Mid + 20, 24, "Shopping"), Text(Mid, H - 40, 20, "Channel 999")>>

BigRedDogShow(name) ==
  <<Fill, Box(0, Pc(70), W, Pc(30)), Oval(Mid, Pc(65), 75, 100),
    Disc(Mid, Pc(65) - 48, 63)>>
  \o Each(2, LAMBDA i : <<Disc(Mid - 20 + i * 40, Pc(65) - 60, 12),
                          Disc(Mid - 20 + i * 40, Pc(65) - 60, 6)>>)
  \o <<Oval(Mid, Pc(65) - 36, 8, 6)>>
  \o Keep(<<Box(Mid + 5, Pc(65) - 44, 25, 4), Box(Mid + 5, Pc(65) - 44, 5, 4)>>
          \o Each(8, LAMBDA i : <<Oval(Mid - i * 5, Pc(65) - 44, 6 + i, 5 + i)>>))
  \o <<Align("center"), Text(Mid, 60, 28, "Big Red Dog")>>

PabstShow(name) ==
  <<Fill, Box(0, Pc(60), W, Pc(40))>>
  \o Keep(<<Box(Mid - 20, Mid - 40, 40, 80), Oval(Mid, Mid - 40, 20, 5),
            Align("center"), Text(Mid, Mid - 10, 16, "PABST"),
            Text(Mid, Mid + 10, 16, "BLUE RIBBON")>>)
  \o <<Box(Pc(30) - 35, Pc(70) - 40, 70, 60), Box(Pc(30) - 60, Pc(70) - 60, 120, 25),
       Align("center"), Text(Pc(30), Pc(70) - 45, 14, "Car Broke"),
       Text(Mid, 50, 24, "Pabst Blue Ribbon")>>

LifeguardShow(name) ==
  <<Fill>>
  \o Each(10, LAMBDA i : Each(6, LAMBDA j : <<Box(i * 80, j * 60, 80, 60)>>))
  \o Each(5, LAMBDA i : <<Disc(Pc(20 + i * 15), Pc(60), 40)>>)
  \o <<Box(Pc(85) - 3, Pc(30), 6, 150), Box(Pc(85) - 25, Pc(30), 50, 20),
       Oval(Pc(85), Pc(30) - 20, 18, 15), Box(Pc(85) - 23, Pc(30) - 30, 46, 10),
       Box(Pc(85) - 5, Pc(30) - 28, 10, 6)>>
  \o Live \o <<Text(Mid, 50, 24, "Pool Lifeguard Live")>>

CupsShow(name) ==
  <<Fill, Box(0, Pc(70), W, Pc(30))>>
  \o Each(4, LAMBDA i :
       LET x == Pc(20 + i * 20)
           y == Pc(<<60, 65, 60, 65>>[i + 1])
           s == <<40, 36, 44, 38>>[i + 1]
       IN  Keep(<<Oval(x, y, (s * 2) \div 5, s),
                  Oval(x, y - s, (s * 2) \div 5, 8),
                  Disc(x + s \div 2, y - (s * 3) \div 10, s \div 4)>>))
  \o <<Align("center"), Text(Mid, H - 80, 20, "The Fascinating World of Cups"),
       Text(Mid, H - 50, 20, "Episode 7: Ceramic vs. Porcelain"),
       Text(Mid, 50, 28, "Cup Show")>>

TrashCanShow(name) ==
  <<Fill, Box(0, Pc(75), W, Pc(25))>>
  \o Keep(<<Box(Mid - 30, Pc(70) - 60, 60, 120), Oval(Mid, Pc(70) - 60, 30, 8),
            Disc(Mid, Pc(70), 50), Disc(Mid - 15, Pc(70) - 30, 8),
            Disc(Mid + 15, Pc(70) - 30, 8), Disc(Mid, Pc(70) - 10, 15)>>)
  \o Each(15, LAMBDA i : <<Oval(Mid, Pc(70), 53, 43)>>)
  \o <<Text(Mid, 50, 26, "Trash Can Life")>>

(* A monster that shrinks until it is a kid that grows, and back           *)
LochNessShow(name) ==
  <<Fill>>
  \o Each(8, LAMBDA i : <<Disc(Pc(10 + i * 10), Pc(70), 28)>>)
  \o <<Oval(Mid, Pc(60), 80, 48), Oval(Mid, Pc(60) - 100, 32, 24),
       Disc(Mid - 10, Pc(60) - 105, 5), Disc(Mid + 10, Pc(60) - 105, 5),
       Disc(Mid, Pc(60) + 30, 40), Disc(Mid, Pc(60) - 20, 32),
       Disc(Mid - 5, Pc(60) - 15, 2), Disc(Mid + 5, Pc(60) - 15, 2),
       Box(Mid - 8, Pc(60) + 30, 16, 5),
       Disc(Pc(20), Pc(70), 15), Box(Pc(20), Pc(70) - 10, 20, 10),
       Text(Mid, 50, 24, "Loch Ness Kid")>>

BananaShow(name) ==
  <<Fill>>
  \o Each(8, LAMBDA i : Each(5, LAMBDA j : <<Box(i * 100, j * 80, 100, 80)>>))
  \o Keep(<<Oval(Mid, Pc(70), 60, 40), Oval(Mid, Pc(70), 55, 45),
            Oval(Mid - 50, Pc(70) + 5, 10, 8)>>)
  \o <<Align("center"), Text(Mid, H - 100, 32, "Rotten"),
       Text(Mid, 50, 26, "Rotten Banana")>>

DrivingShow(name) ==
  <<Fill, Box(0, Pc(60), W, Pc(40)), Box(Mid, Pc(60), 1, Pc(40)),
    Box(Mid - 40, Pc(75) - 22, 80, 34), Box(Mid - 25, Pc(75) - 42, 50, 29),
    Box(Mid - 20, Pc(75) - 37, 20, 19), Box(Mid, Pc(75) - 37, 20, 19)>>
  \o Each(2, LAMBDA i :
       Keep(<<Disc(Mid - 25 + i * 50, Pc(75) + 10, 14),
              Disc(Mid - 25 + i * 50, Pc(75) + 10, 10)>>))
  \o <<Disc(Mid, Pc(75) - 20, 7)>>
  \o Each(5, LAMBDA i :  \* trees drift to the left and come again
       <<Box(Pc(10 + i * 20) - Pc(120) - 20, Mid - 20, Pc(120) + 40, 60)>>)
  \o <<Text(Mid, 40, 24, "SPEED: 65 MPH"),
       Text(Mid, H - 30, 20, "Endless Drive")>>

(* The smoke rises with the time since 1970, never less than Epoch seconds *)
Epoch == 100000000

OceanVolcanoShow(name) ==
  LET x == Pc(85)  y == Pc(60)
  IN  <<Box(0, 0, W, Pc(60)), Disc(Pc(80), Pc(30), 60),
        Box(0, Pc(60), W, Pc(40))>>
      \o Each(3, LAMBDA i : <<Box(0, Pc(60) + i * 20 - 5, W, 10)>>)
      \o <<Box(x - 80, y - 120, 160, 120), Box(x - 20, y - 140, 40, 20)>>
      \o Each(3, LAMBDA i : <<Oval(x - 5, y - 100 + i * 15, 15, 5)>>)
      \o Each(5, LAMBDA i :
           <<Oval(x - 15, y - 140 - i * 15 - Epoch * 10, 38 + i * 2, 8 + i * 2)>>)
      \o Live \o <<Text(Mid, 60, 24, "Ocean Meets Volcano")>>

FridgePlanetShow(name) ==
  <<Fill>>
  \o Each(50, LAMBDA i : <<Box((i * 37) % W, (i * 73) % H, 2, 2)>>)
  \o <<Box(Mid - 60, Mid - 100, 120, 200), Box(Mid + 52, Mid - 40, 8, 50),
       Box(Mid, Mid - 100, 1, 200), Box(Mid - 52, Mid - 85, 52, 170),
       Box(Mid - 45, Mid - 55, 20, 50), Disc(Mid - 15, Mid, 20),
       Oval(Mid, Mid + 105, 90, 20)>>
  \o Each(3, LAMBDA i : <<Oval(Mid, Mid, 132, 142)>>)
  \o <<Text(Mid, 50, 26, "Fridge Planet"),
       Text(Mid, H - 40, 18, "Season 2 * Episode 5")>>

ToasterShow(name) ==
  <<Fill, Box(0, Pc(70), W, Pc(30)), Box(Mid - 40, Pc(65) - 32, 80, 64),
    Box(Mid - 35, Pc(65) - 27, 30, 54), Box(Mid + 5, Pc(65) - 27, 30, 54),
    Box(Mid - 32, Pc(65) - 82, 26, 45), Box(Mid + 6, Pc(65) - 82, 26, 45),
    Disc(Mid - 15, Pc(65) - 10, 5), Disc(Mid + 15, Pc(65) - 10, 5),
    Oval(Mid, Pc(65) + 5, 8, 8), Box(Mid - 60, Pc(65) - 82, 120, 34),
    Align("center"), Text(Mid, Pc(65) - 60, 16, "I toast!"),
    Text(Mid, 50, 24, "Talking Toaster")>>

CloudsShow(name) ==
  <<Fill>>
  \o Each(6, LAMBDA i :
       LET s == 40 + (i % 3) * 20
       IN  <<Box(-75 - s, Pc(20 + (i % 3) * 25) - s, W + 150 + 3 * s, 2 * s)>>)
  \o <<Disc(Pc(85), Pc(20), 30), Align("center"),
       Text(Mid, H - 60, 32, "Just Breathe..."),
       Text(Mid, 50, 28, "Cloud Watching")>>

PaintShow(name) ==
  <<Fill, Box(Mid - 100, Mid - 75, 200, 150), Box(Mid - 80, Mid - 55, 60, 30)>>
  \o Each(5, LAMBDA i : <<Box(Mid - 100 + i * 40, Mid - 75, 10, 150)>>)
  \o <<Align("center"), Text(Mid, Mid + 115, 24, "Drying Time: 23h 59m")>>
  \o Live \o <<Text(Mid, 50, 26, "Paint Drying Live")>>

RubberDuckShow(name) ==
  <<Fill>>
  \o Each(3, LAMBDA i : <<Box(0, Mid + i * 15 - 3, W, 6)>>)
  \o <<Oval(Mid, Pc(60), 90, 43), Oval(Mid + 25, Pc(60) - 10, 75, 38),
       Oval(Mid + 40, Pc(60) - 5, 65, 21), Oval(Mid + 30, Pc(60) - 15, 53, 16)>>
  \o Each(3, LAMBDA i : <<Disc(Pc(10 + i * 30), Pc(70), 20 + i * 5),
                          Disc(Pc(10 + i * 30), Pc(70) - 15, 8)>>)
  \o <<Box(Pc(80) - 15, Pc(65), 30, 20), Box(Pc(80) - 10, Pc(65) - 5, 20, 5),
       Text(Mid, 50, 26, "Rubber Duck Adventures")>>

(* While the TV switches on: logo, spinner, welcome, by brightness         *)
BootSequence(percent) ==
  <<Box(-512, -512, 1536, 1536)>>  \* waves and particles
  \o CASE percent < 30 ->
            Keep(<<Align("center"), Text(Mid, Mid - 50, 60, "PHILIPS"),
                   Text(Mid, Mid + 20, 24, "Smart TV")>>)
       [] percent >= 30 /\ percent < 70 ->
            <<Fill>> \o Keep(<<Disc(Mid, Mid, 40)>>)
            \o <<Align("center"), Text(Mid, Mid + 80, 32, "Starting..."),
                 Box(Pc(20), Mid + 110, Pc(60), 6), Disc(Mid, Mid, 73)>>
       [] OTHER ->
            Keep(<<Fill, Align("center"), Text(Mid, Mid - 30, 48, "Welcome")>>
                 \o Each(3, LAMBDA i : <<Disc(Mid + (i - 1) * 30, Mid + 30, 5)>>))

-----------------------------------------------------------------------------
(* What updateTVScreen draws itself, around the content of a bright screen,*)
(* with the longest texts there are.  An input's name hangs from its point.*)

ChannelNumber == Keep(<<Align("center"), Text(Mid, Mid - 100, 48, "CH 999")>>)

VolumeBar ==
  <<Box(Mid - 100, H - 80, 200, 20), Align("center"), Text(Mid, H - 110, 24, "100%")>>
  \o Each(10, LAMBDA i : <<Disc(Mid - 100 + (200 * (i + 1)) \div 11, H - 70, 2)>>)

ChannelOverlay ==
  Keep(<<Box(Mid - 100, 40, 200, 80), Align("center"), Text(Mid, 75, 48, "CH 999"),
         Text(Mid, 105, 20, "Channel")>>)

InputLabel ==
  Keep(<<Box(W - 150, 10, 140, 30), Align("right"), Text(W - 10, 15 + 18, 18, "Component")>>)

(* An app on its way in, in place of its content: the old one slides out,  *)
(* a bar loads, the logo comes, the name fades in.                         *)
AppSwitch(phase) ==
  CASE phase = "slideOut" -> Keep(<<Align("center"), Text(Mid, Mid, 36, "Amazon Prime")>>)
    [] phase = "loading" ->
         <<Fill, Box(Pc(20), Pc(70), Pc(60), 8)>>
         \o Keep(<<Align("center"), Text(Mid, Pc(70) - 30, 24, "Loading...")>>)
    [] phase = "logo" ->
         <<Fill>> \o Keep(<<Align("center"), Text(Mid, Mid, 80, "PRIME"),
                            Text(Mid, Mid + 60, 32, "Amazon Prime")>>)
    [] phase = "content" ->
         <<Fill>> \o Keep(<<Align("center"), Text(Mid, Mid, 48, "Amazon Prime")>>)

=============================================================================
