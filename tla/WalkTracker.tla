----------------------------- MODULE WalkTracker -----------------------------
(***************************************************************************)
(* MapViewController: the map screen that times a walk and collects its    *)
(* track, from its opening to the moment it hands the track to a new form. *)
(*                                                                         *)
(* Four timers run on the main run loop: the clock (timer, 1 s), the       *)
(* sampler (Annotationtimer, 5 s) and the background samplers (tstTimer,   *)
(* 10 s).  A new background sampler is scheduled each time the app resigns *)
(* active and only the last one scheduled can still be invalidated: the    *)
(* others are leaked and run for as long as the process does.              *)
(*                                                                         *)
(* Time is the number of clock ticks, a place is a point of a line and a   *)
(* distance a number of metres.  Once the screen has handed over its track *)
(* it stays alive under the form.  It is a sheet: swiped down, it is freed *)
(* unless a timer holds on to it, and then runs on with nothing to stop it.*)
(***************************************************************************)
EXTENDS Integers, Sequences

CONSTANTS
    Unknown,     \* no location: services off, no permission or no fix yet
    Places,      \* the places the device can be at
    MaxTicks,    \* bound: ticks of the clock
    MaxPoints,   \* bound: points of a track
    MaxTimers    \* bound: leaked background samplers

ASSUME PlacesAreInt == Places \subseteq Int /\ Unknown \notin Int
ASSUME TrackerBounds == MaxTicks \in Nat /\ MaxPoints \in Nat /\ MaxTimers \in Nat

VARIABLES
    here,        \* locationManager.location
    active,      \* the app is active
    screen,      \* "map", "alert" (clear?), "form" (handed over), "crashed",
                 \* swiped down and "closed" (alive still) or "gone"
    play,        \* the button says play: no walk is under way
    counter,     \* ticks counted
    time,        \* TimeSet, as the number of seconds it shows
    km,          \* KiloMeters, as the number of metres it shows
    locations,   \* the track
    save,        \* SaveButton.isEnabled
    clock,       \* timer is scheduled
    sampler,     \* Annotationtimer is scheduled
    background,  \* the tstTimer that can be invalidated is scheduled
    leaked,      \* tstTimers scheduled that nothing refers to any more
    handed,      \* what the new form was given, <<>> before
    resumed,     \* history: a start has added a point that no sample has measured
    bare         \* history: the app resigned active over an empty track since the
                 \* background sampler was last invalidated

vars == <<here, active, screen, play, counter, time, km, locations, save, clock,
          sampler, background, leaked, handed, resumed, bare>>

TypeOK ==
    /\ here \in Places \cup {Unknown}
    /\ {active, play, save, clock, sampler, background, resumed, bare} \subseteq BOOLEAN
    /\ screen \in {"map", "alert", "form", "crashed", "closed", "gone"}
    /\ counter \in 0..MaxTicks /\ time \in 0..MaxTicks
    /\ km \in Nat
    /\ locations \in Seq(Places) /\ Len(locations) <= MaxPoints
    /\ leaked \in 0..MaxTimers
    /\ handed = <<>> \/ handed \in [time : Nat, km : Nat, locations : Seq(Places)]

Distance(from, to) == IF from < to THEN to - from ELSE from - to

\* The loop of update: the sum of the distances between neighbours.
Total(track) ==
    LET upTo[n \in 0..Len(track)] ==
            IF n < 2 THEN 0 ELSE upTo[n - 1] + Distance(track[n - 1], track[n])
    IN  upTo[Len(track)]

\* The screen as the storyboard and viewDidLoad leave it.
Init ==
    /\ here \in Places \cup {Unknown}
    /\ active = TRUE /\ screen = "map" /\ play = TRUE
    /\ counter = 0 /\ time = 0 /\ km = 0 /\ locations = <<>>
    /\ save = FALSE
    /\ clock = FALSE /\ sampler = FALSE /\ background = FALSE /\ leaked = 0
    /\ handed = <<>>
    /\ resumed = FALSE /\ bare = FALSE

OnMap   == active /\ screen = "map"
Running == screen \notin {"crashed", "gone"}

-----------------------------------------------------------------------------
(* The user *)

\* StartWalk while play is true.  Without a location nothing is scheduled, and
\* the walk counts as started all the same.
StartTapped ==
    /\ OnMap /\ play
    /\ save' = FALSE
    /\ play' = FALSE
    /\ \/ /\ here # Unknown
          /\ Len(locations) < MaxPoints
          /\ locations' = Append(locations, here)
          /\ clock' = TRUE /\ sampler' = TRUE
          /\ resumed' = TRUE
       \/ /\ here = Unknown
          /\ UNCHANGED <<locations, clock, sampler, resumed>>
    /\ UNCHANGED <<here, active, screen, counter, time, km, background, leaked, handed, bare>>

\* (mutant: only the clock and the background sampler are invalidated)
StopForgetsSampler ==
    /\ OnMap /\ ~play
    /\ save' = TRUE
    /\ play' = TRUE
    /\ clock' = FALSE /\ background' = FALSE
    /\ bare' = FALSE
    /\ UNCHANGED <<here, active, screen, counter, time, km, locations, sampler, leaked,
                   handed, resumed>>

\* StartWalk while play is false.
StopTapped ==
    /\ OnMap /\ ~play
    /\ save' = TRUE
    /\ play' = TRUE
    /\ clock' = FALSE /\ sampler' = FALSE /\ background' = FALSE
    /\ bare' = FALSE
    /\ UNCHANGED <<here, active, screen, counter, time, km, locations, leaked, handed,
                   resumed>>

\* ClearWalk; the reset button is hidden during a walk.
ClearTapped ==
    /\ OnMap /\ play
    /\ screen' = "alert"
    /\ UNCHANGED <<here, active, play, counter, time, km, locations, save, clock, sampler,
                   background, leaked, handed, resumed, bare>>

ClearCancelled ==
    /\ active /\ screen = "alert"
    /\ screen' = "map"
    /\ UNCHANGED <<here, active, play, counter, time, km, locations, save, clock, sampler,
                   background, leaked, handed, resumed, bare>>

\* (mutants: the labels keep their text; the background sampler is not invalidated)
ClearKeepsLabels ==
    /\ active /\ screen = "alert"
    /\ screen' = "map"
    /\ save' = FALSE
    /\ clock' = FALSE /\ background' = FALSE
    /\ counter' = 0
    /\ locations' = <<>>
    /\ resumed' = FALSE /\ bare' = FALSE
    /\ UNCHANGED <<here, active, play, time, km, sampler, leaked, handed>>

ClearKeepsBackground ==
    /\ active /\ screen = "alert"
    /\ screen' = "map"
    /\ save' = FALSE
    /\ clock' = FALSE
    /\ counter' = 0 /\ time' = 0 /\ km' = 0
    /\ locations' = <<>>
    /\ resumed' = FALSE
    /\ UNCHANGED <<here, active, play, sampler, background, leaked, handed, bare>>

\* The sampler is not invalidated here.
ClearConfirmed ==
    /\ active /\ screen = "alert"
    /\ screen' = "map"
    /\ save' = FALSE
    /\ clock' = FALSE /\ background' = FALSE
    /\ counter' = 0 /\ time' = 0 /\ km' = 0
    /\ locations' = <<>>
    /\ resumed' = FALSE /\ bare' = FALSE
    /\ UNCHANGED <<here, active, play, sampler, leaked, handed>>

\* SaveDataInfo, prepare(for:): the labels and the track go to the new form.
SaveTapped ==
    /\ OnMap /\ save
    /\ handed' = [time |-> time, km |-> km, locations |-> locations]
    /\ screen' = "form"
    /\ UNCHANGED <<here, active, play, counter, time, km, locations, save, clock, sampler,
                   background, leaked, resumed, bare>>

\* The sheet is swiped down: the timers are not invalidated, and each of them
\* refers to the view controller, by its target or in its block.
SheetClosed ==
    /\ OnMap
    /\ screen' = IF clock \/ sampler \/ background \/ leaked > 0 THEN "closed" ELSE "gone"
    /\ UNCHANGED <<here, active, play, counter, time, km, locations, save, clock, sampler,
                   background, leaked, handed, resumed, bare>>

-----------------------------------------------------------------------------
(* The timers, the device and the system *)

\* updateCounter: the count is shown, then incremented.
ClockTicks ==
    /\ Running /\ clock
    /\ counter < MaxTicks
    /\ time' = counter
    /\ counter' = counter + 1
    /\ UNCHANGED <<here, active, screen, play, km, locations, save, clock, sampler,
                   background, leaked, handed, resumed, bare>>

\* The block of update: the location is unwrapped, whether there is one or not.
SamplerFires ==
    /\ Running /\ sampler
    /\ Len(locations) < MaxPoints
    /\ IF here = Unknown
       THEN screen' = "crashed" /\ UNCHANGED <<locations, km, resumed>>
       ELSE /\ locations' = Append(locations, here)
            /\ km' = Total(locations')
            /\ resumed' = FALSE
            /\ UNCHANGED screen
    /\ UNCHANGED <<here, active, play, counter, time, save, clock, sampler, background,
                   leaked, handed, bare>>

\* (mutant: the background sampler takes the location of the device)
BackgroundLocates ==
    /\ Running /\ (background \/ leaked > 0)
    /\ Len(locations) < MaxPoints
    /\ IF here = Unknown
       THEN screen' = "crashed" /\ UNCHANGED locations
       ELSE locations' = Append(locations, here) /\ UNCHANGED screen
    /\ UNCHANGED <<here, active, play, counter, time, km, save, clock, sampler, background,
                   leaked, handed, resumed, bare>>

\* The block of a background sampler: the last point is unwrapped and repeated.
BackgroundFires ==
    /\ Running /\ (background \/ leaked > 0)
    /\ Len(locations) < MaxPoints
    /\ IF locations = <<>>
       THEN screen' = "crashed" /\ UNCHANGED locations
       ELSE locations' = Append(locations, locations[Len(locations)]) /\ UNCHANGED screen
    /\ UNCHANGED <<here, active, play, counter, time, km, save, clock, sampler, background,
                   leaked, handed, resumed, bare>>

\* applicationWillResignActive: also without a walk, and after the hand-over.
ResignsActive ==
    /\ Running /\ active
    /\ active' = FALSE
    /\ background' = TRUE
    /\ bare' = (locations = <<>>)
    /\ IF background THEN leaked < MaxTimers /\ leaked' = leaked + 1
                     ELSE UNCHANGED leaked
    /\ UNCHANGED <<here, screen, play, counter, time, km, locations, save, clock, sampler,
                   handed, resumed>>

BecomesActive ==
    /\ Running /\ ~active
    /\ active' = TRUE
    /\ UNCHANGED <<here, screen, play, counter, time, km, locations, save, clock, sampler,
                   background, leaked, handed, resumed, bare>>

\* The device moves, or gains or loses its location.
Moves ==
    /\ Running
    /\ here' \in (Places \cup {Unknown}) \ {here}
    /\ UNCHANGED <<active, screen, play, counter, time, km, locations, save, clock, sampler,
                   background, leaked, handed, resumed, bare>>

-----------------------------------------------------------------------------
User   == StartTapped \/ StopTapped \/ ClearTapped \/ ClearCancelled \/ ClearConfirmed
          \/ SaveTapped \/ SheetClosed
Timers == ClockTicks \/ SamplerFires \/ BackgroundFires
Next   == User \/ Timers \/ ResignsActive \/ BecomesActive \/ Moves

Spec == Init /\ [][Next]_vars

-----------------------------------------------------------------------------
(* Properties *)

\* The clock and the sampler belong to a walk under way that has a point: they
\* never run on after Stop, nor on an empty track (StartWalk, ClearWalk, which
\* does not invalidate the sampler and relies on Stop having done so).
TimersBelongToAWalk == clock \/ sampler => clock /\ sampler /\ ~play /\ locations # <<>>

\* The distance shown is the length of the track, background points included,
\* but for the leg to the point where the walk was last resumed, which the next
\* sample adds (update, tstTimer, StartWalk).
DistanceIsLength ==
    /\ km <= Total(locations)
    /\ ~resumed => km = Total(locations)

\* A form is only given a track once its clock and its sampler are stopped for good,
\* and the track is complete: it has points whenever it shows a time or a distance.  A
\* background sampler may still append to the track of the map screen; the form has a
\* copy of its own.
HandedTrackHasPoints ==
    handed # <<>> =>
        /\ play /\ ~clock /\ ~sampler
        /\ handed.time > 0 \/ handed.km > 0 => handed.locations # <<>>

\* What a forced unwrapping may cost: the process ends over an empty track only if the
\* app was left while it was empty, or left so often that a background sampler leaked,
\* so Clear never empties the track of a sampler that can be invalidated; and over a
\* track with points only in a walk under way whose device has lost its location.
CrashExplained ==
    [][screen # "crashed" /\ screen' = "crashed" =>
          IF locations = <<>> THEN bare \/ leaked > 0
                              ELSE ~play /\ sampler /\ here = Unknown]_vars
=============================================================================
