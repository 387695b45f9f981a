-------------------------- MODULE WalkTrackerProofs --------------------------
(***************************************************************************)
(* Proofs about WalkTracker for every set of places and every bound: the   *)
(* timers, what is handed over, when the process may end, and the          *)
(* distance, for which the recursive sum over the track is shown to be     *)
(* defined and to grow by one leg with every point.                        *)
(***************************************************************************)
EXTENDS WalkTracker, SequenceTheorems, WellFoundedInduction, TLAPS

\* The strengthening: Save is enabled and the clear alert is up only between
\* walks, the labels show something only for a track with points, and after the
\* hand-over nobody can start another walk on this screen; and the background
\* sampler that can be invalidated runs over an empty track only if the track was
\* empty when it was scheduled.
TrackInv ==
    /\ locations \in Seq(Places)
    /\ TimersBelongToAWalk
    /\ save => play
    /\ screen = "alert" => play
    /\ time > 0 \/ km > 0 => locations # <<>>
    /\ handed # <<>> => screen \in {"form", "crashed"} /\ play
    /\ HandedTrackHasPoints
    /\ background /\ locations = <<>> => bare

\* A track with one more point has points.
LEMMA OnePointMore ==
    ASSUME NEW track \in Seq(Places), NEW place \in Places
    PROVE  Append(track, place) \in Seq(Places) /\ Append(track, place) # <<>>
  BY AppendProperties, EmptySeq

\* Start and the samples add a point; nothing takes one but Clear.
LEMMA TrackStep == TrackInv /\ here \in Places \cup {Unknown} /\ [Next]_vars => TrackInv'
<1> SUFFICES ASSUME TrackInv, here \in Places \cup {Unknown}, [Next]_vars PROVE TrackInv'
  OBVIOUS
<1> USE DEF TrackInv, TimersBelongToAWalk, HandedTrackHasPoints
<1>1. CASE StartTapped
  <2>1. CASE here # Unknown
    <3>1. Append(locations, here) \in Seq(Places) /\ Append(locations, here) # <<>>
      BY <2>1, OnePointMore
    <3>2. QED
      BY <1>1, <2>1, <3>1 DEF StartTapped, OnMap
  <2>2. CASE here = Unknown
    BY <1>1, <2>2 DEF StartTapped, OnMap
  <2>3. QED
    BY <2>1, <2>2
<1>2. CASE StopTapped
  BY <1>2 DEF StopTapped, OnMap
<1>3. CASE ClearTapped \/ ClearCancelled \/ SheetClosed
  BY <1>3 DEF ClearTapped, ClearCancelled, SheetClosed, OnMap
<1>4. CASE ClearConfirmed
  <2>1. <<>> \in Seq(Places)
    BY EmptySeq
  <2>2. ~(time' > 0) /\ ~(km' > 0)
    BY <1>4 DEF ClearConfirmed
  <2>3. QED
    BY <1>4, <2>1, <2>2 DEF ClearConfirmed
<1>5. CASE SaveTapped
  <2>1. /\ handed'.time = time /\ handed'.km = km /\ handed'.locations = locations
    BY <1>5 DEF SaveTapped
  <2>2. QED
    BY <1>5, <2>1 DEF SaveTapped, OnMap
<1>6. CASE ClockTicks
  BY <1>6 DEF ClockTicks, Running
<1>7. CASE SamplerFires
  <2>1. CASE here = Unknown
    BY <1>7, <2>1 DEF SamplerFires, Running
  <2>2. CASE here # Unknown
    <3>1. Append(locations, here) \in Seq(Places) /\ Append(locations, here) # <<>>
      BY <2>2, OnePointMore
    <3>2. QED
      BY <1>7, <2>2, <3>1 DEF SamplerFires, Running
  <2>3. QED
    BY <2>1, <2>2
<1>8. CASE BackgroundFires
  <2>1. CASE locations = <<>>
    BY <1>8, <2>1 DEF BackgroundFires, Running
  <2>2. CASE locations # <<>>
    <3>1. locations[Len(locations)] \in Places
      BY <2>2, LenProperties, ElementOfSeq, EmptySeq DEF TrackInv
    <3>2. /\ Append(locations, locations[Len(locations)]) \in Seq(Places)
          /\ Append(locations, locations[Len(locations)]) # <<>>
      BY <3>1, OnePointMore
    <3>3. QED
      BY <1>8, <2>2, <3>2 DEF BackgroundFires, Running
  <2>3. QED
    BY <2>1, <2>2
<1>9. CASE ResignsActive \/ BecomesActive \/ Moves
  <2>1. CASE ResignsActive
    <3>1. locations' = <<>> => bare'
      BY <2>1, Zenon DEF ResignsActive
    <3>2. UNCHANGED <<screen, play, time, km, locations, save, clock, sampler, handed>>
      BY <2>1, Zenon DEF ResignsActive
    <3>3. QED
      BY <3>1, <3>2
  <2>2. CASE BecomesActive \/ Moves
    BY <2>2 DEF BecomesActive, Moves
  <2>3. QED
    BY <1>9, <2>1, <2>2
<1>10. CASE UNCHANGED vars
  BY <1>10 DEF vars
<1>11. QED
  BY <1>1, <1>2, <1>3, <1>4, <1>5, <1>6, <1>7, <1>8, <1>9, <1>10 DEF Next, User, Timers

LEMMA TrackInvHolds == Spec => [](TrackInv /\ here \in Places \cup {Unknown})
<1>1. Init => TrackInv /\ here \in Places \cup {Unknown}
  BY EmptySeq DEF Init, TrackInv, TimersBelongToAWalk, HandedTrackHasPoints
<1>2. here \in Places \cup {Unknown} /\ [Next]_vars => (here \in Places \cup {Unknown})'
  BY DEF Next, User, Timers, StartTapped, StopTapped, ClearTapped, ClearCancelled,
         ClearConfirmed, SaveTapped, SheetClosed, ClockTicks, SamplerFires, BackgroundFires,
         ResignsActive, BecomesActive, Moves, vars
<1>3. QED
  BY <1>1, <1>2, TrackStep, PTL DEF Spec

\* The clock and the sampler never outlive the walk they belong to.
THEOREM TimersEndWithTheWalk == Spec => []TimersBelongToAWalk
<1>1. TrackInv => TimersBelongToAWalk
  BY DEF TrackInv
<1>2. QED
  BY <1>1, TrackInvHolds, PTL

\* The clock and the sampler of a track that a form was given never run again, and the
\* track has points if its labels show anything.
THEOREM HandedTrackIsFinal == Spec => []HandedTrackHasPoints
<1>1. TrackInv => HandedTrackHasPoints
  BY DEF TrackInv
<1>2. QED
  BY <1>1, TrackInvHolds, PTL

\* A background sampler unwraps the last point of an empty track only if the app was left
\* over an empty track or one such sampler leaked, and the sampler a missing location only
\* during a walk.
THEOREM CrashesExplained == Spec => CrashExplained
<1> DEFINE Explained == IF locations = <<>> THEN bare \/ leaked > 0
                                           ELSE ~play /\ sampler /\ here = Unknown
<1>1. TrackInv /\ [Next]_vars => (screen # "crashed" /\ screen' = "crashed" => Explained)
  <2> SUFFICES ASSUME TrackInv, [Next]_vars, screen # "crashed", screen' = "crashed"
               PROVE  Explained
    OBVIOUS
  <2>1. SamplerFires \/ BackgroundFires
    BY DEF Next, User, Timers, StartTapped, StopTapped, ClearTapped, ClearCancelled,
           ClearConfirmed, SaveTapped, SheetClosed, ClockTicks, ResignsActive,
           BecomesActive, Moves, vars
  <2>2. CASE SamplerFires
    <3>1. sampler /\ here = Unknown
      BY <2>2 DEF SamplerFires
    <3>2. QED
      BY <3>1 DEF TrackInv, TimersBelongToAWalk
  <2>3. CASE BackgroundFires
    <3>1. locations = <<>> /\ (background \/ leaked > 0)
      BY <2>3 DEF BackgroundFires
    <3>2. QED
      BY <3>1 DEF TrackInv
  <2>4. QED
    BY <2>1, <2>2, <2>3
<1>2. QED
  BY <1>1, TrackInvHolds, PTL DEF Spec, CrashExplained
-----------------------------------------------------------------------------
(* The sum over the track.                                                 *)

\* Every set of natural numbers that is not empty has a least element.
LEMMA LeastNatural ==
    ASSUME NEW T, T \subseteq Nat, T # {}
    PROVE  \E x \in T : \A y \in T : x <= y
<1> DEFINE R == OpToRel(<, Nat)
<1>1. IsWellFoundedOn(R, Nat)
  BY NatLessThanWellFounded
<1>2. \A y, x \in Nat : <<y, x>> \in R <=> y < x
  BY DEF OpToRel
<1> HIDE DEF R
<1>3. PICK x \in T : \A y \in T : ~ (<<y, x>> \in R)
  BY <1>1, WFMin
<1>4. ASSUME NEW y \in T PROVE x <= y
  <2>1. x \in Nat /\ y \in Nat
    OBVIOUS
  <2>2. ~(y < x)
    BY <1>2, <1>3, <2>1, Zenon
  <2> QED
    BY <2>1, <2>2
<1> QED
  BY <1>4

LEMMA DistanceIsNat ==
    ASSUME NEW x \in Int, NEW y \in Int
    PROVE  Distance(x, y) \in Nat /\ Distance(x, x) = 0
BY DEF Distance

\* f holds the sums over the beginnings of the track, up to its n-th point.
Sums(f, track, n) ==
    /\ f \in [0..n -> Nat]
    /\ \A i \in 0..n :
          f[i] = IF i < 2 THEN 0 ELSE f[i - 1] + Distance(track[i - 1], track[i])

LEMMA SumsAgree ==
    ASSUME NEW track, NEW n \in Nat, NEW f, NEW g, NEW m \in Nat,
           Sums(f, track, n), Sums(g, track, m), n <= m
    PROVE  \A i \in 0..n : f[i] = g[i]
<1> DEFINE T == {i \in 0..n : f[i] # g[i]}
<1> SUFFICES ASSUME T # {} PROVE FALSE
  OBVIOUS
<1>1. T \subseteq Nat
  OBVIOUS
<1>2. PICK x \in T : \A y \in T : x <= y
  BY <1>1, LeastNatural
<1>3. x \in 0..n /\ x \in 0..m /\ f[x] # g[x]
  OBVIOUS
<1>4. x >= 2
  BY <1>3 DEF Sums
<1>5. x - 1 \in 0..n /\ ~(x <= x - 1)
  BY <1>3, <1>4
<1>6. f[x - 1] = g[x - 1]
  BY <1>2, <1>5
<1>7. f[x] = f[x - 1] + Distance(track[x - 1], track[x])
  BY <1>3, <1>4 DEF Sums
<1>8. g[x] = g[x - 1] + Distance(track[x - 1], track[x])
  BY <1>3, <1>4 DEF Sums
<1> QED
  BY <1>3, <1>6, <1>7, <1>8

LEMMA SumsMore ==
    ASSUME NEW track \in Seq(Int), NEW n \in Nat, n + 1 <= Len(track), NEW f,
           Sums(f, track, n)
    PROVE  \E g : Sums(g, track, n + 1)
<1> DEFINE leg == IF n + 1 < 2 THEN 0 ELSE f[n] + Distance(track[n], track[n + 1])
           g == [i \in 0..(n + 1) |-> IF i = n + 1 THEN leg ELSE f[i]]
<1>1. leg \in Nat
  <2>1. CASE n + 1 < 2
    BY <2>1
  <2>2. CASE ~(n + 1 < 2)
    <3>1. n \in 1..Len(track) /\ n + 1 \in 1..Len(track)
      BY <2>2, LenProperties
    <3>2. track[n] \in Int /\ track[n + 1] \in Int
      BY <3>1, ElementOfSeq
    <3>3. f[n] \in Nat
      BY DEF Sums
    <3>4. Distance(track[n], track[n + 1]) \in Nat
      BY <3>2, DistanceIsNat
    <3> QED
      BY <2>2, <3>3, <3>4
  <2> QED
    BY <2>1, <2>2
<1> HIDE DEF leg
<1>2. g \in [0..(n + 1) -> Nat]
  BY <1>1 DEF Sums
<1>3. \A i \in 0..n : g[i] = f[i]
  OBVIOUS
<1>4. g[n + 1] = leg
  OBVIOUS
<1> HIDE DEF g
<1>5. ASSUME NEW i \in 0..(n + 1)
      PROVE  g[i] = IF i < 2 THEN 0 ELSE g[i - 1] + Distance(track[i - 1], track[i])
  <2>1. CASE i = n + 1
    BY <1>3, <1>4, <2>1 DEF leg
  <2>2. CASE i # n + 1
    <3>1. i \in 0..n /\ (i < 2 \/ i - 1 \in 0..n)
      BY <2>2
    <3>2. f[i] = IF i < 2 THEN 0 ELSE f[i - 1] + Distance(track[i - 1], track[i])
      BY <3>1 DEF Sums
    <3>3. g[i] = f[i] /\ (i < 2 \/ g[i - 1] = f[i - 1])
      BY <1>3, <3>1
    <3> QED
      BY <3>2, <3>3
  <2> QED
    BY <2>1, <2>2
<1>6. Sums(g, track, n + 1)
  BY <1>2, <1>5 DEF Sums
<1> QED
  BY <1>6

LEMMA SumsExist ==
    ASSUME NEW track \in Seq(Int), NEW n \in Nat, n <= Len(track)
    PROVE  \E f : Sums(f, track, n)
<1> DEFINE T == {i \in 0..n : ~ \E f : Sums(f, track, i)}
<1>0. n \in 0..n
  OBVIOUS
<1> SUFFICES ASSUME T # {} PROVE FALSE
  BY <1>0, Zenon
<1>1. T \subseteq Nat
  OBVIOUS
<1>2. PICK x \in T : \A y \in T : x <= y
  BY <1>1, LeastNatural
<1>3. x \in 0..n /\ ~ \E f : Sums(f, track, x)
  OBVIOUS
<1>4. x # 0
  <2>1. Sums([i \in 0..0 |-> 0], track, 0)
    BY DEF Sums
  <2> QED
    BY <1>3, <2>1
<1>5. x - 1 \in 0..n /\ ~(x <= x - 1) /\ x - 1 \in Nat
  BY <1>3, <1>4
<1>6. PICK f : Sums(f, track, x - 1)
  BY <1>2, <1>5
<1>7. (x - 1) + 1 <= Len(track) /\ (x - 1) + 1 = x
  BY <1>3, LenProperties
<1>8. \E g : Sums(g, track, (x - 1) + 1)
  BY <1>5, <1>6, <1>7, SumsMore
<1> QED
  BY <1>3, <1>7, <1>8

\* The recursion of Total defines the last of the sums.
LEMMA TotalIsSum ==
    ASSUME NEW track \in Seq(Int), NEW f, Sums(f, track, Len(track))
    PROVE  Total(track) = f[Len(track)]
<1> DEFINE n == Len(track)
           G(g) == [i \in 0..n |-> IF i < 2 THEN 0
                                  ELSE g[i - 1] + Distance(track[i - 1], track[i])]
           u == CHOOSE g : g = G(g)
<1>1. n \in Nat
  BY LenProperties
<1>2. f = G(f)
  BY <1>1 DEF Sums
<1>3. u = G(u)
  BY <1>2
<1>4. Total(track) = u[n]
  BY DEF Total
<1> HIDE DEF u
<1>5. \A i \in 0..n : u[i] = IF i < 2 THEN 0
                             ELSE u[i - 1] + Distance(track[i - 1], track[i])
  BY <1>3
<1> DEFINE T == {i \in 0..n : f[i] # u[i]}
<1>6. T = {}
  <2> SUFFICES ASSUME T # {} PROVE FALSE
    OBVIOUS
  <2>1. T \subseteq Nat
    OBVIOUS
  <2>2. PICK x \in T : \A y \in T : x <= y
    BY <2>1, LeastNatural
  <2>3. x \in 0..n /\ f[x] # u[x]
    OBVIOUS
  <2>4. x >= 2
    BY <1>5, <2>3 DEF Sums
  <2>5. x - 1 \in 0..n /\ ~(x <= x - 1)
    BY <2>3, <2>4
  <2>6. f[x - 1] = u[x - 1]
    BY <2>2, <2>5
  <2>7. f[x] = f[x - 1] + Distance(track[x - 1], track[x])
    BY <2>3, <2>4 DEF Sums
  <2>8. u[x] = u[x - 1] + Distance(track[x - 1], track[x])
    BY <1>5, <2>3, <2>4
  <2> QED
    BY <2>3, <2>6, <2>7, <2>8
<1> QED
  BY <1>1, <1>4, <1>6

LEMMA EmptyTotal == Total(<<>>) = 0
<1> DEFINE f == [i \in 0..0 |-> 0]
<1>1. <<>> \in Seq(Int) /\ Len(<<>>) = 0
  BY EmptySeq
<1>2. Sums(f, <<>>, 0) /\ f[0] = 0
  BY DEF Sums
<1> HIDE DEF f
<1> QED
  BY <1>1, <1>2, TotalIsSum

\* One more point adds the leg that leads to it.
LEMMA TotalMore ==
    ASSUME NEW track \in Seq(Int), NEW place \in Int
    PROVE  /\ Total(track) \in Nat
           /\ Total(Append(track, place)) =
                 IF Len(track) = 0 THEN Total(track)
                 ELSE Total(track) + Distance(track[Len(track)], place)
<1> DEFINE n == Len(track)
           more == Append(track, place)
<1>1. more \in Seq(Int) /\ Len(more) = n + 1 /\ n \in Nat
  BY AppendProperties, LenProperties
<1>2. \A i \in 1..n : more[i] = track[i]
  BY AppendProperties
<1>3. more[n + 1] = place
  BY AppendProperties
<1> HIDE DEF more
<1>4. PICK f : Sums(f, track, n)
  BY <1>1, SumsExist
<1>5. PICK g : Sums(g, more, n + 1)
  BY <1>1, SumsExist
<1>6. Sums(f, more, n)
  <2>1. ASSUME NEW i \in 0..n
        PROVE  f[i] = IF i < 2 THEN 0 ELSE f[i - 1] + Distance(more[i - 1], more[i])
    <3>1. CASE i < 2
      BY <1>4, <3>1 DEF Sums
    <3>2. CASE ~(i < 2)
      <4>1. i \in 1..n /\ i - 1 \in 1..n
        BY <1>1, <3>2
      <4>2. more[i - 1] = track[i - 1] /\ more[i] = track[i]
        BY <1>2, <4>1
      <4>3. f[i] = f[i - 1] + Distance(track[i - 1], track[i])
        BY <1>4, <3>2 DEF Sums
      <4> QED
        BY <3>2, <4>2, <4>3
    <3> QED
      BY <3>1, <3>2
  <2> QED
    BY <1>4, <2>1 DEF Sums
<1>7. g[n] = f[n]
  <2>1. n + 1 \in Nat /\ n <= n + 1 /\ n \in 0..n
    BY <1>1
  <2>2. \A i \in 0..n : f[i] = g[i]
    BY <1>1, <1>5, <1>6, <2>1, SumsAgree
  <2> QED
    BY <2>1, <2>2
<1>8. Total(track) = f[n] /\ f[n] \in Nat
  <2>1. Total(track) = f[n]
    BY <1>4, TotalIsSum
  <2>2. n \in 0..n
    BY <1>1
  <2> QED
    BY <1>4, <2>1, <2>2 DEF Sums
<1>9. Total(more) = g[n + 1]
  BY <1>1, <1>5, TotalIsSum
<1>10. g[n + 1] = IF n + 1 < 2 THEN 0 ELSE g[n] + Distance(more[n], more[n + 1])
  BY <1>1, <1>5, SMTT(30) DEF Sums
<1>11. n = 0 => f[n] = 0
  BY <1>4 DEF Sums
<1>12. CASE n = 0
  BY <1>8, <1>9, <1>10, <1>11, <1>12 DEF more
<1>13. CASE n # 0
  <2>1. n \in 1..n /\ ~(n + 1 < 2)
    BY <1>1, <1>13
  <2>2. more[n] = track[n]
    BY <1>2, <2>1
  <2>3. Total(more) = Total(track) + Distance(track[n], place)
    BY <1>3, <1>7, <1>8, <1>9, <1>10, <2>1, <2>2
  <2> QED
    BY <1>8, <1>13, <2>3 DEF more
<1> QED
  BY <1>12, <1>13
-----------------------------------------------------------------------------
(* The distance.                                                           *)

LengthInv == km \in Nat /\ DistanceIsLength

LEMMA LengthStep ==
    TrackInv /\ here \in Places \cup {Unknown} /\ LengthInv /\ [Next]_vars => LengthInv'
<1> SUFFICES ASSUME TrackInv, here \in Places \cup {Unknown}, LengthInv, [Next]_vars
             PROVE  LengthInv'
  OBVIOUS
<1>1. locations \in Seq(Places) /\ locations \in Seq(Int)
  <2>1. locations \in Seq(Places)
    BY DEF TrackInv
  <2>2. \A i \in 1..Len(locations) : locations[i] \in Int
    BY <2>1, ElementOfSeq, PlacesAreInt
  <2>3. locations = [i \in 1..Len(locations) |-> locations[i]] /\ Len(locations) \in Nat
    BY <2>1
  <2> QED
    BY <2>1, <2>2, <2>3
<1>2. ASSUME here # Unknown
      PROVE  /\ Total(Append(locations, here)) \in Nat
             /\ Total(Append(locations, here)) >= Total(locations)
  <2>1. here \in Int
    BY <1>2, PlacesAreInt
  <2>2. Append(locations, here) \in Seq(Int)
    BY <1>1, <2>1, AppendProperties
  <2>3. Total(Append(locations, here)) \in Nat /\ Total(locations) \in Nat
    BY <1>1, <2>1, <2>2, TotalMore
  <2>4. Len(locations) # 0 => Distance(locations[Len(locations)], here) \in Nat
    <3>1. ASSUME Len(locations) # 0
          PROVE  locations[Len(locations)] \in Int
      BY <1>1, <3>1, LenProperties, ElementOfSeq
    <3> QED
      BY <2>1, <3>1, DistanceIsNat
  <2>5. Total(Append(locations, here)) =
            IF Len(locations) = 0 THEN Total(locations)
            ELSE Total(locations) + Distance(locations[Len(locations)], here)
    BY <1>1, <2>1, TotalMore
  <2> QED
    BY <2>3, <2>4, <2>5
<1>3. Total(locations) \in Nat
  BY <1>1, TotalMore
<1>4. CASE StartTapped
  <2>1. CASE here # Unknown
    <3>1. locations' = Append(locations, here) /\ resumed' = TRUE /\ km' = km
      BY <1>4, <2>1 DEF StartTapped
    <3> QED
      BY <1>2, <1>3, <2>1, <3>1 DEF LengthInv, DistanceIsLength
  <2>2. CASE here = Unknown
    BY <1>4, <2>2 DEF StartTapped, LengthInv, DistanceIsLength
  <2> QED
    BY <2>1, <2>2
<1>5. CASE ClearConfirmed
  BY <1>5, EmptyTotal DEF ClearConfirmed, LengthInv, DistanceIsLength
<1>6. CASE SamplerFires
  <2>1. CASE here = Unknown
    BY <1>6, <2>1 DEF SamplerFires, LengthInv, DistanceIsLength
  <2>2. CASE here # Unknown
    <3>1. locations' = Append(locations, here) /\ km' = Total(locations')
      BY <1>6, <2>2 DEF SamplerFires
    <3> QED
      BY <1>2, <2>2, <3>1 DEF LengthInv, DistanceIsLength
  <2> QED
    BY <2>1, <2>2
<1>7. CASE BackgroundFires
  <2>1. CASE locations = <<>>
    BY <1>7, <2>1 DEF BackgroundFires, LengthInv, DistanceIsLength
  <2>2. CASE locations # <<>>
    <3>1. /\ locations' = Append(locations, locations[Len(locations)])
          /\ km' = km /\ resumed' = resumed
      BY <1>7, <2>2 DEF BackgroundFires
    <3>2. Len(locations) # 0
      BY <1>1, <2>2, EmptySeq, LenProperties
    <3>3. locations[Len(locations)] \in Int
      BY <1>1, <3>2, LenProperties, ElementOfSeq
    <3>4. Total(locations') = Total(locations) + 0
      BY <1>1, <3>1, <3>2, <3>3, TotalMore, DistanceIsNat
    <3> QED
      BY <1>3, <3>1, <3>4 DEF LengthInv, DistanceIsLength
  <2> QED
    BY <2>1, <2>2
<1>8. CASE UNCHANGED <<km, locations, resumed>>
  BY <1>8 DEF LengthInv, DistanceIsLength
<1> QED
  BY <1>4, <1>5, <1>6, <1>7, <1>8
     DEF Next, User, Timers, StopTapped, ClearTapped, ClearCancelled, SaveTapped,
         SheetClosed, ClockTicks, ResignsActive, BecomesActive, Moves, vars

\* The distance shown is the length of the track, but for the leg to the point of
\* the last start until the next sample.
THEOREM DistanceIsTheLength == Spec => []DistanceIsLength
<1>1. Init => LengthInv
  BY EmptyTotal DEF Init, LengthInv, DistanceIsLength
<1>2. LengthInv => DistanceIsLength
  BY DEF LengthInv
<1>3. QED
  BY <1>1, <1>2, TrackInvHolds, LengthStep, PTL DEF Spec
-----------------------------------------------------------------------------
(* Types.                                                                  *)

\* Every handler keeps the types; that the distance stays a natural number rests
\* on the sum over the track.
LEMMA TypeStep == TrackInv /\ LengthInv' /\ TypeOK /\ [Next]_vars => TypeOK'
<1> SUFFICES ASSUME TrackInv, LengthInv', TypeOK, [Next]_vars PROVE TypeOK'
  OBVIOUS
<1>0. km' \in Nat
  BY DEF LengthInv
<1>1. ASSUME NEW place \in Places, Len(locations) < MaxPoints
      PROVE  /\ Append(locations, place) \in Seq(Places)
             /\ Len(Append(locations, place)) <= MaxPoints
  <2>1. /\ Append(locations, place) \in Seq(Places)
        /\ Len(Append(locations, place)) = Len(locations) + 1
        /\ Len(locations) \in Nat
    BY AppendProperties, LenProperties DEF TypeOK
  <2>2. QED
    BY <1>1, <2>1, TrackerBounds
<1>2. CASE StartTapped
  <2>1. CASE here # Unknown
    <3>1. here \in Places
      BY <2>1 DEF TypeOK
    <3>2. CASE locations' = locations
      BY <1>0, <1>2, <2>1, <3>2 DEF StartTapped, TypeOK
    <3>3. CASE locations' = Append(locations, here) /\ Len(locations) < MaxPoints
      BY <1>0, <1>1, <1>2, <3>1, <3>3 DEF StartTapped, TypeOK
    <3>4. QED
      BY <1>2, <2>1, <3>2, <3>3 DEF StartTapped
  <2>2. CASE here = Unknown
    BY <1>0, <1>2, <2>2 DEF StartTapped, TypeOK
  <2>3. QED
    BY <2>1, <2>2
<1>3. CASE StopTapped \/ ClearTapped \/ ClearCancelled \/ SheetClosed
  BY <1>0, <1>3 DEF StopTapped, ClearTapped, ClearCancelled, SheetClosed, TypeOK
<1>4. CASE ClearConfirmed
  <2>1. <<>> \in Seq(Places) /\ Len(<<>>) <= MaxPoints
    BY EmptySeq, TrackerBounds
  <2>2. counter' \in 0..MaxTicks /\ time' \in 0..MaxTicks
    BY <1>4, TrackerBounds DEF ClearConfirmed
  <2>3. locations' \in Seq(Places) /\ Len(locations') <= MaxPoints
    BY <1>4, <2>1 DEF ClearConfirmed
  <2>4. QED
    BY <1>0, <1>4, <2>2, <2>3 DEF ClearConfirmed, TypeOK
<1>5. CASE SaveTapped
  BY <1>0, <1>5, TrackerBounds DEF SaveTapped, TypeOK
<1>6. CASE ClockTicks
  BY <1>0, <1>6, TrackerBounds DEF ClockTicks, TypeOK
<1>7. CASE SamplerFires
  <2>1. CASE here = Unknown
    BY <1>0, <1>7, <2>1 DEF SamplerFires, TypeOK
  <2>2. CASE here # Unknown
    <3>1. here \in Places
      BY <2>2 DEF TypeOK
    <3>2. QED
      BY <1>0, <1>1, <1>7, <2>2, <3>1 DEF SamplerFires, TypeOK
  <2>3. QED
    BY <2>1, <2>2
<1>8. CASE BackgroundFires
  <2>1. CASE locations = <<>>
    BY <1>0, <1>8, <2>1 DEF BackgroundFires, TypeOK
  <2>2. CASE locations # <<>>
    <3>1. locations[Len(locations)] \in Places
      BY <2>2, LenProperties, ElementOfSeq, EmptySeq DEF TrackInv
    <3>2. QED
      BY <1>0, <1>1, <1>8, <2>2, <3>1 DEF BackgroundFires, TypeOK
  <2>3. QED
    BY <2>1, <2>2
<1>9. CASE ResignsActive
  <2>1. {active, play, save, clock, sampler, background, resumed, bare}' \subseteq BOOLEAN
    <3>1. {play, save, clock, sampler, resumed}' \subseteq BOOLEAN
      BY <1>9 DEF ResignsActive, TypeOK
    <3>2. active' \in BOOLEAN /\ background' \in BOOLEAN /\ bare' \in BOOLEAN
      BY <1>9, Zenon DEF ResignsActive
    <3>3. QED
      BY <3>1, <3>2
  <2>2. leaked' \in 0..MaxTimers
    BY <1>9, TrackerBounds DEF ResignsActive, TypeOK
  <2>3. QED
    BY <1>0, <1>9, <2>1, <2>2 DEF ResignsActive, TypeOK
<1>10. CASE BecomesActive \/ Moves
  BY <1>0, <1>10 DEF BecomesActive, Moves, TypeOK
<1>11. CASE UNCHANGED vars
  BY <1>11 DEF vars, TypeOK
<1>12. QED
  BY <1>2, <1>3, <1>4, <1>5, <1>6, <1>7, <1>8, <1>9, <1>10, <1>11 DEF Next, User, Timers

\* The screen's labels, track and timers keep their types, whatever timers and
\* interruptions interleave; a form is handed a time, a distance and a track.
THEOREM TypeCorrect == Spec => []TypeOK
<1>1. Init => LengthInv
  BY EmptyTotal DEF Init, LengthInv, DistanceIsLength
<1>2. Init => TypeOK
  <2>1. <<>> \in Seq(Places) /\ Len(<<>>) <= MaxPoints
    BY EmptySeq, TrackerBounds
  <2>2. 0 \in 0..MaxTicks /\ 0 \in 0..MaxTimers
    BY TrackerBounds
  <2>3. ASSUME Init
        PROVE  {active, play, save, clock, sampler, background, resumed, bare} \subseteq BOOLEAN
    BY <2>3, Zenon DEF Init
  <2>4. ASSUME Init
        PROVE  /\ here \in Places \cup {Unknown} /\ screen = "map" /\ km = 0
               /\ counter = 0 /\ time = 0 /\ locations = <<>> /\ leaked = 0 /\ handed = <<>>
    BY <2>4, Zenon DEF Init
  <2>5. QED
    BY <2>1, <2>2, <2>3, <2>4 DEF TypeOK
<1>3. QED
  BY <1>1, <1>2, TrackInvHolds, LengthStep, TypeStep, PTL DEF Spec
=============================================================================
