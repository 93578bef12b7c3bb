---------------------------- MODULE TrackSource -----------------------------
(***************************************************************************)
(* What the solver may assume of target_, the last initialised track that  *)
(* the tracker returned.                                                   *)
(***************************************************************************)
EXTENDS Naturals

CONSTANTS
  LostAge,  \* age from which a track is lost (lost_time_thres)
  FrameAge  \* bound: the oldest image that is searched

ASSUME SourceAssumption == LostAge \in Nat /\ FrameAge \in Nat

VARIABLE target  \* target_: initialised or not, is_tracking(), age of last_update

NoTrack == [inited |-> FALSE, tracking |-> FALSE, age |-> LostAge]

\* Ages from LostAge on are not told apart.
Aged(age) == IF age < LostAge THEN age + 1 ELSE LostAge
Capped(age) == IF age < LostAge THEN age ELSE LostAge

\* An image that shows the target starts or updates a track, which may be one
\* on trial; an image that does not leaves the age and can only end a track.
Track ==
  \/ UNCHANGED target
  \/ \E tracking \in BOOLEAN, late \in 0 .. FrameAge :
       target' = [inited |-> TRUE, tracking |-> tracking, age |-> Capped(late)]
  \/ target.inited /\ target' = [target EXCEPT !.tracking = FALSE]

TrackAges == target' = [target EXCEPT !.age = Aged(@)]

SourceSpec == target = NoTrack /\ [][Track \/ TrackAges]_target
=============================================================================
