----------------------------- MODULE ArmorTrack -----------------------------
(***************************************************************************)
(* ArmorTracker: two buffers, cur and pre.  cur is the target handed to    *)
(* AutoAimNode; while it is lost for a moment, pre may acquire another     *)
(* one and take its place.                                                 *)
(*                                                                         *)
(* Control only: which plate is chosen and whether the filter's prediction *)
(* matches a plate (armor_pnp, match_armor, match_light) are choices.      *)
(* Ages are taken at the clock, as check() does; a frame is `late', it is  *)
(* that old when it is processed, and what it shows is that old too.       *)
(***************************************************************************)
EXTENDS Integers

CONSTANTS
  Numbers,          \* the plate classes the detector tells apart
  Outpost,          \* ArmorClass::OUTPOST
  TrackingThres,    \* tracking_thres
  LostTime,         \* lost_time_thres
  LostTimeOutpost,  \* lost_time_thres_outpost
  FrameAge          \* bound: the oldest frame on_image is given

Unknown == "UNKNOWN"

ASSUME TrackAssumption ==
  /\ Outpost \in Numbers /\ Unknown \notin Numbers
  /\ TrackingThres \in Nat /\ LostTime \in Nat /\ LostTimeOutpost \in Nat
  /\ FrameAge \in Nat

\* Ages beyond every threshold are not told apart.
AgeCap == (IF LostTime > LostTimeOutpost THEN LostTime ELSE LostTimeOutpost) + FrameAge + 1
Older(age) == IF age < AgeCap THEN age + 1 ELSE age

States == {"LOST", "DETECTING", "TRACKING", "TEMP_LOST"}

\* streak is no field of ArmorTarget: it counts, up to the threshold, the
\* frames in a row up to this one, or to the lock, in which the target was
\* found.
Slots ==
  [state : States, count : 0 .. TrackingThres, number : Numbers \cup {Unknown},
   age : 0 .. AgeCap, inited : BOOLEAN, jumped : BOOLEAN,
   streak : 0 .. TrackingThres + 1]

VARIABLES cur, pre

slots == <<cur, pre>>

NoTarget ==
  [state |-> "LOST", count |-> 0, number |-> Unknown, age |-> AgeCap,
   inited |-> FALSE, jumped |-> FALSE, streak |-> 0]

TrackInit == cur = NoTarget /\ pre = NoTarget

\* TrackState::is_tracking and ArmorTarget::check.
Held(s) == s.state \in {"TRACKING", "TEMP_LOST"}
Live(s) == Held(s) /\ s.age < LostTime
-----------------------------------------------------------------------------
(* One buffer in one frame.                                                *)

LostTimeThres(s) == IF s.number = Outpost THEN LostTimeOutpost ELSE LostTime

\* Mutated: the count is not kept.
LockAtOnce(s) == [s EXCEPT !.count = 0, !.state = "TRACKING"]

\* DETECTING, found again: enough frames in a row make a lock.
CountUp(s) ==
  IF s.count + 1 > TrackingThres
  THEN [s EXCEPT !.count = 0, !.state = "TRACKING"]
  ELSE [s EXCEPT !.count = @ + 1]

\* dta_utils::update_fsm on a target that was found.
AfterFound(s) ==
  IF s.state = "DETECTING"
  THEN CountUp([s EXCEPT !.streak = IF @ > TrackingThres THEN @ ELSE @ + 1])
  ELSE [s EXCEPT !.state = "TRACKING"]

\* dta_utils::update_fsm on one that was not.
AfterMiss(s, late) ==
  CASE s.state = "DETECTING" -> [s EXCEPT !.state = "LOST", !.count = 0, !.streak = 0]
    [] s.state = "TRACKING" -> [s EXCEPT !.state = "TEMP_LOST"]
    [] s.state = "TEMP_LOST" ->
         IF s.age - late > LostTimeThres(s) THEN [s EXCEPT !.state = "LOST"] ELSE s
    [] OTHER -> s

\* init_target with ArmorTarget::reset, on a plate of number n.
Started(n, late) ==
  [NoTarget EXCEPT !.state = "DETECTING", !.number = n, !.age = late, !.inited = TRUE]

\* Mutated: last_update is not set.
UpdatedUnstamped(s, jumped, late) == [s EXCEPT !.jumped = @ \/ jumped]

\* update_target with ArmorTarget::update: a plate other than the one in front
\* may have been matched.
Updated(s, jumped, late) == [s EXCEPT !.age = late, !.jumped = @ \/ jumped]

\* Mutated: an outpost is given up for whatever comes into view.
AnyEligible(c) == Numbers

\* What a buffer may be started on while c is the current target: an outpost
\* that is still alive is only given up for an outpost.
Eligible(c) == IF c.number = Outpost /\ Live(c) THEN {Outpost} ELSE Numbers

\* The lambda process: what may become of buffer s.
Processed(s, c, late, found) ==
  CASE ~found -> {AfterMiss(s, late)}
    [] found /\ s.state = "LOST" -> {AfterFound(Started(n, late)) : n \in Eligible(c)}
    [] OTHER -> {AfterFound(Updated(s, jumped, late)) : jumped \in BOOLEAN}
-----------------------------------------------------------------------------
(* ArmorTracker::track.                                                    *)

\* A buffer that was not processed has not been found in this frame.
Unprocessed(s) == [s EXCEPT !.streak = 0]

\* Of a lost backup nothing is kept: reset overwrites it before it is read.
Backup(s) == IF s.state = "LOST" THEN NoTarget ELSE s

\* On a lock the backup is lost.
DropBackup(s) == Backup([s EXCEPT !.state = "LOST"])

\* The lock holds or is not there yet: the backup is not looked at.
Alone(late, found) ==
  \E c \in Processed(cur, cur, late, found) :
    /\ c.state # "TEMP_LOST"
    /\ cur' = c
    /\ pre' = IF c.state = "TRACKING" THEN DropBackup(pre) ELSE Unprocessed(pre)

\* The lock is in doubt: the backup is processed, and replaces it once locked.
InDoubt(late, found, foundPre) ==
  \E c \in Processed(cur, cur, late, found) :
    /\ c.state = "TEMP_LOST"
    /\ \E p \in Processed(pre, c, late, foundPre) :
         IF p.state = "TRACKING"
         THEN cur' = p /\ pre' = DropBackup(c)
         ELSE cur' = c /\ pre' = Backup(p)

Track(late, found, foundPre) == Alone(late, found) \/ InDoubt(late, found, foundPre)

\* Time passes.
TrackElapse ==
  /\ cur' = [cur EXCEPT !.age = Older(@)]
  /\ pre' = Backup([pre EXCEPT !.age = Older(@)])

TrackNext ==
  \/ \E late \in 0 .. FrameAge, found, foundPre \in BOOLEAN : Track(late, found, foundPre)
  \/ TrackElapse

TrackSpec == TrackInit /\ [][TrackNext]_slots
-----------------------------------------------------------------------------
(* Properties.                                                             *)

\* Both buffers have their type; what is not lost was once initialised (the
\* filter is there to predict), and only the current target is ever a lock.
TrackTypeOK ==
  /\ cur \in Slots /\ pre \in Slots
  /\ \A s \in {cur, pre} : s.state # "LOST" => s.inited /\ s.number \in Numbers
  /\ ~Held(pre)

\* A lock is earned: every target handed out as tracked, the backup that took
\* over included, was found in more than tracking_thres frames in a row,
\* however often the two buffers were lost, restarted and exchanged before.
LockIsEarned == Held(cur) => cur.streak > TrackingThres

\* A locked outpost is replaced by another robot only when it has not been
\* seen for the lost time.
OutpostKept ==
  [][cur.number = Outpost /\ Held(cur) /\ Held(cur') /\ cur'.number # Outpost =>
       cur.age >= LostTime]_slots
=============================================================================
