---------------------------- MODULE TargetTracks ----------------------------
(***************************************************************************)
(* OfflineTracker and TargetSelector of the previous generation (src/old). *)
(*                                                                         *)
(* tracks holds tracks_ in the order of track_id, without those that are   *)
(* lost: they stay in the code's vector but are only counted.  An          *)
(* observation is valid evidence: its identity (class and size), its       *)
(* place, one coordinate for all the gates, and its confidence.  Ages are  *)
(* by the stamps of the frames, not by the clock.                          *)
(***************************************************************************)
EXTENDS Integers, Sequences, FiniteSets, FiniteSetsExt

CONSTANTS
  Observations,    \* what may be observed: [class, pos, conf]
  Center,          \* the middle of the image
  Jump,            \* max_position_jump_m
  MinDetect,       \* min_detect_count
  LostAge,         \* max_temp_lost_ms
  DebounceFrames,  \* switch_debounce_frames; the node leaves it at 1
  FrameSize,       \* bound: observations in a frame
  MaxTracks        \* bound: tracks at a time

ASSUME TracksAssumption ==
  /\ Observations \subseteq [class : Nat, pos : Nat, conf : Nat]
  /\ Center \in Nat /\ Jump \in Nat /\ LostAge \in Nat
  /\ MinDetect \in Nat \ {0} /\ DebounceFrames \in Nat \ {0} /\ MaxTracks \in Nat
  /\ FrameSize \in Nat

\* In one frame: at most one observation at a place.
Frames ==
  {obs \in SUBSET Observations :
     /\ IsFiniteSet(obs) /\ Cardinality(obs) <= FrameSize
     /\ \A a, b \in obs : a.class = b.class /\ a.pos = b.pos => a = b}

VARIABLES
  tracks,   \* tracks_, and of the selector: chosen (previous_track_id_) and
            \* wins (pending_switch_frames_ of the pending track); streak,
            \* onTop and was are history: the frames in a row it was found,
            \* those in a row it won, and whether it was chosen before
  stranded  \* history: tracks the last frame could have matched besides

Capped(n, cap) == IF n < cap THEN n ELSE cap
Distance(a, b) == IF a < b THEN b - a ELSE a - b

\* The elements of S, ordered by less: S by S, a strict total order.
InOrder(S, less) ==
  CHOOSE s \in [1 .. Cardinality(S) -> S] :
    \A i, j \in 1 .. Cardinality(S) : i < j => <<s[i], s[j]>> \in less

TracksInit == tracks = <<>> /\ stranded = 0
-----------------------------------------------------------------------------
(* Association.                                                            *)

\* same_target_identity and evaluate_gate.
Feasible(t, o) == t.class = o.class /\ Distance(t.pos, o.pos) <= Jump

\* The first of the observations in a track's adjacency list: the nearest.
Nearest(t, open) ==
  CHOOSE o \in open : \A p \in open :
    \/ Distance(t.pos, o.pos) < Distance(t.pos, p.pos)
    \/ Distance(t.pos, o.pos) = Distance(t.pos, p.pos) /\ o.pos <= p.pos

\* What a search knows: seen_observations and matched_track_for_observation.
Searches(ts, obs) == [seen : SUBSET obs, owner : [obs -> 0 .. Len(ts)]]

\* Mutated: an observation that is taken is not given up again.
TakeFree(ts, obs, i, search) ==
  LET free == {o \in obs : Feasible(ts[i], o) /\ search.owner[o] = 0}
  IN IF free = {} THEN search ELSE [search EXCEPT !.owner[Nearest(ts[i], free)] = i]

\* One call of the lambda augment: find track j an observation, displacing the
\* track that has it if that one can find another.  deeper is what the calls
\* that see one observation more return; true is a change of owner.
Try(ts, obs, j, r, deeper) ==
  LET open == {o \in obs \ r.seen : Feasible(ts[j], o)}
      o == Nearest(ts[j], open)
      s == [r EXCEPT !.seen = @ \cup {o}]
      a == deeper[r.owner[o]][s]
  IN IF open = {} THEN r
     ELSE IF r.owner[o] = 0 THEN [s EXCEPT !.owner[o] = j]
     ELSE IF a.owner # r.owner THEN [a EXCEPT !.owner[o] = j]
     ELSE deeper[j][a]

\* The lambda augment, called from track i.
Augment(ts, obs, i, search) ==
  LET augment[n \in 0 .. Cardinality(obs)] ==
        [j \in DOMAIN ts |-> [r \in Searches(ts, obs) |->
           IF n = 0 THEN r ELSE Try(ts, obs, j, r, augment[n - 1])]]
  IN augment[Cardinality(obs)][i][search]

\* The track, if any, that each observation goes to.
Owners(ts, obs) ==
  LET owners[k \in 0 .. Len(ts)] ==
        IF k = 0 THEN [o \in obs |-> 0]
        ELSE Augment(ts, obs, k, [seen |-> {}, owner |-> owners[k - 1]]).owner
  IN owners[Len(ts)]

\* Reference: how many tracks can have an observation of their own.
MostMatched(ts, obs) ==
  LET Edges == {e \in (DOMAIN ts) \X obs : Feasible(ts[e[1]], e[2])}
      Matching(M) == \A e, f \in M : e[1] = f[1] <=> e[2] = f[2]
  IN Max({Cardinality(M) : M \in {N \in SUBSET Edges : Matching(N)}})
-----------------------------------------------------------------------------
(* OfflineTracker::update.                                                 *)

Confirmed(count) == IF count >= MinDetect THEN "TRACKING" ELSE "DETECTING"

\* Mutated: a track that is found again goes on where it was lost.
FoundResuming(t, o) ==
  LET count == Capped(t.count + 1, MinDetect)
  IN [t EXCEPT !.pos = o.pos, !.count = count, !.state = Confirmed(count), !.age = 0,
        !.streak = Capped(@ + 1, MinDetect)]

Found(t, o) ==
  LET count == IF t.state = "TEMP_LOST" THEN 1 ELSE Capped(t.count + 1, MinDetect)
  IN [t EXCEPT !.pos = o.pos, !.count = count, !.state = Confirmed(count), !.age = 0,
        !.streak = Capped(@ + 1, MinDetect)]

Missed(t) == [t EXCEPT !.state = "TEMP_LOST", !.streak = 0]

New(o) ==
  [class |-> o.class, pos |-> o.pos, state |-> Confirmed(1), count |-> 1, age |-> 0,
   streak |-> 1, chosen |-> FALSE, wins |-> 0, onTop |-> 0,
   was |-> FALSE]

\* Tracks whose last observation is too old are lost before anything is
\* matched: what is seen then is a new capture.
Current(dt) ==
  LET current == {i \in DOMAIN tracks : tracks[i].age + dt < LostAge}
      order == InOrder(current, {e \in current \X current : e[1] < e[2]})
  IN [k \in 1 .. Cardinality(current) |-> [tracks[order[k]] EXCEPT !.age = @ + dt]]

\* observation_physical_less.
PhysicalLess(S) ==
  {e \in S \X S : \/ e[1].class < e[2].class
                  \/ e[1].class = e[2].class /\ e[1].pos < e[2].pos}

\* What no track took: new tracks, unless their identity is being tracked.
Captured(ts, obs, owner) ==
  LET new == {o \in obs : owner[o] = 0 /\ \A i \in DOMAIN ts : ts[i].class # o.class}
      order == InOrder(new, PhysicalLess(new))
  IN [k \in 1 .. Cardinality(new) |-> New(order[k])]

Updated(ts, obs, owner) ==
  [i \in DOMAIN ts |->
     IF \E o \in obs : owner[o] = i
     THEN Found(ts[i], CHOOSE o \in obs : owner[o] = i)
     ELSE Missed(ts[i])]
  \o Captured(ts, obs, owner)
-----------------------------------------------------------------------------
(* TargetSelector::select.                                                 *)

Candidates(ts) == {i \in DOMAIN ts : ts[i].state = "TRACKING"}

\* The most confident; of several the one chosen before, the one nearest to
\* the middle, the oldest.
Ranked(ts, obs) ==
  LET Confidence(i) ==
        (CHOOSE o \in obs : o.class = ts[i].class /\ o.pos = ts[i].pos).conf
      best == {i \in Candidates(ts) : \A j \in Candidates(ts) : Confidence(j) <= Confidence(i)}
      Before(i, j) ==
        \/ ts[i].chosen
        \/ /\ ~ts[j].chosen
           /\ LET a == Distance(ts[i].pos, Center)
                  b == Distance(ts[j].pos, Center)
              IN a < b \/ (a = b /\ i < j)
  IN CHOOSE i \in best : \A j \in best \ {i} : Before(i, j)

\* The selector's state after it chose sel, with a pending track and its wins.
Chosen(ts, sel, pending, wins) ==
  [i \in DOMAIN ts |->
     [ts[i] EXCEPT !.chosen = i = sel, !.wins = IF i = pending THEN wins ELSE 0]]

\* Mutated: the pending track keeps its wins when it does not win.
KeptWithWins(ts, sel) ==
  [i \in DOMAIN ts |-> [ts[i] EXCEPT !.chosen = i = sel]]

Kept(ts, sel) == Chosen(ts, sel, 0, 0)

\* A replacement has to win several times while the old target is there.
Debounced(ts, ranked, previous) ==
  LET wins == ts[ranked].wins + 1
  IN IF wins >= DebounceFrames THEN Chosen(ts, ranked, 0, 0)
     ELSE Chosen(ts, previous, ranked, wins)

\* History of what select did to ts: who was chosen before, who has won.
Recorded(ts, after, ranked) ==
  [i \in DOMAIN ts |->
     [after[i] EXCEPT !.was = ts[i].chosen,
                      !.onTop = IF i = ranked THEN Capped(@ + 1, DebounceFrames) ELSE 0]]

Selected(ts, obs) ==
  IF Candidates(ts) = {} THEN Recorded(ts, Chosen(ts, 0, 0, 0), 0)
  ELSE LET ranked == Ranked(ts, obs)
           previous == {i \in Candidates(ts) : ts[i].chosen}
       IN Recorded(ts,
            CASE previous = {} -> Chosen(ts, ranked, 0, 0)
              [] previous = {ranked} -> Kept(ts, ranked)
              [] OTHER -> Debounced(ts, ranked, CHOOSE i \in previous : TRUE),
            ranked)
-----------------------------------------------------------------------------
\* A frame dt after the last one.
Frame(obs, dt) ==
  LET ts == Current(dt)
      owner == Owners(ts, obs)
      updated == Updated(ts, obs, owner)
  IN /\ Len(updated) <= MaxTracks
     /\ tracks' = Selected(updated, obs)
     /\ stranded' = MostMatched(ts, obs) - Cardinality({o \in obs : owner[o] # 0})

\* A frame that is not newer than the last one: nothing stays locked.
BadClock ==
  /\ tracks' = Chosen([i \in DOMAIN tracks |->
       [tracks[i] EXCEPT !.state = "TEMP_LOST", !.count = 0, !.streak = 0, !.onTop = 0,
                         !.was = FALSE]], 0, 0, 0)
  /\ stranded' = 0

\* The target handed to the aimer is locked.
TargetLock == \E i \in DOMAIN tracks : tracks[i].chosen
-----------------------------------------------------------------------------
(* Properties.                                                             *)

\* Tracks and selector state have their types; only a track found in this
\* very frame is ever chosen, and at most one.
TracksTypeOK ==
  /\ Len(tracks) <= MaxTracks
  /\ \A i \in DOMAIN tracks :
       /\ tracks[i].state \in {"DETECTING", "TRACKING", "TEMP_LOST"}
       /\ tracks[i].count \in 0 .. MinDetect /\ tracks[i].age \in 0 .. LostAge
       /\ tracks[i].chosen => tracks[i].state = "TRACKING" /\ tracks[i].age = 0
       /\ \A j \in DOMAIN tracks : tracks[i].chosen /\ tracks[j].chosen => i = j

\* A track locks only after min_detect_count frames in a row that found it,
\* through losses, bad clocks and reacquisitions.
LockIsConfirmed ==
  \A i \in DOMAIN tracks : tracks[i].state = "TRACKING" => tracks[i].streak >= MinDetect

\* "maximum-cardinality matching": no frame leaves a track without an
\* observation when all of them together could have had one more.
MatchesAreMaximum == stranded = 0

\* A target that is still there is left for another only when that one has
\* won in switch_debounce_frames consecutive frames.
SwitchIsDebounced ==
  \A i, j \in DOMAIN tracks :
    /\ tracks[i].was /\ tracks[i].state = "TRACKING"
    /\ tracks[j].chosen /\ i # j
    => tracks[j].onTop = DebounceFrames
=============================================================================
