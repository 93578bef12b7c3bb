--------------------------- MODULE ControlWatchdog ---------------------------
(***************************************************************************)
(* RobotCtrlSafety of the previous generation (src/old): what the timer of *)
(* RobotCtrlSub writes to the board, given what came in on                 *)
(* Robot_ctrl_data.                                                        *)
(*                                                                         *)
(* A message is its pitch (pose), its lock, whether its fields are finite  *)
(* and its enumerations known (fit), and the age, when it is taken, of the *)
(* image it was computed from.  Fire and the four motion fields are zero   *)
(* in everything that is accepted or written and are left out; so is yaw,  *)
(* which is wrapped where pitch is clamped.  The clock is steady.          *)
(***************************************************************************)
EXTENDS Integers

CONSTANTS
  Poses,        \* the pitches a message may ask for
  Low, High,    \* pitch_limits_degrees of the vehicle profile
  SafeTimeout,  \* input_timeout_ms of RobotCtrlSub
  MaxAge        \* bound: the oldest a message is when it is taken

ASSUME WatchAssumption ==
  /\ Poses \subseteq Int
  /\ Low \in Int /\ High \in Int /\ Low <= 0 /\ 0 <= High
  /\ SafeTimeout \in Nat \ {0} /\ MaxAge \in Nat

Messages == [pose : Poses, lock : BOOLEAN, fit : BOOLEAN, age : 0 .. MaxAge]
Commands == [pose : Low .. High, lock : BOOLEAN]

VARIABLES
  profile,     \* a vehicle profile is selected
  held,        \* last_valid_
  heldAge,     \* the time since last_valid_ns_
  haveValid,   \* have_valid_
  forceStale,  \* force_stale_
  wire,        \* the last command written
  \* history: what was last accepted, and whether the last message was
  last

watch == <<profile, held, heldAge, haveValid, forceStale, wire, last>>

Unlocked(pose) == [pose |-> pose, lock |-> FALSE]

WatchInit ==
  /\ profile \in BOOLEAN
  /\ held = Unlocked(0) /\ heldAge = SafeTimeout
  /\ haveValid = FALSE /\ forceStale = FALSE
  /\ wire = Unlocked(0)
  /\ last = [pose |-> 0, age |-> 0, fit |-> FALSE]

\* Mutated: yaw is wrapped, pitch is passed on.
Unconstrained(pose) == pose

\* constrain_position_degrees: the profile's limits.
Constrained(pose) == IF pose < Low THEN Low ELSE IF pose > High THEN High ELSE pose

\* Mutated: a message that is refused leaves no pose to hold.
RefuseAndZero ==
  /\ held' = Unlocked(0) /\ forceStale' = TRUE
  /\ last' = [last EXCEPT !.fit = FALSE]
  /\ UNCHANGED <<heldAge, haveValid>>

\* Accept, first branch: keep the pose, drop the lock.
Refuse ==
  /\ held' = Unlocked(held.pose) /\ forceStale' = TRUE
  /\ last' = [last EXCEPT !.fit = FALSE]
  /\ UNCHANGED <<heldAge, haveValid>>

\* Accept.
Accept(m) ==
  /\ IF profile /\ m.fit
     THEN LET pose == Constrained(m.pose)
          IN /\ held' = [pose |-> pose, lock |-> m.lock] /\ heldAge' = 0
             /\ haveValid' = TRUE /\ forceStale' = FALSE
             /\ last' = [pose |-> pose, age |-> m.age, fit |-> TRUE]
     ELSE Refuse
  /\ UNCHANGED <<profile, wire>>

\* Mutated: a command is fresh until the next one is refused.
FreshUntilRefused == haveValid /\ ~forceStale

Fresh == haveValid /\ ~forceStale /\ heldAge < SafeTimeout

\* sendControl: Tick, and the frame SenderMain writes.
Tick ==
  /\ wire' = IF Fresh THEN held ELSE Unlocked(IF haveValid THEN held.pose ELSE 0)
  /\ UNCHANGED <<profile, held, heldAge, haveValid, forceStale, last>>

\* Time passes.
WatchElapse ==
  /\ heldAge' = IF heldAge < SafeTimeout THEN heldAge + 1 ELSE heldAge
  /\ UNCHANGED <<profile, held, haveValid, forceStale, wire, last>>

WatchNext == (\E m \in Messages : Accept(m)) \/ Tick \/ WatchElapse

WatchSpec == WatchInit /\ [][WatchNext]_watch
-----------------------------------------------------------------------------
(* Properties.                                                             *)

\* Every variable has its type, and what is held or written is a pose the
\* profile allows.
WatchTypeOK ==
  /\ profile \in BOOLEAN
  /\ held \in Commands /\ wire \in Commands
  /\ heldAge \in 0 .. SafeTimeout
  /\ haveValid \in BOOLEAN /\ forceStale \in BOOLEAN
  /\ last \in [pose : Low .. High, age : 0 .. MaxAge, fit : BOOLEAN]

\* Once the last message was refused, or the last accepted one is older than
\* the timeout, what is written is unlocked and holds the last accepted pose,
\* "to avoid a discontinuous zero jump"; however refusals, acceptances and
\* timer ticks follow one another.
HoldsAndUnlocks ==
  [][Tick /\ (~last.fit \/ heldAge >= SafeTimeout) => wire' = Unlocked(last.pose)]_watch
=============================================================================
