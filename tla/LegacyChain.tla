----------------------------- MODULE LegacyChain -----------------------------
(***************************************************************************)
(* The previous generation (src/old) from the image to the board:          *)
(* AutoAimNode publishes Robot_ctrl_data on a timer, RobotCtrlSub takes it *)
(* and writes on a timer of its own, and each has its own timeout.         *)
(*                                                                         *)
(* A message carries no stamp.  It is lost when the queue is full, and     *)
(* the node may end and be started again at any time.  Anyone may publish  *)
(* on the topic besides, when the run has it.                              *)
(***************************************************************************)
EXTENDS LegacyAimNode, ControlWatchdog

CONSTANTS
  Depth,    \* the depth of the subscription
  Transit   \* bound: how long a message waits to be taken

ASSUME ChainAssumption ==
  /\ Depth \in Nat \ {0} /\ Transit \in Nat
  /\ MaxAge = NodeTimeout + Transit
  /\ 0 \in Poses /\ \A c \in Configs : Constrained(c.mock) \in Poses

VARIABLE
  queue  \* Robot_ctrl_data: messages, and for how long each has waited

vars == <<node, watch, queue>>

Init == NodeInit /\ WatchInit /\ profile = param.subProfile /\ queue = <<>>

\* The subscription keeps the last messages.
Send(m) ==
  LET q == Append(queue, [msg |-> m, wait |-> 0])
  IN queue' = IF Len(q) > Depth THEN Tail(q) ELSE q

\* to_ros_with_profile: without a vehicle profile, a valid but empty message.
Adapted(command) ==
  IF param.profile THEN [command EXCEPT !.pose = Constrained(@)] ELSE SafeCommand

\* publish_control.
Publish ==
  /\ up
  /\ LET c == Adapted(Command)
     IN Send([pose |-> c.pose, lock |-> c.lock, fit |-> TRUE,
              age |-> IF c.lock THEN imageAge ELSE 0])
  /\ UNCHANGED <<node, watch>>

Bypass ==
  /\ param.bypass
  /\ \E pose \in Poses, lock, fit \in BOOLEAN :
       Send([pose |-> pose, lock |-> lock, fit |-> fit, age |-> 0])
  /\ UNCHANGED <<node, watch>>

\* robotCtrlReceive.
Take ==
  /\ queue # <<>>
  /\ Accept(Head(queue).msg) /\ queue' = Tail(queue)
  /\ UNCHANGED node

\* sendControl.
SendControl == Tick /\ UNCHANGED <<node, queue>>

\* Time passes for everybody.
Elapse ==
  /\ \A i \in DOMAIN queue : queue[i].wait < Transit
  /\ imageAge' = Capped(imageAge + 1, NodeTimeout)
  /\ queue' = [i \in DOMAIN queue |->
       [queue[i] EXCEPT !.wait = @ + 1, !.msg.age = IF queue[i].msg.lock THEN @ + 1 ELSE @]]
  /\ WatchElapse
  /\ UNCHANGED <<tracks, stranded, param, up, info, latest>>

NodeStep ==
  /\ OnCameraInfo \/ FailClosed \/ MockImage \/ OfflineImage \/ Die \/ Restart
  /\ UNCHANGED <<watch, queue>>

Next == NodeStep \/ Publish \/ Bypass \/ Take \/ SendControl \/ Elapse

\* The executors of RobotCtrlSub run what is ready, and time passes.
Fairness == WF_vars(Take) /\ WF_vars(SendControl) /\ WF_vars(Elapse)

Spec == Init /\ [][Next]_vars
FairSpec == Spec /\ Fairness
-----------------------------------------------------------------------------
(* Properties.                                                             *)

\* Every variable has its type.
TypeOK ==
  /\ NodeTypeOK /\ WatchTypeOK
  /\ queue \in Seq([msg : Messages, wait : 0 .. Transit]) /\ Len(queue) <= Depth

\* The image behind a lock that is written is no older than the two timeouts
\* and the transit allow, though no message says how old it is.
LockIsRecent ==
  [][SendControl /\ wire'.lock
     => last.age + heldAge <= (NodeTimeout - 1) + Transit + (SafeTimeout - 1)]_vars

\* "OfflineReference is diagnostic/test-only": whatever the tracker locks, it
\* moves nothing, unless somebody else publishes.
OfflineIsInert == param.offline /\ ~param.bypass => wire = SafeCommand

\* When the images end, because the camera or the node does, the board is
\* unlocked and stays so.
FailsSafe ==
  ~param.bypass /\ <>[][imageAge' >= imageAge]_vars => <>[]~wire.lock
=============================================================================
