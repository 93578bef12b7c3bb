----------------------------- MODULE SerialPort -----------------------------
(***************************************************************************)
(* The life of the serial line: SerialMain::init, stop and                 *)
(* send_robot_ctrl, SerialMain::rx_loop, and the descriptor of             *)
(* SerialDevice, which Read reopens when the board goes away.              *)
(*                                                                         *)
(* Two threads: the executor, on which the nodes are built, commands are   *)
(* sent and, at exit, stop runs; and the receive thread.  mtx_ guards ok_  *)
(* but not serial_fd_: the receive thread replaces the descriptor without  *)
(* it.  A board that is plugged in again is a new device (a new epoch);    *)
(* descriptors of the old one stay open and dead.  What the frames hold is *)
(* left to FrameParser.                                                    *)
(***************************************************************************)
EXTENDS Naturals

CONSTANTS
  Depth,    \* history depth of Robot_ctrl_data (10)
  MaxEpoch  \* bound: how often the board is plugged in

ASSUME PortAssumption == Depth \in Nat \ {0} /\ MaxEpoch \in Nat \ {0, 1}

Epochs == 1 .. MaxEpoch
NoFd == [epoch |-> 0, raw |-> FALSE]

VARIABLES
  plugged, epoch,  \* the board is there; which plugging-in it is
  ok,      \* ok_
  fd,      \* serial_fd_: the device it was opened on, and not configured yet
  opened,  \* by epoch, the descriptors the process holds open
  built,   \* how many of RobotCtrlSub and VisionPub exist
  exec,    \* the executor thread: spin, stop, join, exited
  rx,      \* rx_thread_: off, check, read, open, config, done
  queued,  \* commands on the topic, not taken yet
  wire     \* what became of the last command: none, whole, mangled, lost

board == <<plugged, epoch>>
port == <<fd, opened>>
vars == <<plugged, epoch, ok, fd, opened, built, exec, rx, queued, wire>>

Init ==
  /\ plugged \in BOOLEAN /\ epoch = 1
  /\ ok = FALSE
  /\ fd = NoFd /\ opened = [e \in Epochs |-> 0]
  /\ built = 0 /\ exec = "spin" /\ rx = "off"
  /\ queued = 0 /\ wire = "none"

Alive(d) == plugged /\ d.epoch = epoch

Open(raw) ==
  /\ fd' = [epoch |-> epoch, raw |-> raw]
  /\ opened' = [opened EXCEPT ![epoch] = @ + 1]

\* Mutated: the descriptor is forgotten, not closed.
ForgetDevice == fd' = NoFd /\ UNCHANGED opened

CloseDevice ==
  /\ fd' = NoFd
  /\ opened' = [e \in Epochs |-> IF e = fd.epoch THEN opened[e] - 1 ELSE opened[e]]
-----------------------------------------------------------------------------
(* The board.                                                              *)

Unplug ==
  /\ plugged /\ epoch < MaxEpoch
  /\ plugged' = FALSE
  /\ UNCHANGED <<epoch, ok, port, built, exec, rx, queued, wire>>

Plug ==
  /\ ~plugged
  /\ plugged' = TRUE /\ epoch' = epoch + 1
  /\ UNCHANGED <<ok, port, built, exec, rx, queued, wire>>
-----------------------------------------------------------------------------
(* The executor thread.                                                    *)

\* SerialMain::init: the first node that finds the board opens the port and
\* starts the receive thread.  A configuration that fails leaves what an absent
\* board leaves.
InitPort ==
  IF ok \/ ~plugged
  THEN UNCHANGED <<ok, port, rx>>
  ELSE Open(FALSE) /\ ok' = TRUE /\ rx' = "check"

\* A constructor of RobotCtrlSub or VisionPub.
Construct ==
  /\ exec = "spin" /\ built < 2
  /\ built' = built + 1
  /\ InitPort
  /\ UNCHANGED <<board, exec, queued, wire>>

\* Mutated: the history is not bounded.
CommandUncapped ==
  /\ exec = "spin" /\ built > 0
  /\ queued' = queued + 1
  /\ UNCHANGED <<board, ok, port, built, exec, rx, wire>>

\* AutoAimNode publishes; a full topic loses its oldest command.
Command ==
  /\ exec = "spin" /\ built > 0
  /\ queued' = IF queued < Depth THEN queued + 1 ELSE queued
  /\ UNCHANGED <<board, ok, port, built, exec, rx, wire>>

\* RobotCtrlSub's callback and send_robot_ctrl: one write on whatever
\* serial_fd_ is now, its result ignored.  A descriptor that is open but not
\* configured still rewrites line ends, and the frame with them.
Send ==
  /\ exec = "spin" /\ queued > 0
  /\ queued' = queued - 1
  /\ wire' = IF ~ok THEN wire
             ELSE IF ~Alive(fd) THEN "lost"
             ELSE IF fd.raw THEN "mangled" ELSE "whole"
  /\ UNCHANGED <<board, ok, port, built, exec, rx>>

\* The process is asked to end; static destructors run.
Shutdown ==
  /\ exec = "spin"
  /\ exec' = "stop"
  /\ UNCHANGED <<board, ok, port, built, rx, queued, wire>>

\* Mutated: the receive thread is never told.
StopSilently ==
  /\ exec = "stop"
  /\ exec' = "join"
  /\ UNCHANGED <<board, ok, port, built, rx, queued, wire>>

\* SerialMain::stop.
Stop ==
  /\ exec = "stop"
  /\ ok' = FALSE
  /\ exec' = "join"
  /\ UNCHANGED <<board, port, built, rx, queued, wire>>

\* The thread is joined, then the device is destroyed.
Join ==
  /\ exec = "join" /\ rx \in {"off", "done"}
  /\ exec' = "exited"
  /\ CloseDevice
  /\ UNCHANGED <<board, ok, built, rx, queued, wire>>
-----------------------------------------------------------------------------
(* The receive thread: rx_loop and SerialDevice::Read.                     *)

RxStep(from, to) == rx = from /\ rx' = to

RxCheck ==
  /\ RxStep("check", IF ok THEN "read" ELSE "done")
  /\ UNCHANGED <<board, ok, port, built, exec, queued, wire>>

\* The board talks; the bytes go to feed.
ReadData ==
  /\ RxStep("read", "check")
  /\ Alive(fd)
  /\ UNCHANGED <<board, ok, port, built, exec, queued, wire>>

\* Mutated: a closed connection is taken for a read error.
ReadEofAsError ==
  /\ RxStep("read", "check")
  /\ ~Alive(fd)
  /\ UNCHANGED <<board, ok, port, built, exec, queued, wire>>

\* read returns 0: the connection is closed.
ReadEof ==
  /\ RxStep("read", "open")
  /\ ~Alive(fd)
  /\ UNCHANGED <<board, ok, port, built, exec, queued, wire>>

\* read returns -1 (a signal, an error): tried again.
ReadFails ==
  /\ RxStep("read", "check")
  /\ UNCHANGED <<board, ok, port, built, exec, queued, wire>>

\* SerialDevice::OpenDevice, tried every 500 ms: serial_fd_ is overwritten,
\* what it was is not closed.
Reopen ==
  /\ IF plugged
     THEN RxStep("open", "config") /\ Open(TRUE)
     ELSE RxStep("open", "open") /\ fd' = NoFd /\ UNCHANGED opened
  /\ UNCHANGED <<board, ok, built, exec, queued, wire>>

\* Mutated: reading goes on although the settings were not applied.
ConfigureCarelessly ==
  /\ RxStep("config", "read")
  /\ UNCHANGED <<board, ok, port, built, exec, queued, wire>>

\* SerialDevice::ConfigDevice.
Configure ==
  /\ RxStep("config", "read")
  /\ Alive(fd)
  /\ fd' = [fd EXCEPT !.raw = FALSE]
  /\ UNCHANGED <<board, ok, opened, built, exec, queued, wire>>

\* The settings cannot be read or applied: Init closes and is tried again.
ConfigureFails ==
  /\ RxStep("config", "open")
  /\ CloseDevice
  /\ UNCHANGED <<board, ok, built, exec, queued, wire>>

Receive ==
  RxCheck \/ ReadData \/ ReadEof \/ ReadFails \/ Reopen \/ Configure \/ ConfigureFails

Next ==
  \/ Unplug \/ Plug
  \/ Construct \/ Command \/ Send \/ Shutdown \/ Stop \/ Join
  \/ Receive

Spec == Init /\ [][Next]_vars

\* The code runs its threads and repeats what failed; the board comes back and
\* talks, a dead descriptor reads as closed, and no error lasts.  Shutdown is
\* not fair, and neither is anything that goes wrong.
Fairness ==
  /\ WF_vars(Plug)
  /\ WF_vars(Command) /\ WF_vars(Send) /\ WF_vars(Stop) /\ WF_vars(Join)
  /\ WF_vars(RxCheck) /\ WF_vars(Reopen) /\ WF_vars(ConfigureFails /\ ~Alive(fd))
  /\ SF_vars(ReadData) /\ SF_vars(ReadEof) /\ SF_vars(Configure)

FairSpec == Spec /\ Fairness
-----------------------------------------------------------------------------
(* Properties.                                                             *)

\* Every variable has its type.
TypeOK ==
  /\ plugged \in BOOLEAN /\ epoch \in Epochs
  /\ ok \in BOOLEAN
  /\ fd \in [epoch : 0 .. MaxEpoch, raw : BOOLEAN]
  /\ opened \in [Epochs -> Nat]
  /\ built \in 0 .. 2
  /\ exec \in {"spin", "stop", "join", "exited"}
  /\ rx \in {"off", "check", "read", "open", "config", "done"}
  /\ queued \in 0 .. Depth
  /\ wire \in {"none", "whole", "mangled", "lost"}

\* "The port is opened once": two nodes and any number of reconnects never
\* hold two descriptors of one device.  What Read leaves behind is one dead
\* descriptor for each time the board was pulled, however often it retried.
OneDescriptorPerPlug == \A e \in Epochs : opened[e] <= 1

\* A command can be mangled only while a reconnect is between its open and its
\* tcsetattr; the link never serves on an unconfigured descriptor.
MangledOnlyInReconnect == [][Send /\ ok /\ wire' = "mangled" => rx = "config"]_vars

Serving == exec = "spin" /\ ok

\* Whatever happened to the board, frames are taken from it again.
UplinkRecovers == <>[]Serving => []<><<ReadData>>_vars

\* ... and commands reach it again, whole.
DownlinkRecovers == <>[]Serving => []<><<Send /\ wire' = "whole">>_vars

\* stop ends, even from within a reconnect, once the board is back.
StopReturns == exec = "stop" ~> exec = "exited"
=============================================================================
