-------------------------- MODULE SerialPortProofs --------------------------
(***************************************************************************)
(* Proofs about SerialPort, for every depth of the topic and any number of *)
(* times the board is plugged in.                                          *)
(***************************************************************************)
EXTENDS SerialPort, TLAPS

\* The descriptor in use is of a device that was there.
FdIsOpen == fd.epoch # 0 => opened[fd.epoch] = 1

\* Nothing is open on a device that is yet to come.
NoFdAhead == fd.epoch <= epoch /\ \A e \in Epochs : e > epoch => opened[e] = 0

\* Nothing but serial_fd_ is open on the device that is there.
NoneButFd == plugged /\ opened[epoch] # 0 => fd.epoch = epoch

\* The receive thread opens only when serial_fd_ is of another device.
OpensAnew == rx = "open" /\ plugged => fd.epoch # epoch

\* A descriptor is unconfigured only while it is being configured.
RawInConfig == fd.raw => rx = "config"

\* The port is opened by init only before the receive thread is there.
OpenedOnce ==
  /\ rx = "off" => fd.epoch = 0
  /\ exec = "spin" /\ ~ok => rx = "off"

\* The bound on epochs: a board that is away has one to come back in.
RoomToPlug == ~plugged => epoch < MaxEpoch

PortInv ==
  /\ OneDescriptorPerPlug /\ FdIsOpen /\ NoFdAhead /\ NoneButFd
  /\ OpensAnew /\ RawInConfig /\ OpenedOnce /\ RoomToPlug

LEMMA InitHolds == Init => TypeOK /\ PortInv
<1> USE PortAssumption
<1>1. ASSUME Init PROVE TypeOK
  <2>1. NoFd \in [epoch : 0 .. MaxEpoch, raw : BOOLEAN] /\ 1 \in Epochs
    BY DEF NoFd, Epochs
  <2>2. opened \in [Epochs -> Nat]
    BY <1>1 DEF Init
  <2>3. fd \in [epoch : 0 .. MaxEpoch, raw : BOOLEAN] /\ epoch \in Epochs
    BY <1>1, <2>1 DEF Init
  <2>4. built \in 0 .. 2 /\ queued \in 0 .. Depth
    BY <1>1 DEF Init
  <2>5. plugged \in BOOLEAN /\ ok \in BOOLEAN
    BY <1>1 DEF Init
  <2> QED
    BY <1>1, <2>2, <2>3, <2>4, <2>5 DEF Init, TypeOK
<1>2. Init => PortInv
  BY DEF Init, PortInv, OneDescriptorPerPlug, FdIsOpen, NoFdAhead, NoneButFd,
         OpensAnew, RawInConfig, OpenedOnce, RoomToPlug, Epochs, NoFd
<1> QED
  BY <1>1, <1>2

\* A device is opened only while nothing is open on it.
LEMMA OpenKeeps ==
  ASSUME TypeOK, PortInv, plugged, fd.epoch # epoch, NEW raw \in BOOLEAN, Open(raw)
  PROVE  /\ fd' \in [epoch : 0 .. MaxEpoch, raw : BOOLEAN]
         /\ fd'.epoch = epoch /\ fd'.raw = raw
         /\ opened' \in [Epochs -> Nat] /\ opened'[epoch] = 1
         /\ \A e \in Epochs : opened'[e] <= 1
         /\ \A e \in Epochs : e > epoch => opened'[e] = 0
<1>1. epoch \in Epochs /\ Epochs \subseteq Nat /\ MaxEpoch \in Nat
  BY PortAssumption DEF TypeOK, Epochs
<1>2. fd' = [epoch |-> epoch, raw |-> raw]
  BY DEF Open
<1>3. opened' = [opened EXCEPT ![epoch] = opened[epoch] + 1] /\ opened[epoch] = 0
  BY DEF Open, PortInv, NoneButFd
<1>4. opened \in [Epochs -> Nat]
  BY DEF TypeOK
<1>5. opened' \in [Epochs -> Nat] /\ opened'[epoch] = 1
  BY <1>1, <1>3, <1>4
<1>6. ASSUME NEW e \in Epochs PROVE opened'[e] <= 1 /\ (e > epoch => opened'[e] = 0)
  BY <1>1, <1>3, <1>4 DEF PortInv, OneDescriptorPerPlug, NoFdAhead
<1> QED
  BY <1>1, <1>2, <1>5, <1>6 DEF Epochs

\* Closing leaves nothing open on the device that is there.
LEMMA CloseKeeps ==
  ASSUME TypeOK, PortInv, CloseDevice
  PROVE  /\ fd' = NoFd
         /\ opened' \in [Epochs -> Nat]
         /\ \A e \in Epochs : opened'[e] <= 1 /\ (e > epoch => opened'[e] = 0)
         /\ plugged => opened'[epoch] = 0
<1>1. /\ opened \in [Epochs -> Nat] /\ epoch \in Epochs /\ Epochs \subseteq Nat
      /\ fd.epoch \in 0 .. MaxEpoch
  BY PortAssumption DEF TypeOK, Epochs
<1>2. fd' = NoFd /\ opened' = [e \in Epochs |-> IF e = fd.epoch THEN opened[e] - 1 ELSE opened[e]]
  BY DEF CloseDevice
<1>3. ASSUME NEW e \in Epochs
      PROVE  opened'[e] \in Nat /\ opened'[e] <= 1 /\ (e > epoch => opened'[e] = 0)
  <2>1. e = fd.epoch => opened[e] = 1
    BY <1>1 DEF PortInv, FdIsOpen, Epochs
  <2>2. opened[e] \in Nat /\ opened[e] <= 1 /\ (e > epoch => opened[e] = 0)
    BY <1>1 DEF PortInv, OneDescriptorPerPlug, NoFdAhead
  <2>3. opened'[e] = IF e = fd.epoch THEN opened[e] - 1 ELSE opened[e]
    BY <1>2
  <2>4. fd.epoch <= epoch
    BY DEF PortInv, NoFdAhead
  <2> QED
    BY <1>1, <2>1, <2>2, <2>3, <2>4
<1>4. opened' \in [Epochs -> Nat]
  BY <1>2, <1>3
<1>5. plugged => opened'[epoch] = 0
  <2>1. opened'[epoch] = IF epoch = fd.epoch THEN opened[epoch] - 1 ELSE opened[epoch]
    BY <1>1, <1>2
  <2> QED
    BY <1>1, <2>1 DEF PortInv, FdIsOpen, NoneButFd, Epochs
<1> QED
  BY <1>2, <1>3, <1>4, <1>5

\* The board is unplugged or plugged in, as a new device.
LEMMA BoardKeeps ==
  ASSUME TypeOK, PortInv, Unplug \/ Plug PROVE TypeOK' /\ PortInv'
<1> USE PortAssumption
<1>1. epoch \in 1 .. MaxEpoch /\ fd.epoch \in 0 .. MaxEpoch
  BY DEF TypeOK, Epochs
<1>2. CASE Unplug
  <2>1. TypeOK'
    BY <1>2 DEF Unplug, TypeOK, port
  <2>2. PortInv'
    BY <1>1, <1>2 DEF Unplug, PortInv, OneDescriptorPerPlug, FdIsOpen, NoFdAhead,
       NoneButFd, OpensAnew, RawInConfig, OpenedOnce, RoomToPlug, port
  <2> QED
    BY <2>1, <2>2
<1>3. CASE Plug
  <2>1. epoch' = epoch + 1 /\ epoch' \in Epochs /\ epoch' > epoch
    BY <1>1, <1>3 DEF Plug, PortInv, RoomToPlug, Epochs
  <2>2. TypeOK'
    BY <1>3, <2>1 DEF Plug, TypeOK, port
  <2>3. NoneButFd' /\ OpensAnew' /\ NoFdAhead'
    BY <1>1, <1>3, <2>1 DEF Plug, PortInv, NoFdAhead, NoneButFd, OpensAnew, port, Epochs
  <2>4. OneDescriptorPerPlug' /\ FdIsOpen' /\ RawInConfig' /\ OpenedOnce' /\ RoomToPlug'
    BY <1>3 DEF Plug, PortInv, OneDescriptorPerPlug, FdIsOpen, RawInConfig, OpenedOnce,
       RoomToPlug, port
  <2> QED
    BY <2>2, <2>3, <2>4 DEF PortInv
<1> QED
  BY <1>2, <1>3

\* The nodes are built; the first one that finds the board opens the port.
LEMMA ConstructKeeps ==
  ASSUME TypeOK, PortInv, Construct PROVE TypeOK' /\ PortInv'
<1>1. exec = "spin" /\ built' \in 0 .. 2 /\ UNCHANGED <<plugged, epoch, exec, queued, wire>>
  BY DEF Construct, TypeOK, board
<1>2. CASE ok \/ ~plugged
  <2>1. UNCHANGED <<ok, fd, opened, rx>>
    BY <1>2 DEF Construct, InitPort, port
  <2>2. TypeOK'
    BY <1>1, <2>1 DEF TypeOK
  <2>3. PortInv'
    BY <1>1, <2>1 DEF PortInv, OneDescriptorPerPlug, FdIsOpen, NoFdAhead, NoneButFd,
       OpensAnew, RawInConfig, OpenedOnce, RoomToPlug
  <2> QED
    BY <2>2, <2>3
<1>3. CASE ~ok /\ plugged
  <2>1. Open(FALSE) /\ ok' = TRUE /\ rx' = "check"
    BY <1>3 DEF Construct, InitPort
  <2>2. epoch \in Epochs /\ epoch # 0
    BY DEF TypeOK, Epochs
  <2>3. fd.epoch # epoch
    BY <1>1, <1>3, <2>2 DEF PortInv, OpenedOnce
  <2>4. /\ fd' \in [epoch : 0 .. MaxEpoch, raw : BOOLEAN]
        /\ fd'.epoch = epoch /\ fd'.raw = FALSE
        /\ opened' \in [Epochs -> Nat] /\ opened'[epoch] = 1
        /\ \A e \in Epochs : opened'[e] <= 1
        /\ \A e \in Epochs : e > epoch => opened'[e] = 0
    BY <1>3, <2>1, <2>3, OpenKeeps
  <2>5. TypeOK'
    BY <1>1, <2>1, <2>4 DEF TypeOK
  <2>6. PortInv'
    BY <1>1, <1>3, <2>1, <2>2, <2>4 DEF PortInv, OneDescriptorPerPlug, FdIsOpen, NoFdAhead,
       NoneButFd, OpensAnew, RawInConfig, OpenedOnce, RoomToPlug, Epochs
  <2> QED
    BY <2>5, <2>6
<1> QED
  BY <1>2, <1>3

\* The rest of the executor's work but the closing of the device.
LEMMA ExecutorKeeps ==
  ASSUME TypeOK, PortInv, Command \/ Send \/ Shutdown \/ Stop
  PROVE  TypeOK' /\ PortInv'
<1> USE PortAssumption DEF board, port
<1>1. TypeOK'
  <2>1. CASE Command
    BY <2>1 DEF Command, TypeOK
  <2>2. CASE Send
    BY <2>2 DEF Send, TypeOK
  <2>3. CASE Shutdown \/ Stop
    BY <2>3 DEF Shutdown, Stop, TypeOK
  <2> QED
    BY <2>1, <2>2, <2>3
<1>2. UNCHANGED <<plugged, epoch, fd, opened, rx>>
  BY DEF Command, Send, Shutdown, Stop
<1>3. exec' = "spin" /\ ~ok' => exec = "spin" /\ ~ok
  BY DEF Command, Send, Shutdown, Stop
<1>4. PortInv'
  BY <1>2, <1>3 DEF PortInv, OneDescriptorPerPlug, FdIsOpen, NoFdAhead, NoneButFd,
     OpensAnew, RawInConfig, OpenedOnce, RoomToPlug
<1> QED
  BY <1>1, <1>4

\* The device is destroyed, or closed because it could not be configured.
LEMMA ClosingKeeps ==
  ASSUME TypeOK, PortInv, Join \/ ConfigureFails PROVE TypeOK' /\ PortInv'
<1>1. /\ CloseDevice
      /\ UNCHANGED <<plugged, epoch, ok, built, queued, wire>>
      /\ \/ exec' = "exited" /\ rx' = rx /\ rx \in {"off", "done"}
         \/ exec' = exec /\ rx = "config" /\ rx' = "open"
  BY DEF Join, ConfigureFails, RxStep, board
<1>2. /\ fd' = NoFd
      /\ opened' \in [Epochs -> Nat]
      /\ \A e \in Epochs : opened'[e] <= 1 /\ (e > epoch => opened'[e] = 0)
      /\ plugged => opened'[epoch] = 0
  BY <1>1, CloseKeeps
<1>3. NoFd.epoch = 0 /\ NoFd.raw = FALSE /\ NoFd \in [epoch : 0 .. MaxEpoch, raw : BOOLEAN]
  BY PortAssumption DEF NoFd
<1>4. epoch \in Nat /\ epoch > 0
  BY DEF TypeOK, Epochs
<1>5. TypeOK'
  BY <1>1, <1>2, <1>3 DEF TypeOK
<1>6. OneDescriptorPerPlug' /\ FdIsOpen' /\ NoFdAhead' /\ NoneButFd'
  BY <1>1, <1>2, <1>3, <1>4 DEF OneDescriptorPerPlug, FdIsOpen, NoFdAhead, NoneButFd
<1>7. OpensAnew' /\ RawInConfig' /\ OpenedOnce' /\ RoomToPlug'
  BY <1>1, <1>2, <1>3, <1>4 DEF PortInv, OpensAnew, RawInConfig, OpenedOnce, RoomToPlug
<1> QED
  BY <1>5, <1>6, <1>7 DEF PortInv

\* Read opens the device again, or finds that it is not there.
LEMMA ReopenKeeps ==
  ASSUME TypeOK, PortInv, Reopen PROVE TypeOK' /\ PortInv'
<1>1. rx = "open" /\ UNCHANGED <<plugged, epoch, ok, built, exec, queued, wire>>
  BY DEF Reopen, RxStep, board
<1>2. epoch \in Epochs /\ epoch # 0
  BY DEF TypeOK, Epochs
<1>3. CASE plugged
  <2>1. Open(TRUE) /\ rx' = "config"
    BY <1>3 DEF Reopen, RxStep
  <2>2. fd.epoch # epoch
    BY <1>1, <1>3 DEF PortInv, OpensAnew
  <2>3. /\ fd' \in [epoch : 0 .. MaxEpoch, raw : BOOLEAN]
        /\ fd'.epoch = epoch
        /\ opened' \in [Epochs -> Nat] /\ opened'[epoch] = 1
        /\ \A e \in Epochs : opened'[e] <= 1
        /\ \A e \in Epochs : e > epoch => opened'[e] = 0
    BY <1>3, <2>1, <2>2, OpenKeeps
  <2>4. TypeOK'
    BY <1>1, <2>1, <2>3 DEF TypeOK
  <2>5. PortInv'
    BY <1>1, <1>2, <1>3, <2>1, <2>3 DEF PortInv, OneDescriptorPerPlug, FdIsOpen,
       NoFdAhead, NoneButFd, OpensAnew, RawInConfig, OpenedOnce, RoomToPlug, Epochs
  <2> QED
    BY <2>4, <2>5
<1>4. CASE ~plugged
  <2>1. fd' = NoFd /\ opened' = opened /\ rx' = "open"
    BY <1>4 DEF Reopen, RxStep
  <2>2. NoFd.epoch = 0 /\ NoFd.raw = FALSE /\ NoFd \in [epoch : 0 .. MaxEpoch, raw : BOOLEAN]
    BY PortAssumption DEF NoFd
  <2>3. epoch \in Nat
    BY DEF TypeOK, Epochs
  <2>4. TypeOK'
    BY <1>1, <2>1, <2>2 DEF TypeOK
  <2>5. PortInv'
    BY <1>1, <1>4, <2>1, <2>2, <2>3 DEF PortInv, OneDescriptorPerPlug, FdIsOpen,
       NoFdAhead, NoneButFd, OpensAnew, RawInConfig, OpenedOnce, RoomToPlug
  <2> QED
    BY <2>4, <2>5
<1> QED
  BY <1>3, <1>4

\* The rest of the receive thread.
LEMMA ReceiveKeeps ==
  ASSUME TypeOK, PortInv, RxCheck \/ ReadData \/ ReadEof \/ ReadFails \/ Configure
  PROVE  TypeOK' /\ PortInv'
<1> USE DEF board, port
<1>1. CASE RxCheck \/ ReadData \/ ReadFails
  <2>1. /\ rx \in {"check", "read"} /\ rx' \in {"check", "read", "done"}
        /\ UNCHANGED <<plugged, epoch, ok, fd, opened, built, exec, queued, wire>>
    BY <1>1 DEF RxCheck, ReadData, ReadFails, RxStep
  <2>2. TypeOK'
    BY <2>1 DEF TypeOK
  <2>3. PortInv'
    BY <2>1 DEF PortInv, OneDescriptorPerPlug, FdIsOpen, NoFdAhead, NoneButFd,
       OpensAnew, RawInConfig, OpenedOnce, RoomToPlug
  <2> QED
    BY <2>2, <2>3
<1>2. CASE ReadEof
  <2>1. /\ rx = "read" /\ rx' = "open" /\ ~Alive(fd)
        /\ UNCHANGED <<plugged, epoch, ok, fd, opened, built, exec, queued, wire>>
    BY <1>2 DEF ReadEof, RxStep
  <2>2. TypeOK'
    BY <2>1 DEF TypeOK
  <2>3. PortInv'
    BY <2>1 DEF PortInv, OneDescriptorPerPlug, FdIsOpen, NoFdAhead, NoneButFd,
       OpensAnew, RawInConfig, OpenedOnce, RoomToPlug, Alive
  <2> QED
    BY <2>2, <2>3
<1>3. CASE Configure
  <2>1. /\ rx = "config" /\ rx' = "read"
        /\ fd' = [fd EXCEPT !.raw = FALSE]
        /\ UNCHANGED <<plugged, epoch, ok, opened, built, exec, queued, wire>>
    BY <1>3 DEF Configure, RxStep
  <2>2. fd' \in [epoch : 0 .. MaxEpoch, raw : BOOLEAN] /\ fd'.epoch = fd.epoch /\ fd'.raw = FALSE
    BY <2>1 DEF TypeOK
  <2>3. TypeOK'
    BY <2>1, <2>2 DEF TypeOK
  <2>4. PortInv'
    BY <2>1, <2>2 DEF PortInv, OneDescriptorPerPlug, FdIsOpen, NoFdAhead, NoneButFd,
       OpensAnew, RawInConfig, OpenedOnce, RoomToPlug
  <2> QED
    BY <2>3, <2>4
<1> QED
  BY <1>1, <1>2, <1>3

LEMMA StutterKeeps ==
  ASSUME TypeOK, PortInv, UNCHANGED vars PROVE TypeOK' /\ PortInv'
  BY DEF vars, TypeOK, PortInv, OneDescriptorPerPlug, FdIsOpen, NoFdAhead, NoneButFd,
     OpensAnew, RawInConfig, OpenedOnce, RoomToPlug

THEOREM PortInvariant == Spec => [](TypeOK /\ PortInv)
<1>1. TypeOK /\ PortInv /\ [Next]_vars => TypeOK' /\ PortInv'
  BY BoardKeeps, ConstructKeeps, ExecutorKeeps, ClosingKeeps, ReopenKeeps, ReceiveKeeps,
     StutterKeeps DEF Next, Receive
<1> QED
  BY InitHolds, <1>1, PTL DEF Spec

\* Every variable of the line keeps its type.
THEOREM PortTypeCorrect == Spec => []TypeOK
  BY PortInvariant, PTL

\* However often the board is pulled and plugged in, and however many nodes ask
\* for the port, no device is held open twice.
THEOREM PortOneDescriptor == Spec => []OneDescriptorPerPlug
<1>1. TypeOK /\ PortInv => OneDescriptorPerPlug
  BY DEF PortInv
<1> QED
  BY PortInvariant, <1>1, PTL

\* The line never serves on a descriptor that is not configured, outside the
\* one window that the missing lock leaves open.
THEOREM PortMangledOnly == Spec => MangledOnlyInReconnect
<1> DEFINE InWindow == Send /\ ok /\ wire' = "mangled" => rx = "config"
<1>1. TypeOK /\ PortInv => [InWindow]_vars
  <2> SUFFICES ASSUME PortInv, Send, ok, wire' = "mangled" PROVE rx = "config"
    OBVIOUS
  <2> QED
    BY DEF Send, PortInv, RawInConfig
<1> QED
  BY PortInvariant, <1>1, PTL DEF MangledOnlyInReconnect
=============================================================================
