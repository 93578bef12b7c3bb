# Verification of game_26_team: TLA+ models, TLC runs and TLAPS proofs

game_26_team is the vision computer of a RoboMaster robot. It watches a camera,
finds enemy armour plates, and tells an electronics board over a serial line
where to point the gimbal and whether it may fire. This directory holds TLA+
models of the parts of that program whose correctness depends on state and
order, the TLC configurations that check them, and proofs about them.

Paths in this file are relative to the repository. `AIM` is
`src/serical_device_ros2/src/auto_aim_node.cpp`, `SERIAL` is
`src/serical_device_ros2/src/serial_main.cpp`.

## 1. The system

### Execution

`all_nodes.launch.py` loads `AutoAimNode`, `RobotCtrlSub` and `VisionPub` into
one `component_container`, whose executor has a single thread: callbacks of the
three nodes never overlap, and come in any order. The one other thread of the
process is the serial receive thread of `SerialMain`. The camera node is a
process of its own. Parameters may be set at any time with `ros2 param set`
(`start_all.sh` does so to select `aim_mode direct`), again as callbacks of the
same executor.

    camera node --image_raw, camera_info--> AutoAimNode --Robot_ctrl_data--> RobotCtrlSub
                                                ^                                |
                                           Vision_data                    send_robot_ctrl
                                                |                                v
    board --bytes--> [rx thread] SerialMain --> VisionPub               SerialMain --bytes--> board

In mode "awakening" `AutoAimNode::on_image` gives the plates of an image to
`ArmorTracker`, keeps what it returns as `target_` and tells `AutoAimFsm` how
fast it spins; in mode "direct" it keeps the one plate next to the middle.

`old/` holds the previous generation of the system, with nodes of the same
names. There a safety watchdog (`RobotCtrlSafety`) stands between the topic and
the board, the tracker and the selector are the project's own, and each node is
a process with a timer and a timeout of its own.

### Components

| Component | State | Operations | What makes it correct |
|---|---|---|---|
| AutoAimNode (`AIM`) | parameters, `latest_vision_`, `direct_`, `target_`, filter `prev_f*_`, integrators `int_*_`, `last_cmd_`, `last_direct_`, `engaged_`, `last_sent_*_` | `on_camera_info`, `on_vision`, `on_image`, `solver_tick` (200 Hz) | fire only through open gates at something live; bounded commands; no state of one engagement leaking into the next; convergence on the target; unlock when the key is released |
| SerialMain receive (`SERIAL`) | `buf_`, `latest_vision_`, `vision_seq_`, `err_count_` | `rx_loop`, `feed`, `try_parse` | in step on a clean line; bounded cost of a bad byte; frames in order and once; bounded buffer |
| SerialMain transmit, life | `ok_`, `dev_`, the thread | `init`, `stop`, `send_robot_ctrl` | whole frames on the wire; both directions come back after an outage; `stop` ends |
| VisionPub | `last_seq_` | `poll` (2 ms) | no stale or lost last frame, no repeats |
| RobotCtrlSub | none | constructor, subscription callback | every command forwarded, in order |
| SerialDevice | `serial_fd_` | `Init`, `Read` (with reconnect), `Write`, `CloseDevice` | descriptors do not pile up; the link never serves on an unconfigured one |
| HikCamera | failure count, image buffer | capture thread, `parametersCallback` | images in order, or shutdown; parameters all or nothing |
| ArmorTracker (`third/awakening`) | two targets: current and backup | `track`, `update_fsm` | a lock is earned; it is dropped and replaced only after its time; what the solver reads is never older than it says |
| AutoAimFsm (`third/awakening`) | mode, overflow time | `update` | a mode is earned, one step at a time; none without a jump |
| detector, filter, ballistics (`third/awakening`) | numeric | | outside this project |
| `old/`: RobotCtrlSub, RobotCtrlSafety | last valid command, its time | `Accept`, `Tick` | unlocked and holding after a refusal or a timeout |
| `old/`: AutoAimNode, Backend | latest command, time of the last image | `on_image`, `publish_control` | offline results never move anything; the chain fails safe |
| `old/`: OfflineTracker, TargetSelector, SafeOfflineAimer | tracks, chosen and pending track | `update`, `select`, `aim` | largest matching; locks confirmed; switches debounced |
| `old/`: detector, calibration, end-to-end harness, release audit | | | numeric code and command-line tools, outside this project |

### Behaviours that are hard to test

`PROJECT.json` lists them at their lines under "hazards". The main ones: a
solver tick reads five inputs that change independently (gates, uplink, plate,
track, time), and keeps nine pieces of state between ticks; the yaw axis is a
circle and the commands are limited three times in a row; the receiver
interprets a length before it knows the header is good, and skips bytes that
may hold the next header; `poll` reads a counter and a frame under two separate
locks; the receive thread replaces a descriptor that the executor writes to;
the tracker exchanges two buffers, each with a count that must not survive in
the wrong one; the mode controller measures time in the stamps of images that
come late or not at all; in the previous generation a lock has an age that no
message carries, bounded only by two timeouts in a row.

## 2. Modules

| Module | Models | Composition |
|---|---|---|
| `CommandShaping` | the arithmetic of a command: smoothing on the circle, limits, deadband | |
| `AimControl` | AutoAimNode, one action per callback | EXTENDS CommandShaping, TrackSource |
| `AimLoop` | AutoAimNode with a standing plate, an ideal gimbal and an operator | EXTENDS AimControl |
| `TrackSource` | abstract: what the solver may assume of `target_` | |
| `VisionSource` | abstract: what SerialMain promises its reader | |
| `FrameParser` | SerialMain's `feed`/`try_parse` and the line behind them | implements VisionSource (`ImplementsSource`) |
| `VisionRelay` | `poll` between the serial thread, the topic and `on_vision` | EXTENDS VisionSource |
| `SerialPort` | `init`, `stop`, `send_robot_ctrl`, `rx_loop` and the descriptor, on two threads, with a board that comes and goes | |
| `ArmorTrack` | ArmorTracker: both buffers through one image | |
| `AutoAimFsm` | the mode controller | |
| `HikCamera` | the capture thread | |
| `VisionChain` | camera, topic, tracker and mode controller composed | EXTENDS the three; implements TrackSource (`ImplementsTrackSource`) |
| `ControlWatchdog` | `old/`: RobotCtrlSafety | |
| `TargetTracks` | `old/`: OfflineTracker and TargetSelector | |
| `LegacyAimNode` | `old/`: AutoAimNode and Backend | EXTENDS TargetTracks |
| `LegacyChain` | `old/`: from the image to the board | EXTENDS LegacyAimNode, ControlWatchdog |
| `AimControlProofs`, `VisionRelayProofs`, `FrameParserProofs`, `SerialPortProofs`, `ArmorTrackProofs`, `VisionChainProofs`, `TargetTracksProofs`, `LegacyChainProofs` | theorems | EXTEND their component; VisionChainProofs also ArmorTrackProofs, LegacyChainProofs also TargetTracksProofs |
| `MCAimControl`, `MCAimLoop`, `MCFrameParser`, `MCVisionRelay`, `MCVisionChain`, `MCLegacyChain` | values for TLC | |

A definition whose comment begins with "Mutated" is a plausible slip in the
definition after it; `PROJECT.json` pairs it with the property that must catch
it. No specification refers to such a definition.

### CommandShaping and AimControl

A pose is a function from `{"yaw", "pitch"}` to integers on a grid: `HalfTurn`
grid units are 180 degrees. The code computes in doubles and publishes floats;
the models keep the order and the structure of the operations and round only
the two gains below one (`cmd_smooth_alpha = 1/Alpha`, `direct_ki = 1/KiDiv`).
Integral gains are absorbed in the unit of `IntMax`.

`SolverTick` is one atomic callback with four exclusive cases, which are the
branches of `solver_tick`: `AwakeningTick`, and in direct mode `DirectFollow` (a
plate seen less than 0.30 s ago), `DirectHold` (a stale one) and `DirectIdle`.
Every case first runs the `very_aim` stage, as the code does in both modes, and
ends with `Publish` (limits, deadband, publication). Ages are kept with the
observation and saturate at the threshold the code compares them with;
`Elapse` is the passage of time. The detector, the tracker and the ballistics
are external to it: `OnImage` chooses what was seen, `TrackSource` what the
tracker made of it, `AimResults` any aim (or none) while a track is alive. The
inner declaration `double fy` that hides the focal length is modelled as it is
written: `InWindow` divides the plate's half height by the commanded yaw.

Left out: velocity and acceleration feed-forward, operator offsets (they only
shift what the external `very_aim` returns), `build_camera_in_z` and the history
behind it (they feed only the external tracker), debug images, snapshots and
logging.

### FrameParser and VisionSource

A byte on the line carries, besides its value, which frame and place it was
sent from, so "both checksums match" is "these are one frame's bytes, in order
and undamaged": CRC collisions are outside the model. `feed` holds the mutex
during the whole parse; the model takes the loop one iteration at a time
(`StopParsing`, `Reject`, `Accept`) and nothing else of the receiver can run in
between. The two length bytes are one, field sizes are constants. The line may
damage or drop a byte, and reads cut the stream anywhere.

`VisionSource` says: the newest frame only gets newer, and the counter goes up
by one with each. `ImplementsSource` is the refinement, with `newest` mapped to
the ordinal of the frame in `latest_vision_`.

### VisionRelay

`VisionRelay` puts VisionPub on top of the abstract source rather than on the
parser: `PollSeq` and `PollFrame` are the two locked reads of `poll`, and the
serial thread (`Receive`) may act between them. The topic keeps `Depth` messages
and drops the oldest. A poll that finds the counter unchanged is a stuttering
step.

### SerialPort

Two threads: the executor (`Construct`, `Command`, `Send`, `Shutdown`, `Stop`,
`Join`) and the receive thread (`RxCheck` to `ConfigureFails`, the loop of
`rx_loop` with that of `SerialDevice::Read` inside). `mtx_` guards `ok_`, and the
descriptor has no lock: `Send` uses whatever `serial_fd_` is at that moment. A
board that is plugged in again is a new epoch; a descriptor belongs to the epoch
it was opened in and is dead ever after. `opened` counts, by epoch, the
descriptors the process holds.

A descriptor between its `open` and its `tcsetattr` has the terminal's default
settings and rewrites some bytes: a command sent through it is `mangled`.
`MangledOnlyInReconnect` says that is the only time; that it can happen then is
what the code does. `Read` does not close the descriptor on which it saw the end
of file, so each outage leaves one behind: `OneDescriptorPerPlug` says it is
never more, however long the retries go on.

External: a descriptor whose board is gone reads as closed (0), sooner or later,
and not as an error for ever. If no board is there when the nodes are built
`init` is never tried again; that is why the recovery properties ask for `ok_`.
A board that is there but cannot be configured by `init` leaves the same state as one
that is not (`InitPort`).
`SerialMain`'s sequence number and counter are left out, they go nowhere. A
`Write` that blocks while it holds `mtx_` is not modelled.

### ArmorTrack, AutoAimFsm, HikCamera and VisionChain

`ArmorTrack` models the control of `ArmorTracker::track`: `Processed` is its
lambda on one buffer (start, update or miss, then `update_fsm`), `Alone` and
`InDoubt` the two ways through it. Whether the filter's prediction matches a
plate, and which plate the backup starts on, are choices within the conditions
the code checks (`Eligible`). Ages are by the clock, as in `check()`; an image may be
processed `late`, and `update_fsm` compares stamps. `Backup` forgets the fields
of a lost backup, which `reset` overwrites before anything reads them. `streak`
is history: in how many images in a row the target was found.

`AutoAimFsm` is `update` with the spin as any of `Rates`. `HikCamera` is the
capture thread: the conversion comes before the resize, so the first image is
blank. `VisionChain` composes them: `Capture` publishes, the topic keeps
`FrameDepth` images, `Lose` drops one (best effort, an unknown encoding, an
exception of the detector), `OnImage` is the callback in awakening mode and ends
with the update of the mode; `Dt` is `get_dt` on the image stamps. `Elapse` lets
no image wait longer than `FrameAge`; that is the bound on the delay.

`ModeIsEarned` counts from the image that brought the mode (`entered`, history).
A backup that takes over with its jumped flag set inherits the mode of the
target it replaces; the property is about the mode and allows that. An
outpost's own threshold is 2.0 s, but `check()` uses 1.5 s for every target:
`OutpostKept` allows the half second in which it may be displaced.

### ControlWatchdog, TargetTracks, LegacyAimNode and LegacyChain

`ControlWatchdog` is `RobotCtrlSafety`: `Accept`, `Tick` and `Constrained`.
`TargetTracks` is one frame of `OfflineTracker::update` (lost tracks dropped, the
lambda `augment`, `Found`, `Missed`, `Captured`) followed by
`TargetSelector::select` (`Ranked`, `Debounced`). `MostMatched` is the reference
for the augmenting paths: the largest of all matchings. `Augment` is the lambda as a
recursive function over the number of observations a call may still see: the set
`seen_observations` and the owners are what it returns, and a call has succeeded
when the owners have changed. An observation is tried by `Try`, nearest first, as
the sorted adjacency lists have them. All gates, those of angle and velocity too, are one
coordinate with one threshold, and the selector's confidence tie epsilon is 0. Lost tracks
stay in the code's vector, where they are only counted. The node builds its selector
with the default debounce of 1 (`ros_backend.cpp:171`), where a switch takes one win; the
run uses 2, a configuration of the class.

`LegacyAimNode` adds the node: camera info, the mock and the offline backend,
the freshness of the image and `publish_control`; its process may end and be
started again. `LegacyChain` adds the topic, of `Depth` messages, and the other
node. A message carries no stamp: its age in the model is history, and `Transit`
bounds how long it waits (in the code nothing does). The node counts an image as
fresh from the end of its processing, so `LockIsRecent` bounds the age from
there; the processing time comes on top.

Left out: the null backend and `mock_target=false` (never lock), fire, yaw,
velocity (zero or treated as pitch is), `VisionStateHistory` (feeds diagnostics
only), the branch for a clock that runs backwards (the clock is steady),
`require_camera_info=false`. `Publishable` and `Aimed` also leave out gates that are redundant to
their own: `dry_run`, `serial_enabled` and `allow_fire` (`ros_backend.cpp:131` requires what 259
then finds) and the aimer's return for a missing angle. The model publishes more than the code
here, so `OfflineIsInert` holds with one gate where the code has two.

### AimLoop

The environment is as kind as it can be: a plate that stands still, a camera
that keeps seeing it, a gimbal that reaches each locked command before the next
report, ticks and frames in a fixed rotation. What fails here fails
everywhere. The uplink hands the pose over directly; VisionRelay shows what the
real path adds (a delay, never an older pose).

## 3. Runs

| Run | Configuration | Shows |
|---|---|---|
| `aim_direct` | direct mode; a turn of 8 units, feedback at both ends of the range (the seam) and in the middle, three plate errors; gates and mode 33 free | types, `DeadbandReference`, `FilterBounded`, `FireIsPermitted`, `ExcursionBounded`, `IntegratorRestarts`, `RangeKept` |
| `aim_modes` | both modes, switched at run time; tracks of any age below a lost time of 2 | `DeadbandReference`, `FireIsPermitted`, `LockStartsOnTrack` |
| `aim_loop` | 0.05 degree units, shipped slew step, deadbands not above it | `Converges`, `ReleaseUnlocks` (liveness) |
| `frame_parser` | frames of 6 and 7 bytes, a buffer of 16, one fault, one embedded SOF, six frames | `TypeOK`, `CleanLineInStep`, `LossBounded`, `ImplementsSource` |
| `vision_relay` | six frames, a queue of 3 | `TypeOK`, `NoRegression`, `UpToDate` (liveness) |
| `serial_port` | a topic of 2, the board plugged in up to four times | `TypeOK`, `OneDescriptorPerPlug`, `MangledOnlyInReconnect`, `UplinkRecovers`, `DownlinkRecovers`, `StopReturns` (the last three liveness) |
| `vision_chain` | ticks of half a second; lost after 2, an outpost after 3, transfer after 1; a threshold of 2 images; two kinds of robots, one of them the outpost | `TypeOK`, `LockIsEarned`, `ModeNeedsJump`, `OutpostKept`, `ModeIsEarned`, `Acquires` (liveness), `ImplementsTrackSource` |
| `legacy_chain` | five launches (offline backend; mock backend, alone, beside another publisher, and without the vehicle profile of either node); two classes, three places, two confidences; timeouts of 2 | `TypeOK`, `OfflineIsInert`, `LockIsConfirmed`, `MatchesAreMaximum`, `SwitchIsDebounced`, `LockIsRecent`, `HoldsAndUnlocks`, `FailsSafe` (liveness) |
| `aim_pitch_window` | as `aim_direct` | violated: `FireWithinPlate` |
| `aim_lock_value` | as `aim_direct` | violated: `LockValueIsKnown` |
| `aim_loop_shipped` | as `aim_loop` with the shipped pitch deadband | violated: `Converges` |
| `vision_repeat` | as `vision_relay` | violated: `AtMostOnce` |

Bounds, and why they are enough:

* *Grid.* The properties of the limits depend on the order of a few quantities
  (slew step, deadband, range, excursion, half turn) and on the seam. The small
  turn of `MCAimControl` makes every comparison come out both ways: feedback of
  4 lies beyond the range of 3, the yaw deadband of 2 exceeds the slew step of 1, the
  pitch deadband of 1 does not.
  The proofs cover every other grid.
* *Ages.* `StaleAge = 1`: an observation is fresh or it is not; the code makes no
  finer distinction. `aim_modes` has `LostAge = 2`, so that a track from a late
  image is alive for a shorter time than one from an image that came at once.
* *AimLoop.* Distances are several deadbands on both axes; a run from each start
  to each plate passes through the slew-limited, the filtered and the
  integrating phase.
* *FrameParser.* Lengths a damaged byte can announce include one shorter than
  the frame, ones that reach into the next two frames, and one beyond the
  buffer. What `LossBounded` allows on a clean line is tight: with one frame less
  TLC finds a counterexample. A fault costs less here than it allows; that a bad
  byte takes the frame it was part of besides what it leads the search to shows
  with two faults and reads of one byte. With the real sizes (4096 bytes of
  buffer, reads of 512, frames of 57) a bad byte costs at most 82 frames, 0.16 s
  at 500 Hz. The proof covers any sizes and any number of faults.
* *VisionRelay.* The queue overflows, and frames come between any two reads.
* *SerialPort.* Four plugs are three outages: one during the construction of the
  nodes, one while a reconnect is under way, one during `stop`. A topic of two
  overflows. The proofs cover any number of both.
* *VisionChain.* The shipped lost times are 3 and 4 ticks and the threshold is 3;
  one less of each keeps their order (transfer below lost, lost below outpost)
  and lets an image be late by a tick and both buffers be lost, restarted and
  exchanged. One image on the topic overflows; the camera gives up after one
  failure instead of five. The spins lie below, between and above the thresholds
  of every mode. Ages are capped where no comparison tells them apart any more.
* *LegacyChain.* Three places with a gate of one, so that two tracks compete for
  the place between them; a frame shows at most two armors (`FrameSize`), which is
  enough to make a search displace a track; of two identities one may be confident or not, so that
  rankings change and tie; counts and debounce of two are the least that can be
  interrupted. Poses beyond the profile's limits are clamped.

The finite senders of `frame_parser`, `vision_relay` and `vision_repeat` run out
of frames, and the process of `serial_port` exits; these runs do not check for
deadlock. All others do.

### Fairness

`AimLoop`: weak fairness of the rotation. The code's wall timers (2 ms poll,
5 ms tick) and the camera's frame rate repeat each of its steps for ever; the
release of the key is not fair, the operator may hold it for ever.
`SerialPort`: each thread runs, and what the code retries it retries for ever
(weak fairness); the board is plugged in again in the end and talks, a dead
descriptor reads as closed, and a live port can be configured now and then
(strong fairness, since an unplug may disable these steps again and again). These
are assumptions about the board: without it `stop` does not end, because the
loop in `Read` does not look at `ok_`. Nothing that goes wrong is fair.
`VisionChain`: the capture thread runs (weak), and not every image is lost
(strong). `Acquires` assumes that the camera does not give up and that from some time on
every searched image shows the robots.
`LegacyChain`: RobotCtrlSub's executor takes what is queued and its timer runs,
and time passes (weak). The node itself gets no fairness: `FailsSafe` is about
what happens without it.
`VisionRelay`: weak fairness of `PollSeq`, `PollFrame` and `Deliver`, because the
poll is a periodic timer and the executor serves every ready callback before
it waits again. The serial thread gets no fairness: the line may stay silent.

### What the violated runs show

1. **Pitch fire window** (`aim_pitch_window`). `AIM:544` declares a new `fy`, the
   commanded yaw, that hides the focal length of line 535; line 568 divides by
   it. Near yaw 0 the pitch window is its 20 degree cap.
2. **Lock value 0** (`aim_lock_value`). A first observation that is already stale
   when the node is enabled replays a default-constructed `last_direct_`, with
   `target_lock` 0; `RobotCtrl.msg` knows 49 and 50.
3. **Stalled pitch** (`aim_loop_shipped`). The slew limit allows 0.25 degrees
   from the measured pose, the pitch deadband holds back everything below 0.3
   degrees from the last sent command. An ideal gimbal that has reached the
   last command is never sent another. `aim_loop` is the same run with a
   pitch deadband of 0.25 degrees. On the yaw axis step and deadband are both
   0.25 as shipped; on the exact grid of the model such a move passes, in floats
   rounding decides.
4. **Repeated frame** (`vision_repeat`). A frame parsed between `poll`'s two locks
   is published twice. `NoRegression` and `UpToDate` hold nevertheless: the
   order of the two reads makes the relay repeat, never lose.

Seen while modelling and not given a run: direct mode fires with command 2
where `RobotCtrl.msg` lists 0 and 1; `last_direct_` is replayed as a lock after a
release and re-enable while the observation is stale; a stale hold and a switch of the mode
keep the integrators, only the idle exit clears them; switching from direct to
awakening may replay an old `last_cmd_`, because `engaged_` is shared; a dead
uplink leaves mode 33 latched; the yaml's `allow_fire: true` overrides the
launch file's `False` while its comment says to keep it false; a literal `\n` in
a comment of `all_nodes.launch.py:25` swallows the `aim_mode` setting; with
feedback near one end of the range and a target beyond the seam the gimbal turns
the long way round (`RangeKept`: no new command leads out of the range); every outage
of the serial line leaks one descriptor; if the board is absent at launch the
port is never opened; `stop` waits for the board when it catches the receive
thread in a reconnect; the first image of the camera is blank; in `old/`, one
stamp far in the future leaves the tracker unlocked for good.

## 4. Proofs

The proof modules are checked by tlapm to the last leaf, for every value of
the constants that satisfies the assumptions named in the component's module
(`ShapingAssumption`, `AimAssumption`, `OvershootAssumption`, `SourceAssumption`,
`RelayAssumption`, `ParserAssumption`, `SizeAssumption`, `PortAssumption`,
`TrackAssumption`, `FsmAssumption`, `CameraAssumption`, `ChainAssumption`,
`WatchAssumption`).

| Theorem | States |
|---|---|
| `TypeCorrect` | `Spec => []TypeOK` for AimControl. The work is in the arithmetic: `Remainder` and `Quot` are integers, clamps stay in their range, the shaping operators map poses to poses. |
| `ReferenceCorrect` | `DeadbandReference`, inductive once `NaN` is no pose. |
| `FilterCorrect` | `FilterBounded`. The invariant adds that the error of a valid plate is one of `Errors` and the reported pose one of `Feedback` or the initial one, which bounds the first, unsmoothed command; a smoothed step lands within a half turn, and the integral term comes on top. |
| `FireCorrect` | `FireIsPermitted`. |
| `LockStartCorrect` | `LockStartsOnTrack`. The invariant relates `engaged` to the last output: an engaged node with a command published a lock. |
| `RestartCorrect` | `IntegratorRestarts`, when every parameter record selects direct mode (a switch to awakening and back leaves the integrators alone). |
| `ExcursionCorrect` | `ExcursionBounded`: the three limits and the deadband composed, on the circle. |
| `RangeCorrect` | `RangeKept`: a move within the excursion limit towards a point of the range does not leave it. |
| `RelayTypeCorrect`, `RelayNoRegression` | `TypeOK` and `NoRegression` of VisionRelay. The invariant: the queue is sorted, not older than what was delivered, not newer than the newest frame. |
| `ParserTypeCorrect` | `TypeOK` of FrameParser: the buffer is bounded whenever the mutex is free. |
| `ParserImplementsSource` | FrameParser implements VisionSource, whatever the line damages or drops. The invariant `InOrder`: the bytes in hand, those of `buf_` and those not read yet, are in the order they were sent in, after the start of the latest frame and before the byte to come. Each action takes bytes off one end or adds one at the other. |
| `ParserCleanLineInStep` | `CleanLineInStep`. The invariant `Gapless` (while no fault has happened): each byte in hand follows the one before without a gap, and the first is the first byte of a frame; so the parser finds its SOF where the buffer begins, every check succeeds, and what an accepted frame leaves begins with a frame again. |
| `ParserLossBounded` | `LossBounded`: how many VISION frames a bad byte can cost. The invariant `LossInv` is an account of the frames. See below. |
| `PortTypeCorrect`, `PortOneDescriptor`, `PortMangledOnly` | `TypeOK`, `OneDescriptorPerPlug`, `MangledOnlyInReconnect` of SerialPort. The invariant: a descriptor of the present epoch is the one in `serial_fd_`, it is unconfigured only in state `config`, and a reconnect starts only when the current epoch has none. |
| `TrackTypeCorrect`, `TrackLockIsEarned`, `TrackOutpostKept` | the tracker alone. The invariant relates each buffer's count to its history, and says in which states the backup can be anything but lost. |
| `ChainTracks`, `ChainLockIsEarned`, `ChainOutpostKept` | every step of VisionChain is one of ArmorTrack's specification or leaves its variables, so the tracker's theorems hold in the chain. |
| `ChainTypeCorrect`, `ChainModeNeedsJump`, `ChainModeIsEarned` | the mode controller in the chain. The invariant: the images on the topic are sorted by age and younger than the last one searched, so no time is negative; and the time counted against a mode lies between the image that brought it and the last one. `ChainAssumption` says that capped ages are beyond `transfer_time`. |
| `ChainImplementsTrackSource` | VisionChain implements TrackSource: what the solver's model assumes of the tracker. |
| `WatchTypeCorrect`, `WatchHoldsAndUnlocks` | ControlWatchdog: `HoldsAndUnlocks` for every message and timeout, and every pose held or written is within the profile's limits. The invariant: what was last accepted is what is held. |
| `OwnersAreMost`, `TrackerMatchesMost` | the augmenting paths of `OfflineTracker::update` find a maximum-cardinality matching for any number of tracks and observations, and so does every frame of the chain (`MatchesAreMaximum`). See below. |
| `TrackerConfirms`, `SelectorDebounces` | `LockIsConfirmed` and `SwitchIsDebounced`. The invariant `TracksInv`: a track that is not lost has a count no larger than the frames in a row that found it; a locked one was found in this frame; the wins of a pending track are no more than those it had in a row; only a locked track is chosen, and one at most. |
| `ChainImplementsWatch`, `ChainHoldsAndUnlocks` | LegacyChain goes through steps of ControlWatchdog's own specification (the queue delivers only `Messages`), so `HoldsAndUnlocks` holds in the chain. |
| `ChainTypeCorrect` (of `LegacyChainProofs`), `WrittenLockIsRecent`, `OfflineMovesNothing` | `TypeOK`, `LockIsRecent` and `OfflineIsInert` of LegacyChain. The invariant `ChainInv`: a lock in the queue is of an image that was fresh when it was published and has aged by its wait; a held lock was no older when it was taken; and of an offline launch without another publisher everything queued, held or written is the safe command. |

Type correctness alone is not enough for most of the others: the filter's bound
needs the range of its inputs, the lock property needs to know what the last
output says about `engaged`, the relay and the parser need the order of all that
is on its way.

The matching. A set of tracks is *closed* when every observation that is feasible
for one of them belongs to one of them. A call of `augment` that fails leaves a
closed set that holds its track (`Barren`): what it saw is taken, and the owners
of what it saw want nothing else. A call that succeeds keeps every closed set as it
is (`Keeps`), since it can enter none. So after the loop over the tracks some
closed set holds every track that has nothing (`Matched`), and no matching gives the
tracks of a closed set more observations than belong to them already
(`NoLargerMatching`). The recursion is over data: the induction theorems of the
library take an operator and cannot be used, so the proof module derives induction
over a set of naturals from the well-foundedness of `<` (`SetInduction`) and with it
that `augment` and the loop satisfy their equations (`IteratesExist`, `RoundsExist`) and
that a call that may see n more observations keeps its promise (`GoodTo`).

The account of frames (`LossInv`). Seen from the receiver the *line* is the bytes in
hand and the place of the byte to come. A VISION frame can still be taken if its first
byte is in hand and everything sent of it since follows undamaged (`Starts`). A
*culprit* is a damaged byte, a place where bytes are missing, or a SOF that is no
frame's first byte (`Culprits`). Without a culprit on the way a frame goes on
(`RunFrom`), so a frame the search works on passes its checks (`WholeMatches`), and
whatever an iteration discards at the expense of a frame that could be taken has a
culprit in it: one frame for a rejected header (`RejectCosts`) or an accepted
impostor (`AcceptCosts`), a full buffer and a read for one that was dropped
(`OverflowCosts`). Culprits enter with faults and embedded SOFs only, and a fault can
also end the frame that is being sent (`LineSent`, `LineFaulted`). So the frames
started are at most those taken, those that can be taken, one for each fault, and
`LossPerStart` for each fault or embedded SOF whose culprit is gone (`Accounted`).
What remains is how many can be taken at once: starts are a whole frame apart, and the
part of the buffer that was parsed to its end holds one at most unless a culprit
that is still there, or one already paid for in full, holds the search back
(`Settled`). The account showed that an earlier form of the bound was wrong: it
charged a bad byte for what it leads the search to and not for the frame it was part
of, which one fault in six frames cannot show.

`ChainAssumption` of LegacyChain says that the bounds fit together: `MaxAge` is the
sum of `NodeTimeout` and `Transit`, and `Poses` holds the poses the node
publishes (the safe command's and each launch's, constrained).

Only model-checked: the liveness properties (`Converges`, `ReleaseUnlocks`,
`UpToDate`, `UplinkRecovers`, `DownlinkRecovers`, `StopReturns`, `Acquires`,
`FailsSafe`), which are beyond the prover.

## 5. Plan

Done: every module of the table in section 2, with its runs and proofs.

Worth doing next: the uplink from the byte to the solver in one model
(FrameParser's promise, VisionRelay and AimControl, with SerialPort's outages), for
what the latched mode 33 allows. It needs a property the repository states; today
no line promises that a dead uplink unlocks.

## 6. Not modelled

* Detection, filtering, ballistics, PnP and calibration
  (`third/awakening/src/tasks/auto_aim`, `old/src/auto_aim_ros2`): numeric code.
  Their results are inputs, and every outcome the control code tells apart is
  among them.
* The camera's SDK headers (`hikSDK/include`, twice, the largest files of the
  tree) and the rest of the vendored code: not this project's.
* HikCamera's constructor, `parametersCallback` and destructor: calls into that SDK,
  with no state of the node's own to relate them to. The previous generation's
  camera node has a state machine of its own around the same SDK; it is
  listed under the previous generation and not modelled.
* The command-line tools of `old/` (end-to-end harness, benchmarks, replay,
  release audit): sequential programs that read files and print a report, with no
  state that outlives a call.
* The previous generation's serial receiver: the question it raises is the one
  `frame_parser` answers for the present one.
* `SerialDevice::ReadUntil2`, which nobody calls; `rx_loop`'s diagnostics, tests,
  launch files, messages, documents, logs and data.

By lines this is most of the repository: what keeps state between two calls and
reacts to something that comes in its own time is a small part of it, and that
part is what the models cover.
