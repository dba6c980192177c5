# TLA+ models of the Theia-Pix flight stack

A verification project for the PX4-derived firmware of this repository: TLA+
modules translated from its C and C++ sources, TLC configurations that check
them on small instances, and TLAPS proofs. Paths below are relative to the
repository; line numbers of every definition are in `PROJECT.json` ("map").

Contents: 1 the system · 2 the modules · 3 how they correspond to the code ·
4 the runs and their bounds · 5 fairness · 6 what is proved · 7 disagreements
found · 8 limits of the models · 9 plan

## 1. The system

The firmware is a set of tasks (NuttX) or threads (POSIX builds) that exchange
messages over the uORB bus and share a few services: the data manager, the
parameter store, the loggers. The parts with control logic of their own:

| part | state | operations | interacts with | what is hard | correct when |
|---|---|---|---|---|---|
| data manager, queues (`src/modules/dataman/dataman.c`) | free and work queue, one semaphore per item and one for the worker, two descriptors, exit flag | `dm_read`, `dm_write`, `dm_clear`, `dm_restart`, start, stop | every task that stores missions or fences | callers race each other, the worker, a stop and a second start | a call takes effect once, gets its own answer and returns |
| data manager, file (same file) | one sector per item on the SD card | `_read`, `_write`, `_clear`, `_restart`, opening | power supply, file system | addressing, torn writes, resets | items are apart, data lives as long as its persistence says |
| MAVLink mission protocol (`src/modules/mavlink/mavlink_mission.cpp`) | per link: state, sequence, partner; shared: active storage, count, transfer flag | a handler per message, `send()` with its timeouts, `check_active_mission` | ground stations, data manager, navigator (topics `offboard_mission`, `mission_result`) | lost, repeated, late messages; two threads per link; several links; power loss | the mission on the card is whole and the one in memory, one upload at a time |
| navigator, offboard mission (`src/modules/navigator/mission.cpp`, `navigator_mode.cpp`, loop of `navigator_main.cpp`) | copy of the mission, index, takeoff flags; DO_JUMP counts on the card; `mission_result` | `on_inactive`, `on_activation`, `on_active`, advance, read item, save state | data manager, mission protocol, commander (nav state) | changes of the mission at any time, counts that survive resets, cyclic jumps, two writers of one record | it flies items of its mission in order, makes each jump as asked, takes over changes, comes to an end |
| navigator, other modes (`rtl.cpp`, `rcloss.cpp`, `datalinkloss.cpp`, `gpsfailure.cpp`, `takeoff.cpp`, `loiter.cpp`) | one small state machine per mode | activation, advance | commander (`stay_in_failsafe`, `flight_termination`) | state kept over a change of mode | a failsafe never goes back a stage, termination is reached |
| commander, state machines (`src/modules/commander/state_machine_helper.cpp`) | `arming_state`, `armed`, main, HIL and navigation state | five transition functions | called by both threads of the commander | tables with exceptions, order of checks | `armed` agrees with `arming_state`; the navigation state has what it needs |
| commander, main loop and low-priority thread (`commander.cpp`) | `status`, `armed`, `safety`, flags | commands, RC switches, failsafes, calibration | all | two threads on one record | no arming during calibration, failsafes take effect |
| uORB (`src/modules/uORB/uORBDevices_nuttx.cpp`, `src/drivers/device/cdev.cpp`) | per node: data, generation, advertisers; per subscriber: generation, interval timer; waiters | open, read, write, ioctl, poll | all | interrupts and tasks, semaphore as condition | no update is lost, a poller is woken |
| MAVLink message buffer, sdlog2 log buffer (`mavlink_main.cpp`, `src/modules/sdlog2/logbuffer.c`, `sdlog2.c`) | byte ring, read and write index | write, get, mark read | receivers of other links; logger and writer | messages that wrap, lock given up while reading | what comes out is what went in, in order |
| MAVLink file transfer (`mavlink_ftp.cpp`) | one session: descriptor, burst flag | one handler per opcode, `send()` | ground station, file system | burst in one thread, session in another | answers belong to the session's file |
| parameter store (`src/modules/systemlib/param/param.c`) | array of changed values, file | get, set, save, load | all | lock commented out, file overwritten in place | a saved set is found again |
| PX4IO firmware (`src/modules/px4iofirmware`) and its driver (`src/drivers/px4io/px4io.cpp`) | status and setup flags, mixers, source of the outputs; the driver's copy of the status | mixing, RC input, safety button, register writes; sending controls, orders, mixers, ioctls | FMU over a serial link; commander (`actuator_armed`), tools | timer and serial interrupts against the main loop, two threads on one bus, resets of either side | outputs follow the FMU, the pilot or the failsafe; a termination stays; the safety switch works |

The remaining components (estimators and controllers, drivers, land detector,
VTOL, launch detection, OS layers, streams) are listed in `PROJECT.json` with the
reason why they are not modelled: mostly floating point, hardware I/O or
conversion of messages. `PROJECT.json` also lists, line by line, the hazards of
the code, with the properties that cover them or the reason why none does yet.

How the modelled components interact:

    ground stations --MAVLink--> mission protocol --dm_write--> data manager --> SD card
          |                          |   ^                          ^
          |         offboard_mission |   | mission_result           | dm_read, dm_write
          |                          v   |                          |
          |                        navigator (mission.cpp, failsafe modes)
          |                          ^   |
          |          vehicle_status  |   | mission_result: finished, stay_in_failsafe,
          |                          |   v                 flight_termination
          +---vehicle_command--->  commander <--- RC switches, land detector, safety switch
                                     |
                                     +--> actuator_armed, vehicle_control_mode
                                               |
                        tools --ioctl-->  px4io driver --registers--> PX4IO: mixer, outputs
                                                                        ^   ^
                                                          RC receivers -+   +- safety button

Every arrow between tasks is a uORB topic: a register with one newest message, a
reader that is told that there is something newer, and no waiting of one task for
another. Calls of the data manager are the exception, they sleep. The two threads of the
commander share its records without a lock.

## 2. The modules

| module | what it is |
|---|---|
| `DatamanFile` | the file: sectors, and per handler the set of its outcomes |
| `Dataman` | callers, queues, worker tasks, start, stop, power loss (EXTENDS `DatamanFile`); the refinement mapping to `DatamanAtomic` |
| `DatamanAtomic` | abstract: an atomic store indexed by (item, index) |
| `MCDataman` | small instances |
| `DatamanProofs` | theorems about types, work items, wakeups, waiting calls, addresses, persistence and the refinement |
| `MissionManager` | the mission protocol of several links, the two storages and the record; the refinement mapping to `MissionStore` |
| `MissionStore` | abstract: a store of whole missions, each upload installed at most once |
| `MCMissionManager` | small instances |
| `MissionManagerProofs` | theorems about types, the exclusion of uploads, what is requested and, with one link, what is on the card, up to `MissionStore` |
| `MissionLinksProofs` | the same for any number of links on NuttX |
| `OffboardMission` | the navigator flying an offboard mission, with the uploads, the mode changes and the power losses around it |
| `MCOffboardMission` | the missions of the small instance |
| `OffboardProofs` | theorems about types, the index of the mission, DO_JUMPs and items left |
| `VehicleState` | the transition functions of `state_machine_helper.cpp`, as operators on the records `vehicle_status` and `actuator_armed` |
| `Commander` | the main loop in its order and the low-priority thread, on those records (EXTENDS `VehicleState`) |
| `MCCommander` | the commands and switches of the small instances |
| `CommanderProofs` | theorems about types, arming, HIL, home position and termination |
| `FailsafeModes` | the navigator's loop and its modes apart from the mission |
| `Failsafe` | `Commander` and `FailsafeModes` composed over their topics |
| `MCFailsafe` | the commands of the small instance |
| `FailsafeProofs` | that the composition is a behaviour of `Commander`, and what follows |
| `TopicNode` | the device nodes of one uORB topic: advertisers, subscribers, `px4_poll`, the timer thread |
| `MCTopicNode` | the descriptors of the small instance |
| `TopicProofs` | theorems about updates, sleepers, waiters and instances |
| `IoFirmware` | the PX4IO coprocessor: main loop, safety button, register writes |
| `IoDriver` | the driver of the FMU and the faults of both sides (EXTENDS `IoFirmware`) |
| `MCIo` | the orders and ioctls of the small instance |
| `IoProofs` | theorems about types, termination and the mixer |

Each component is modelled against an interface to the next: `MissionManager`
and `OffboardMission` use the data manager as `DatamanAtomic` describes it (a
call takes effect at one instant or fails), which `Dataman_calls` checks for
the running data manager and `DatamanProofs!IsAtomicStore` proves. `OffboardMission` contains a short form of the mission
protocol: whole uploads, then record, then topic, in the order `MissionManager`
has them. `Commander` leaves the results of the navigator to its environment, which
publishes anything; `Failsafe` puts the navigator in that place, and
`FailsafeIsCommander` proves that it is one of the environments `Commander` allows, so that the
theorems of `CommanderProofs` hold for both together. `TopicNode` justifies what all of them
assume of a topic with one advertiser: who polls gets to the newest message and
misses none without being told.

Properties are at the end of each module, each with a comment that says what it
promises. Definitions whose comment begins with "Mutant of" are not part of the
models: each is a plausible mistake in the definition that follows it, and shows
that the property named in `PROJECT.json` ("mutants") would notice it.

## 3. How state and actions correspond to the code

### Data manager

Variables have the names of the globals of `dataman.c`. `file.sec` has a sector per
item instance at `KeyOffset[item] + index` (`g_key_offsets`, `calculate_offset`); a
sector holds length, persistence and value, and for the properties the number
of the start under which it was written. `pc` and `wpc` are the places of callers
and worker tasks; every critical section under a queue mutex is one step, and so
is every semaphore operation. What the worker does without the mutex when it leaves is cut finer. Queues are sequences, in
the order of the lists; chunks are freed and their memory obtained again. `raced` is a history variable: a worker has left
beside a call or beside another worker, whose items it may have freed.

| action | code |
|---|---|
| `dm_call` | admission test of `dm_read/write/clear/restart` |
| `reuse_work_item`, `no_free_item`, `malloc_work_items`, `malloc_fails` | `create_work_item`: remove from the free queue, or malloc a chunk outside the lock |
| `enqueue_work_item`, `post_work_queued`, `take_result` | `enqueue_work_item_and_wait_for_result` |
| `destroy_work_item` | the same |
| `init_queues` … `publish_fd` | `task_main` up to the loop: file opened, checked, seeked, restart by `SYS_RESTART_TYPE`, `g_fd` set |
| `check_exit`, `skip_sleep`, `enter_sleep`, `wake_up`, `dequeue_work_item`, `execute`, `drained` | the loop |
| `close_file`, `read_free_head`, `unlink_free_head`, `destroy_queues` | its end: the free queue is given back item by item without its lock (`sq_remfirst` is a read of the head and a write of it), a chunk is freed when its first item turns up, then the queues are destroyed |
| `start`, `stop` | shell commands; a start waits on `g_init_sema` |
| `PowerLoss` | everything but the file is reset; a write or a clear being executed may be done in part |

### Mission protocol

`dataman_id`, `count`, `current_seq` and `in_progress` are the static members,
`link[l]` the members of link *l*'s manager, `saved` the record
`DM_KEY_MISSION_STATE`, `store` the two storages (an item is named by the upload
that wrote it, which is what tells whole missions from mixed ones). Every handler
up to its `dm_write` is one action; what it does after the sleep is another
(`call[l]` says in what it sleeps). `Preemptive` says whether receivers may also
preempt each other between the test of `_transfer_in_progress` and its setting
(POSIX), or are woken in the order their writes were queued (NuttX with equal
priorities). `send()` runs in another thread: its tests of state and time
and what it does then are two steps, for the action timeout (`timeout_found`, `action_timeout`) as for the retries (`retry_found`,
`resend_found`, `retry`), and what it asks for again is read in the last; `due[l]` is its place. Messages are arbitrary: any station may
send any message with any sequence number at any time, which covers loss,
duplication, delay and reordering. Time is not modelled; a timeout may come at any
time the state allows.

### Navigator

`m` holds the members of `Mission`, `at` the place in the code between two
calls to the data manager (`idle` is the top of the loop, `publish` its end).
`run` is `NavigatorMode::run` up to the first read or copy; `update_offboard_mission`,
`read_mission_state` and `write_mission_state` (`save_offboard_mission_state`),
`read_jump`, `pass_jump`, `count_jump`, `follow_jump`, `read_stop`,
`next_item_read` and `read_fails` (`read_mission_item` and `set_mission_items`, for
the current item when `at.cur` and for the look-ahead when not),
`mission_item_reached` and `not_reached` (`on_active`), `publish_mission_result` (end
of the loop). Whether a mission is feasible, whether the vehicle is too low and needs
a takeoff, and when an item is reached are choices. `taken`, `crossed` and `free` are history
variables for the properties: jumps made since an upload, items that an upload went over while a jump was counted
there, and whether the item flown may be left.

### Commander

`status` and `armed` are the two records both threads write, `loop` the place of the
main loop and its local variables, `lp` those of the low-priority thread, `published` what
the loop published last. `status.conditions` is the set of the Boolean members of
`vehicle_status` that hold; what the code makes of several members (the safety switch,
power, USB) is a condition too. A *reading* sets some conditions to anything the
bound `Sensed` allows. The loop is cut where it calls the state machines, and the other
thread may run between any two of the pieces.

| action | code |
|---|---|
| `arming_state_transition`, `main_state_transition`, `hil_state_transition`, `set_nav_state` | the functions of `state_machine_helper.cpp`; `From(new)` is a row of `arming_transitions` |
| `SenseInputs`, `UsbDisconnected` | offboard signal, power, safety switch (disarming), positions |
| `LandDetector` | landed, disarming after landing |
| `Battery`, `ProceedToStandby` | critical battery; INIT to STANDBY |
| `MissionAndFence` | GPS, `mission_result`, `geofence_result` and its reversal by the sticks |
| `RcInput`, `RcSilent` | stick gestures, `set_main_state_rc` with its fallbacks; loss of RC |
| `LinksAndEngine` | telemetry links, engine |
| `HandleCommand` | `handle_command`, one action per command |
| `Finish` | termination on two losses, home position, `set_nav_state`, publication, `set_control_mode` |
| `LpIgnores`, `Reboot`, `Calibrate`, `Calibration` | `commander_low_prio_loop` |

### Failsafe modes

`nav` holds for each mode its stage (`_rtl_state`, `_dll_state`, `_rcl_state`, `_gpsf_state`,
`_ef_state`), `_can_loiter_at_sp`, the copy of `vehicle_status` and the mission result. `Poll` is
the top of the loop of `navigator_main.cpp`, reached only when a global position was published (a timeout of the poll
does nothing); `Run(reached)` calls `run` of every mode: the
active one by `OnActivation` or `OnActive`, the others by `on_inactive` (`Kept`), in the
order of `_navigation_mode_array`, since each looks at whether the vehicle can loiter and some
change it. `reached` stands for the waypoint reached or the time over.

### uORB

`node[n]` is a `DeviceNode` (data by number, `_generation`, `_published`, `_publisher`, `_pollset`),
`adv[a]` an advertising thread, `sd[f]` the `SubscriberData` of a descriptor, `sub[s]` the
`px4_poll` of a subscribing thread with its semaphore, `hrt` the node the timer thread is about
to notify. What runs under the lock of the node is one step. `write` is `Allocate`, `CopyIn`, `Load`,
`Store` (the two halves of `_generation++`), `Notify` and `Flag` (`_published = true`).
`OpenAdvertiser` … `CloseAdvertiser` are `node_open` and `node_advertise`; `Setup`, `WakeUp`, `Timeout` and
`Teardown` are `px4_poll` with `VDev::poll`; `Expire` and `UpdateDeferred` are the timer.

### PX4IO

`flags` is `r_status_flags` and `arming` is `r_setup_arming`, as sets of the bits that decide something.
The main loop is cut where it calls a function, reads a volatile register or may be caught
between a read and the write that follows: `pc` is its place, `reg` and `areg` what it has read. Since
`r_status_flags` is not volatile, a read between two calls may see the variable or the copy (`Seen`).
Interrupts have one priority and do not nest, so each is one step.

| action | code |
|---|---|
| `Tick`, `Decide` | `mixer_tick`: is the FMU there, which controls, what to arm |
| `Terminate`, `ForceFailsafe` | the termination failsafe and the forced one |
| `Mix`, `Mixed` | copy of the failsafe values, or `mixer_group.mix` under `in_mixer` |
| `Enable`, `Report`, `Output` | `up_pwm_servo_arm`, the flag for it, `up_pwm_servo_set` |
| `Gather`, `Override` | `controls_tick`, with the nested `mixer_tick` of a new frame |
| `SafetyButton` | `safety_check_button` after a second of pressing |
| `SetControls` … `SetArming` | a page or register of `registers_set` |
| `SendControls`, `GetStatus`, `Sync`, `SetArmingState` | the loop of `PX4IO::task_main` |
| `MixerSend`, `Ioctl`, `Modify` | `mixer_send`, `ioctl` and `write` in the thread of a tool |
| `Stale` (`Gap`, `Silence`), `IoReset`, `FmuDies` | 500 ms without data, a reset of the coprocessor, the end of the FMU |

`servos`, `failsafe`, `out` and `group` say where values come from and not what they are. A transfer is one
step, since a semaphore guards the bus; `io_reg_modify` is two.

## 4. The runs and their bounds

States are distinct states; times are for two workers.

| run | question | bounds | result |
|---|---|---|---|
| `Dataman_calls` | Is the running data manager an atomic store for its callers, does every call return, and is everything served that a stop finds on the queue? | 2 callers, requests to the last valid index, one past it and to the next key; one chunk of 2 items; one stop | passes, 136 000 states, 40 s |
| `Dataman_overlap` | Are wakeups kept when a stop is followed by a start whose task overlaps the first, also with failing I/O, and items exclusive until a worker leaves beside a call? | 2 callers, 2 starts, 1 stop, I/O errors, every step of the exit | passes, 2.6 million states, 40 s |
| `Dataman_reset` | Does data live as long as its persistence says? | 1 caller, three persistence levels, 2 starts for any reason, 1 stop, 1 power loss at any step | passes, 1.6 million states, 25 s |
| `Mission_link` | One link: is the mission on the card whole and the one in memory, are items requested in turn and in range? | every message, 2 stations, missions of up to 2 items (3 announced: refused), 2 uploads, failing and torn writes, timeouts and retries cut where the receiver may come between, 1 power loss | passes, 2.4 million states, 65 s |
| `Mission_links` | Two links: one upload at a time, never into the storage in use, and a refinement of `MissionStore`? | uploads, clears, SET_CURRENT in turn (`SpecOrderly`) and timeouts on two links, failing writes, 2 uploads, 1 power loss | passes, 3.1 million states, 2 min 30 s |
| `Offboard_fly` | Does the navigator fly its mission in order, count jumps, take over changes, and end? | missions of 3 items (two jumps and a landing), on the card none or one with a loop, 2 events out of publications, I/O errors and power losses, 3 tries instead of 10 | passes, 1.3 million states, 3 min 10 s |
| `Commander_arming` | Do arming state and actuators agree, and is HIL locked down, whichever thread moves what? | 2 commands out of 12 (arming, HIL, calibrations, reboot), safety switch and landing at any time, good and bad preflight checks, stick gestures | passes, 3.1 million states, 80 s |
| `Commander_modes` | Is a mode that needs a home position never entered without one, is INIT left, are two losses always a termination? | 1 command out of 5, position, GPS and USB at any time, mode switch, geofence with action RTL | passes, 1.1 million states, 2 min 30 s |
| `Commander_safety` | Does the safety switch disarm? | as `Commander_arming` | violated, see 7 |
| `Failsafe_ends` | Do losses of data link, RC and GPS end the flight, and is a failsafe not taken back? | 1 command, data link, GPS and position at any time, RC lost from the start, 1 loss counted, all stages | passes, 902 000 states, 2 min 30 s |
| `Topic_poll` | Is no update lost, does nobody sleep on one, does an instance stay with its advertiser? | 2 advertisers (one asks for an instance of its own), 1 subscriber with 2 descriptors and intervals, 2 messages, 2 instances, a table of 1 waiter | passes, 424 000 states, 45 s |
| `Io_ends` | Does a lost FMU end in failsafe values, does the safety switch stop the outputs, do orders arrive, does a termination stay, and do its outputs end in failsafe values? | 1 event out of 8 calls of tools, a reset of the coprocessor and a gap of 500 ms; button, end of the FMU, good or lost RC at any time; with and without termination asked for | passes, 832 000 states, 2 min 20 s |

Why these bounds are enough to see the interesting cases:

* *Data manager.* Two callers race each other and the worker for the two items of
  one chunk, and a second malloc fails. A post at
  `MaxPosts` (the semaphore's maximum) is lost, in the code as in the model; the bound is
  low on purpose, and the worker still finds every item because it empties the queue
  at each wakeup. Two starts and one stop are the least at which tasks overlap. Keys of 2 and
  1 instances have a last index whose successor is the first item of the next key.
  `SeekExtends` is TRUE in all runs (the NuttX FAT file system); with FALSE (POSIX)
  a file whose last record is short is deleted at the next start, see 8.
* *Mission protocol.* Two items tell the first, a middle and the last item apart.
  Two uploads are an old and a new mission, and on two links a contention. One
  station per link is enough there because the protocol compares partners per link.
* *Navigator.* Three items hold a loop with its exit; `MaxTries` 3 for the 10 of
  the code still lets a jump that leads to itself exhaust the tries and a loop
  with a count of 1 not. Two events are an upload and then one of: another
  upload, a clear, a new current item, a failed call, a power loss; with a mission on the card from the start, two
  uploads are enough for one to go over the mission that is flown, also while a jump of it is counted. `RotaryWing`
  is TRUE, which includes the takeoff.

* *Commander.* Every section of the loop is there in every run, and the bounds choose
  what may change while it runs. Two commands put one thread into a calibration while the other
  arms; a third adds nothing, because each thread takes one at a time. The conditions of
  `Commander_arming` are those the arming transition looks at, those of `Commander_modes` the
  ones the modes look at; power and battery are constant and good in both, which leaves out
  only refusals. Rotary wing, because it has one more condition (altitude control).
* *Failsafe.* One command (arm in a mission, in manual flight, in return to launch, or a reboot)
  and then losses at any time, also lost and found again between any two steps of the two
  tasks. The position may go too, and with
it what wakes the navigator. `LossLimit` 0 with 1 loss counted reaches both branches of `advance_dll`.
* *uORB.* Two advertisers of one topic with two instances race for each; a table of one
  waiter is full as soon as the subscriber has registered twice on one instance. `Closes`
  lets descriptors be closed and opened again between messages.
* *PX4IO.* The main loop runs around once or twice until nothing new happens, and every step of the
  others may fall between any two of its steps: one event, with the safety button, RC and the death of the
  FMU that need none, is enough for a race of all three sides. The commander wants the vehicle armed
  throughout (`MCArmed`); what an ioctl takes away is the forced failsafe. The pilot has no override switch
  (`Switches`): the immediate override of a lost FMU needs none.

Deadlock is checked except where a model may stop: after the last start of the
data manager, and when every message of `TopicNode` is published and read.

## 5. Fairness

`Dataman!Fairness` is weak fairness of every step of a caller inside a call and of
every step of a worker task: both NuttX and POSIX eventually run a task that is
not asleep. Nothing makes a caller call, the shell start or stop the worker, or the
power fail.

`OffboardMission!FairSpec` has weak fairness of the navigator task (its loop is woken
by every position update; that positions keep coming is assumed) and strong fairness of `mission_item_reached`: a vehicle
that is again and again asked whether it has reached its item does so in the end.
The second is an assumption about the vehicle and not about the code;
`MissionEnds` is meant under it, and `PickedUp` needs only the first.

`MissionManager` states no liveness: a station may stop at any time. `SpecOrderly` restricts the stations: a
link is told to set the current item only when memory has taken every mission that was saved (`Settled`), that is, not
while another link is in the middle of installing one. One link needs no such restriction, and
neither do the exclusion of uploads, what is requested, and that card and memory agree.

`Commander!FairSpec`: weak fairness of the main loop, which sleeps 10 ms a cycle and waits for
nothing, and of the low-priority thread, whose calibrations return.
`Failsafe!LiveSpec`: weak fairness of the main loop, and strong
fairness of `Run(TRUE)`: who is asked again and again whether the waypoint is reached or the
loiter time over answers yes in the end. The first is about the vehicle, the second about time. An iteration of the navigator
starts only when a global position is published, and a poll that times out does nothing (`navigator_main.cpp:322`), so
`Poll` is weakly fair only together with `global_position`: the commander holds that flag only while positions keep coming
(`commander.cpp:1714`). Nothing is assumed about publications in a GPS failure: `GpsLossTerminates` says what
follows as long as the estimator still finds a position, and the other two need one because they fly somewhere.
`TopicNode!FairSpec`: a thread that has begun to write or to poll goes on; the timer thread
runs; who was told of an update copies it; and strong fairness of `Poll`: the subscriber
polls again and again. No advertiser has to publish.
`IoDriver!Fairness`: weak fairness of the main loop, which never sleeps; of the passing of 500 ms
once the FMU is dead; of a tool inside a call, and of the driver's task inside a transfer. Strong
fairness of an idle task taking up orders: the commander publishes `actuator_armed` at 5 Hz and
more, and the task, with the highest priority for outputs, looks for it every 200 ms between its other
work. Nothing makes a tool call, the button be pressed, or the RC arrive.

## 6. What is proved

TLAPS proves, for any number of callers, items, links, stations, uploads, starts
and power losses, any missions, any commands, switches and readings, and any number of advertisers,
subscribers, instances, waiters and messages, any orders, ioctls, inputs, resets and gaps of PX4IO:

| theorem | statement | argument |
|---|---|---|
| `DatamanProofs!TypeCorrect` | `Spec => []TypeOK` | `TypeOK` is inductive (`TypeInit`, `TypeStep`, one step per action) |
| `DatamanProofs!ItemsAreExclusive` | `Spec => []ItemsExclusive` | until a worker leaves beside a call: part of the inductive invariant `PartsWhileCalm` |
| `DatamanProofs!PendingItemsAreOwned` | `Spec => []PendingItemsHaveCallers` | the same |
| `DatamanProofs!NobodySleepsBesideWork` | `Spec => []NoLostWakeup` | inductive invariant `QueueIsServed`, with `Started` |
| `DatamanProofs!NoCallIsForgotten` | until the first stop `Spec =>` the item of every waiting caller is queued, in hand or answered, and the worker of the last start is in its loop | `Running` and `AllServed` are inductive |
| `DatamanProofs!ItemsApart` | `calculate_offset` gives two items or indices two sectors of the file | `KeyOffset` by induction over sets of keys |
| `DatamanProofs!PowerOnDataStays` | `SeekExtends` implies `Spec => PowerOnDataSurvives` | `Whole` is inductive; every step only touches sectors of the request it executes (`FileStep`) |
| `DatamanProofs!ResetsAreKept` | without I/O errors `Spec => []NothingOutlivesItsReset` | `Restarted` is inductive |
| `DatamanProofs!IsAtomicStore` | with one start and no power loss `Spec => ImplementsAtomicStore` | every step is a call, an effect, a return or a stutter (`AtomicStep`), until the worker leaves beside a call |
| `MissionManagerProofs!TypeCorrect` | `Spec => []TypeOK` | inductive; lemmas per handler family |
| `MissionManagerProofs!OneUploadAtATime` | `~Preemptive` implies `Spec => []OneTransfer` | inductive invariant `IInv` |
| `MissionManagerProofs!RequestsAnnounced` | `Spec => RequestsInRange` | `Waits` and `NotBeyond` are inductive, and every step from them is `InTurn` |
| `MissionManagerProofs!CardComplete`, `CardMatchesMemory`, `UploadsElsewhere` | `OneLink` implies `Spec => []ActiveComplete`, `[]PersistedMatchesActive`, `[]InactiveStorage` | parts of the inductive invariant `CardInv` |
| `MissionManagerProofs!OneLinkStores` | `OneLink` and no torn write imply `Spec => ImplementsMissionStore` | `Facts` from `CardInv`; every step is an upload, an installation, a clear or a stutter (`StoreStep`) |
| `MissionLinksProofs!NewestIsFlown` | `~Preemptive` implies `Spec => []PersistedMatchesActive` | inductive with `InOrder /\ NewestWins` |
| `MissionLinksProofs!LinksComplete`, `LinksElsewhere` | `~Preemptive` implies `SpecOrderly => []ActiveComplete`, `[]InactiveStorage` | parts of the inductive invariant `LinkInv` |
| `MissionLinksProofs!LinksStore` | the same and no torn write imply `SpecOrderly => ImplementsMissionStore` | `Facts` from `LinkInv`, then `StoreStep` |
| `OffboardProofs!TypeCorrect` | `Spec => []TypeOK` | `TypeOK /\ Placed` is inductive |
| `OffboardProofs!FlownIsInMission` | `Spec =>` the item flown is the one at the index, and in the mission | part `Flown` of `Placed` |
| `OffboardProofs!JumpsStayWithin` | `Spec =>` no DO_JUMP on the card is counted beyond its repetitions | `AllWithin` is inductive |
| `OffboardProofs!FlownIsCurrent`, `JumpsAreCounted` | `Spec => []FlownItem`, `[]JumpsCounted` | parts of the inductive invariant `Steady` |
| `OffboardProofs!NothingIsSkipped` | `Spec => NoItemSkipped` | `Steady`, part `Held` |
| `CommanderProofs!CommanderTypes` | `Spec => []TypeOK` | `IInv == Good(status, armed) /\ Rest` is inductive |
| `CommanderProofs!ArmingStateAgrees` | `Spec => []ArmedAgrees` | part of `Good` |
| `CommanderProofs!HilIsLockedDown` | `Spec => []HilLocked` | part of `Good` |
| `CommanderProofs!AutoStatesHaveHome` | `Spec => []AutoHasHome` | part of `Good` |
| `CommanderProofs!TerminationIsPublished` | `Spec => TerminationPublished` | the step `Finish`, with the types of `IInv` |
| `FailsafeProofs!FailsafeIsCommander` | `FailsafeSpec => Spec` | every step of the navigator is `NavigatorPublishes` or a stutter |
| `FailsafeProofs!FailsafeArmingAgrees`, `FailsafeTerminates` | the same two properties for the composition | from the refinement |
| `TopicProofs!TopicTypes` | `Spec => []TypeOK` | `IInv` is inductive |
| `TopicProofs!NothingIsMissed` | `Spec => []NothingMissed` | part `Counted` |
| `TopicProofs!SleepersAreAlwaysTold` | `Spec => []SleepersAreTold` | parts `Listing` and `Heard` |
| `TopicProofs!WaitersAreLive` | `Spec => []NoStaleWaiters` | part `Listing` |
| `TopicProofs!InstancesAreKept` | `Spec => KeepsItsInstance` | part `Claimed` |
| `IoProofs!TypeCorrect` | `Spec => []TypeOK` | `Inv` is inductive |
| `IoProofs!TerminationHolds` | `Spec => TerminationStays` | `Kept` in each write, part `Looping` for what the main loop has read |
| `IoProofs!MixersHoldStill` | `Spec =>` no step but the reset changes the mixers from the step that begins to mix to the one that ends it | part `Looping`: `in_mixer` is up exactly at that place of the main loop |

`ItemsExclusive` is not inductive as it stands: a step could take an item that is free twice, or enqueue one that is
already queued. `Parts` adds that free items are of chunks that are allocated (`Allocated`) and free once
(`FreeDistinct`), that an item about to be queued has a semaphore of 0 (`EnqueueFresh`), that the queue
has no duplicates and nothing a worker executes (`QueueDistinct`), that what is queued or executed is waited for
(`QueuePending`, `CurPending`), and that a worker that gives items back has nobody beside it (`NobodyBeside`). The code does
not see to the last: a worker closes the file and frees chunks whoever is still inside a call, and after that an item may be of freed memory, or of
two calls. So `raced` remembers that a worker has left beside a call or another worker, and what is inductive is
`PartsWhileCalm == ~raced => Parts`. A worker that is alone gives the items back in as many steps as the code has; an
`init_queues` after it finds nobody. The proof has a lemma per kind of step, and says for every action which of the variables in
`Parts` it leaves alone.

*Wakeups.* A worker sleeps beside a queue only while a post is pending or about to be made. `QueueIsServed`
follows an item from `enqueue` to `post` and says which task owes it a look: the caller that has yet to post,
the semaphore, or a worker that has yet to empty the queue; `Started` says that tasks of starts not made do not run.
`NoCallIsForgotten` is the safety half of `EveryCallReturns`, for any number of power losses and failed starts. `Running`
says that, while no stop was asked for, a caller is only admitted by a task that is in its loop and stays there, so that
no `init_queues` can follow; `AllServed` follows the item from the queue to a worker and to its semaphore. After a stop it is
false: the next start empties the queue of what was put there late, and that caller sleeps on (section 8).

*The file.* `ItemsApart` needs that `KeyOffset` sums the instances of the keys before; the library's induction
theorems are out of the prover's reach, so `SetInduction` takes a minimal counterexample with the
well-foundedness of the naturals. `HandlersTouch` and `InterruptedTouches` bound what a
handler, whole or cut off by a power loss, may change; `FileStep` lifts that to every step, and `Whole` says that with
`SeekExtends` no start finds a file too short, which is the one case where it is deleted. For resets
`Cleansed` describes a file nothing of which should have been cleared by the last start, and `Restarted`
says from which place in `task_main` on the file is cleansed; an I/O error in `_restart` is
ignored by the code, hence the assumption.

*The atomic store.* The effect of a call is in `execute`. `InCall` relates the place of a caller to the
state its call has in `DatamanAtomic`, and what the worker found to the answer; `OneRun` says that with a single start there
is one worker and the descriptors are its. The lemmas `ReadOutcomes` … `PromisedOutcomes` translate the outcomes
of a handler on sectors into outcomes on (item, index), for which sectors must be apart. I/O errors are
included; a second start and a power loss are not, because a call then need not return. `InCall` holds until `raced` (`InCallWhileCalm`),
and so does the refinement: its steps are those of `DatamanAtomic` until the worker leaves beside a call.

*The navigator.* `Placed` says what holds at each place of the task whatever the mission protocol does:
the set point was made from the item at the index unless the search for another has begun (`Flown`), a
DO_JUMP being made is in the mission (`Jumping`), what is taken over can be read (`Known`), and
where a save and a search return to (`Returning`, `Active`, `OnTheWay`), without which an index past the end
could be saved or counted further. The items themselves are not safe: on activation the
navigator searches the mission it has although another was published, and the upload after that one goes to the storage it
reads. What then still holds is what the properties say, and no assumption about the stations is made. `Steady` is
inductive: nothing is known of the card before the first iteration (`Fresh`); the mission flown is that of the mission manager's memory
unless there is one to take over (`Behind`), so that an upload goes elsewhere; the item at the index is of the kind it was, unless
there is one to take over (`Flies`); an item neither reached nor replaced (`free`) is at the index and the search for the next begins
with it and all its tries (`Held`); a DO_JUMP on its way is what the card has, unless it was uploaded over (`crossed`, `Counting`), which
is the strengthening `JumpsCounted` needs. TLC checked `Placed` and `Steady` with the constants of `Offboard_fly` before the
proof. The proofs allow DO_JUMPs that lead before the first or past the last item; the missions of the run have none.

`OneTransfer` needs that a link is *busy* not only while it uploads but also while
it writes an item or the record: the upload's flag must hold then too
(`BusyHolds`), no two links are busy (`OneBusy`), a link that saves the record is no
longer uploading (`SavingIsIdle`), and nobody is between test and set of the flag
(`OnNuttX`). The last is where the assumption `~Preemptive` enters: on POSIX two
receivers may both pass the test, and with `Preemptive` TRUE in `Mission_links` TLC
shows two uploads at once.

*The card.* With one link (`OneLink`, on NuttX and on POSIX) `CardInv` is `Waits /\ Filled /\ Saving /\ Intact /\
MemoryWhole /\ ActiveComplete`: an upload waits for an item it has announced (`Waits`), those before it are on the card, of this
upload, where the active mission is not (`Filled`); what is being saved is whole, and the record is that mission if its write
succeeded and otherwise the one in memory, or destroyed (`Saving`). `Intact` says that without torn writes only the first record
is unreadable. With several links a record may be written while another link
sleeps in the write of its own, so memory lags behind the record, and may for a moment be of a mission that the record never
comes back to. What saves it is the order: `InOrder` says that the sleepers stand in `returns` once each, and
`NewestWins` that the record is of the link woken last of those whose mission was written. So the last to write is the last
to take its mission into memory, and when nobody sleeps both agree, whatever stations send. `LinkInv` (`Origins`, `Apart`,
`ActiveComplete`, `MemoryWhole`, `Brought`) then says that what is flown, recorded or about to be taken is whole, and that the
storage being filled is neither that of memory nor that of the record, unless those are empty; `WhereNext` tells the latter from
the order. SET_CURRENT copies the mission it read before it sleeps. If another link has saved one by then, the old mission comes back
although its storage is the next to be filled (section 8): that is what `SpecOrderly` leaves out (`Settled`). Behind a SET_CURRENT that was received in turn the others may go on as they like: another link may save its mission
while it sleeps, and `CurrentLast` says that no mission memory has yet to take was saved before it. "torn" is excluded
from the refinement only: a record that one write destroyed may be
restored by SET_CURRENT from memory, which is no step of `MissionStore`; `Readable` says that otherwise only the first record is unreadable.

*Requests.* `send()` tests `_state` and the time, and reads `_transfer_seq` when it builds the request; the receiver may have taken the last
item and gone to IDLE between the two (`mavlink_mission.cpp:344`). So a retry may ask for item `count` of a mission of `count` items, after the mission was
accepted. `InTurn` says this and that nothing else can happen: what is asked for is always what the transfer has got
to. `Waits` covers the receiver, `NotBeyond` the retry.

*Commander.* `Good(s, a)` says of a pair of records that they are typed, that `armed` agrees with
`arming_state` except in IN_AIR_RESTORE (`Agrees`), that an armed vehicle is locked down
exactly in HIL (`Locked`), and that a main state that needs a home position has one (`HasHome`).
Because the pieces of the loop apply several functions one after the other, there is one
lemma per function (`GoodSense`, `GoodArming`, `GoodMain`, `GoodHil`, `GoodNav`, `GoodRc`) that it takes good
records to good records, and the lemma of an action chains them. `Locked` needs `Agrees`: HIL is
entered by arming state, lockdown is about `armed`. `HasHome` is inductive because `home_position`
is never taken back. `Rest` types the loop, the other thread, commands and topics, and says that a reset
returns to values of `Init`.

*Failsafe.* `NavigatorStep` shows that whatever mode runs, the result it publishes has the type
`Commander` expects from its environment, and that nothing else of the commander changes.
The assumption is that the environment of `Commander` is unrestricted (`Results \subseteq MissionResults`).

*uORB.* `IInv` is `TypeOK /\ Placed /\ Claimed /\ Unwritten /\ Counted /\ Listing /\ Heard`. `Placed` types
places in the code that say which node is meant. `Claimed`: an advertiser holds a node that exists,
and has published when it returns; so the test `!is_published()` cannot give its node
away. `Unwritten`: without data nothing was counted, so a new subscriber's generation 0
is right. `Counted`: with one advertiser `_generation` equals the number of the message, or is one behind
between copy and count; a descriptor's generation is never ahead of what it has seen. That
is the strengthening `NothingMissed` needs: it covers the reader that comes between copy and count. `Listing`: the
table of a node holds exactly the descriptors the running `px4_poll` has set up and not
torn down, in the order of its loop. `Heard` is `SleepersAreTold` from the set up of a descriptor
on, before the thread sleeps.

*PX4IO.* `Inv` is `TypeOK /\ Pending /\ Looping`. `Pending`: what a thread has read and is about to write is made
of bits of that register, so that a value meant for the status never goes to SETUP_ARMING. `Looping`: when the
main loop is about to force the failsafe, the copy it will write back has the termination flag in it; without
that the write could take back the flag together with what an interrupt had forced. Every other
write keeps both flags by `Kept`, and a reset of the coprocessor is the one exception the property names. `Looping` also ties `in_mixer` to
the place where mixers are used, of which `MixersHoldStill` speaks: the two main-loop steps around `mixer_group.mix`.

The assumptions of the proofs are those on the constants (`KeysAssumption`,
`PlatformAssumption`, `QueueAssumption`, `MissionAssumption`, `OffboardAssumption`, `IsRotaryWingAssumption`,
`CommanderAssumption`, `FailsafeAssumption`, `TopicAssumption`, `IoAssumption`,
`DriverAssumption`), which TLC evaluates in every run
of their modules.

The types of every module with theorems are proved; runs repeat that for `OffboardMission` and `TopicNode` only.

Only model-checked: liveness under fairness, which the prover cannot treat (`EveryCallReturns`, `StopDrains`,
`PickedUp`, `MissionEnds`, `InitIsLeft`, `CatchesUp`, `TerminatedFails`, `LostFmuFails`, `StopsOnSafety`, `OrdersArrive`, and all of
`Failsafe_ends`). `NoCallIsForgotten` proves what `EveryCallReturns` needs of the state besides a scheduler.

## 7. Disagreements between the code and what it says of itself

Shown by a run:

* `Commander_safety`: `commander.cpp:1633`, "disarm if safety is now on and still armed". An
  onboard computer puts the arming state to IN_AIR_RESTORE, from where arming needs no
  check; with sensors that are not initialised the switch then asks for STANDBY and is denied,
  and the vehicle stays armed with its switch on.

Seen with TLC in the same models, and no longer run by themselves:

* `mission.h:145`, "Save current offboard mission state to dataman". `save_offboard_mission_state`
  (`mission.cpp:741`) compares the sequence number of the record with the index and then writes the record
  back as it was read; after a reboot the mission starts over.
* `dataman.c:837`, "The work queue is now empty, empty the free queue". A caller that passed
  the admission test before the stop queues its item after the last pass; it sleeps
  for ever and the queues are destroyed. The worker frees each chunk whose first item it finds on the free queue (`dataman.c:843`), without the
  lock and whoever uses its other items; after that, or when two workers give items back at once, two calls may have one item.
  With `ItemsExclusive` claimed without `raced` TLC finds this in `Dataman_overlap`.
* `mavlink_mission.cpp:345`, "try to request item again after timeout". The receiver may take the last item between the test and
  the read of `_transfer_seq`; then the item after the last is requested of a mission that was just accepted.
* `mavlink_mission.h:126`, "Global variable checking for current transmission". The action
  timeout of an upload (`mavlink_mission.cpp:342`) leaves `_transfer_in_progress` set; every
  later MISSION_COUNT is refused on all links until a reboot.
* `mavlink_mission.cpp:623`, "looks like our MISSION_REQUEST was lost, try again". A MISSION_COUNT
  with another count before the first item is taken for a repetition and the old count
  kept: the mission is accepted with a length nobody asked for.
* `mission_result.msg`, "true if mission has been reached". The next item clears the flag
  before the result is published (`mission.cpp:792`); MISSION_ITEM_REACHED is not sent for items with
  autocontinue.
* `mission_result.msg:8`, "true if the commander should not switch out of the failsafe mode". The commander keeps whatever `nav_state` it has
  while the flag is set (`state_machine_helper.cpp:678`, "stay where you are if you should stay in failsafe"):
  a mission taken over by hand and then put back stays in the MANUAL navigation state.
* `uORB.h`, "Any number of advertisers may publish to a topic". `_generation++` runs outside of the lock: two
  advertisers of one instance may count once for two messages, and `orb_check` then
  misses the second. `NothingMissed` is about an advertiser that is alone.

Seen in the code of PX4IO while modelling it; unless it says otherwise the model has them, and the properties
above hold in spite of them:

* `safety.c:130`, "change to disarmed state and notify the FMU", and the FORCE_SAFETY registers. The main loop may
  write back a copy of `r_status_flags` read before, and the press is lost. `StopsOnSafety` is therefore about a
  switch that stays on.
* `px4io.cpp:933`, "lock against the ioctl handler". `ioctl` takes no lock: its `io_reg_modify` of SETUP_ARMING
  interleaves with that of the task, and one order is overwritten by the other's stale value until the next
  publication (`OrdersArrive`).
* `mixer.cpp:433`, "disable mixing, will be enabled once load is complete". The main loop may write MIXER_OK
  back in the same way, and mix with a half loaded mixer.
* `mixer.cpp:511`, "set failsafe defaults to the values for all inputs = 0". The mix is taken with whatever
  `source` the main loop has at the moment of the interrupt (values are not modelled).
* `px4io.cpp:1537`, "check for IO reset - force it back to armed if necessary". SAFETY_OFF and ARM_SYNC are restored, INIT_OK
  and MIXER_OK are not, without which no output is armed; and a status write that contains MIXER_OK sets nothing else
  (`registers.c:474`).
* `px4io.cpp:2104`, "failed, but give it a 2nd shot". When the closing newline was refused 30 times, `mixer_send` goes around again with
  no text left and the action RESET: if that newline is taken, the mixers are deleted and MIXER_OK is set for none.
* `registers.c:628`, "don't allow reboot while armed". The reboot is scheduled for 100 ms later, and the switch may
  have gone off meanwhile (not in the model).

## 8. Limits of the models

Left out, and why:

* *Data manager.* Usage counters and `dm_lock` (a mutex that only the navigator
  takes, so it excludes nobody). Sizes of records: every
  record of the firmware fits a sector. After a worker has left beside a call (`raced`) memory is used that was freed: the model
  lets chunks be obtained again and items be shared, but not the heap be damaged, nor do callers stumble over a destroyed
  mutex, and a list that two threads have torn is again one of two sequences. What is claimed of those states is
  `NoLostWakeup`, `NothingOutlivesItsReset` and `PowerOnDataSurvives`, for as long as the memory is not damaged.
* *Stop and start.* `task_main` of a stopped worker closes `g_task_fd`, which a
  second start may have set meanwhile; the new worker then reads and writes a
  closed descriptor. The model has the step; no promise of the code covers it.
  A caller that was admitted before the stop and queues its item after the last pass over the
  queue is not answered by that worker, and `init_queues` of the next start drops the item: hence
  `stops > 0` in `EveryCallReturns`, and `stops = 0` in `NoCallIsForgotten`.
* *File.* With `SeekExtends` FALSE the size check at a start deletes a file whose
  last record is short; the persistence properties are checked for TRUE only.
* *Mission protocol.* Contents of items, and time. Across two links SET_CURRENT writes back the mission it read before
  another link's write returned, so the old mission comes back, and
  `MissionStore` is not implemented; that card and memory agree is proved with it all the same
  (`NewestIsFlown`). `Mission_links` and the theorems about the card for several links therefore let it come in turn only (`SpecOrderly`); on a
  single link it comes at any time. `check_active_mission` compares one bit and
  misses two changes in a row. Acknowledgements go where the code sends them,
  which is not always to the sender; no property is stated about that.
* *Navigator.* Onboard missions (`MIS_ONBOARD_EN` is off by default), set points,
  yaw and altitude. The mission mode begins only after the first iteration
  (`set_nav_state` asks for `inited`), because the commander grants no mission mode
  without a position. Items have `time_inside` 0, so that each item with autocontinue is
  followed by a look-ahead. A write of an item is whole or fails; torn
  records are in `MissionManager`. When two whole uploads fall within one iteration of the navigator the second goes to
  the storage that is still being read, and the count of a DO_JUMP of the old mission may be written over an item of the new one
  (`mission.cpp:688`). The model has it; `JumpsCounted` leaves out such an item (`crossed`), `FlownItem` speaks of the
  navigator that has taken over what was published, and `NoItemSkipped` of items that were not replaced. That the new mission
  is what was uploaded is claimed by no property.
* *The mission record has two writers.* The navigator reads it, and writes it back
  under a lock that the mission protocol does not take. A mission published in
  between is overwritten on the card by the old one. No property claims otherwise.
* A stored `current_seq` of -1 (no item was marked) is loaded as index -1, which
  `read_mission_item` refuses, while a publication resets it to 0: after a reboot
  such a mission is not flown. `publish_mission_result` resets `seq_current` to 0 and
  `valid` to true, and the next publication tells so. `item_do_jump_remaining` is
  given the repeat count. These are in the model as the code has them.

* *Data manager as seen by others.* In `DatamanAtomic` an I/O error is one more outcome of a call; only
  `Dataman_overlap` runs the detailed data manager with them; the refinement is checked without, and proved with them.
* *Commander.* Positions, health and timeouts are readings: how a position becomes invalid is not
  modelled. Preflight check and the section with interrupts disabled are one step. The
  low-priority thread runs between sections of the loop: on NuttX, where it has a lower
  priority, it runs only when the loop sleeps, which is a subset. ARMED_ERROR is requested
  by nobody. `nav_caps.abort_landing` and set points are left out. The model has, as the code has them and without a
  property: `calibration_enabled` set after INIT may have been left again; `control_mode.termination`
  kept in OFFBOARD; the commands for data link and GPS failure never set both at once, so
  that the two tests at 2362 and 2392 for them are never true together; the reversal of a fence
  action, which never happens when the loiter or return switch is not mapped; the reset when USB
  is unplugged, which asks only whether the board is powered (1609); IN_AIR_RESTORE
  kept when an onboard disarm is denied.
* *Failsafe modes.* The navigator sleeps while no global position is published, and the failsafe for a GPS failure is one of its modes: a
  vehicle whose estimator gives up is not terminated by it. `GpsLossTerminates` has the position as a premise, and is violated
  without. Waypoints, times and distances are `reached`. A return to launch that is left
  and entered again in LOITER goes on in LOITER wherever the vehicle is (`rtl.cpp:80`), because its
  state is kept while the vehicle can loiter: in the model, without a property. The mission mode
  is seen from outside: it may or may not be able to loiter, and finishes as `Finishes` says.
* *uORB.* POSIX only. Left out: generations that wrap at 2^32, the remote channel, `orb_stat` and
  priorities, descriptors running out, nodes of other topics. `px4_poll` with a
  timeout of 0 is one that times out at once. In the model and without a property: a copy
  between allocation and the first memcpy returns what was in the memory (`Garbage`); two
  `orb_advertise_multi` may claim the same unpublished instance (`uORBDevices_posix.cpp:655`);
  `orb_subscribe_multi` on a missing node goes through `node_advertise`, which resets `*instance`;
  a simultaneous `orb_advertise` fails with EBUSY; a `px4_poll` that finds a full
  table waits on the earlier descriptors only, and leaves old `revents` in the others. Not in the
  model: the -EEXIST of `px4_ioctl` is in `px4_errno` and looked for in `errno`
  (`uORBManager_posix.cpp:212`); `close` frees the `SubscriberData` a timer callback may still
  look at; the lock of the master stays locked when `strdup` fails (`uORBDevices_posix.cpp:621`).
* *PX4IO.* Left out: the start of the driver and the recovery after a restart of the FMU (`Init` is after both, with the
  mixer loaded and, or not, termination asked for); reboot to the boot loader; transfers that fail or are repeated; the
  mapping of RC channels, and `RC_HANDLING_DISABLED`, a start option that no run sets; the FAILSAFE and OUTPUTS_ARMED
  bits, which are only reported; PWM limits and the ramp after arming; S.BUS. The second of pressing of the
  button is one step that may come at any time. Values are known by their source only: raw
  values may be overwritten by failsafe values, and a mixer that is half loaded is `"part"`. Orders to
  allow override, to lock down or to disarm are in `Orders`, and the proofs cover them; `Io_ends` does not ask for them.

## 9. Plan

Done: data manager, mission protocol, offboard mission, commander with its failsafe modes, uORB, PX4IO with its
driver. Left, in this order:

1. `MessageBuffer` (`mavlink_main.cpp`, `logbuffer.c`, `sdlog2.c`): the two byte rings with their locks, against a
   bounded FIFO as the abstract specification. Theorem: the indices stay in range.
2. `FileTransfer` (`mavlink_ftp.cpp`): one session, opened and closed by the receiver thread while the sender
   thread works off a burst. Property: an answer belongs to the file of the session it names.
3. The start of the PX4IO driver: recovery of the FMU in the air, RC configuration; it composes `IoDriver` with `Commander`.
4. `param.c`: the array without a lock and the file written in place; report ring buffers of the drivers.

Every safety invariant and refinement the runs check has its theorem. Theorems still worth proving about what is
there: `IsAtomicStore` for a data manager that is stopped and started again, alone each time.
