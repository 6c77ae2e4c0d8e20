# A TLA+ verification of c2a-core

c2a-core is the core of the flight software of small satellites: it receives command
packets, keeps them in packet lists, executes them at their time, repeats the task list of
the current mode in every cycle of its clock, answers events by rules, and sends telemetry.
This directory models that core in TLA+, checks it with TLC on small instances and proves
the most important invariants with TLAPS for all values of the constants.

## 1. The system

One program, one main loop (`c2a_core_main.c:73`): `TDSP_execute_pl_as_task_list` is called
for ever.  Everything else is a command or an application executed by it.  There is one
source of concurrency inside, the timer interrupt, which calls `TMGR_count_up_master_clock`
at any moment.  What makes the code hard is therefore not threads but (a) the interrupt
between two reads of the clock, (b) commands and responses that change the very list, ring or
table they are executed from, (c) long sequences of legal commands from the ground, (d) lists,
counters and times at their limits, (e) work divided over several executions with other
commands in between, and (f) a world outside that sends bytes in pieces, frames twice or not
at all.

| component | state | operations | interacts with |
|---|---|---|---|
| packet list `tlm_cmd/packet_list.c` | a stock of nodes in an active and an inactive linked list, counters | clear, push, insert by time, drop the executed head, drop a node, compare the head with a time, deploy a block | everything that queues commands or telemetry |
| command dispatch `tlm_cmd/command_dispatcher.c` and the dispatcher applications `applications/{gs,realtime,timeline}_command_dispatcher.c` | per line: the list, `prev`, `prev_err`, `error_counter`, `lockout`, `stop_on_error` | execute the head and drop it, commands that clear, fill, lock and initialize lines | packet list, clock, block commands |
| packet handler `tlm_cmd/packet_handler.c`, `common_packet/*` | the lists of the lines and of telemetry | sort a received packet into its line, or register one made on board | packet list |
| ground link `tcp_to_m_pdu.c`, and the ground station driver of the example computer (`gs.c`, `gs_validate.c`, `csrv_gs.c`) | what is written of the current frame; the number expected next, lockout, retransmit, window | cut packets into frames and send them; accept, discard or lock; form the report | packet list, clock, radio |
| task dispatcher `system/task_manager/task_dispatcher.c` | the task list, `task_list_id`, `activated_at` | the loop over the task list, redeployment, overrun, change of list, resynchronization | clock, block table, every application |
| time manager `system/time_manager/*` | total cycle, mode cycle, step | count up (interrupt), set the total cycle | read by all dispatchers |
| mode manager `system/mode_manager/mode_manager.c` | mode, transition table, mode list, status | start and finish a transition, change the tables | deploys blocks onto a timeline, changes the task list |
| block commands `tlm_cmd/block_command_{table,executor,loader}.c` | positions, contents, activity and rotation of each block | register, overwrite, copy, swap, activate, rotate, load on board | read by every deployment |
| event logger `system/event_manager/event_logger.c` | per level a ring of events (TLog), a table of kinds of events with counts (CLog), statistics | record, clear, switch logging and overwriting | read by the event handler |
| event handler `system/event_manager/event_handler.c` | the rule table, its sorted index, counters of events seen, a log of responses | register, delete, activate rules; go through new events, respond by deploying a block, rules on rules | event logger, block commands |
| telemetry manager `applications/telemetry_manager.c` | the table of registered telemetry and the position in the blocks of each role | register, delete, clear and initialize in several executions | block table, divided commands |
| divided commands `applications/divided_cmd_utility.c` | a log of the latest commands in execution | check in, register the next part, report the end, abort | real time line |
| component driver `component_driver/driver_super.c` | per stream a buffer and the state of the search | receive bytes, look for header, length, data and footer | devices |
| the rest (field formats, libraries, memory dump, watchdog, HAL) | little or none | sequential | |

What makes each component correct, and where it could go wrong:

* **packet list**: no node is lost or listed twice; a timeline is strictly ordered; a
  deployment never meets a full list, keeps the distances of the block, and says what it did.
* **dispatch**: what is dropped is what ran; commands run in order, never early, and with
  `stop_on_error` never late; the last failure is kept; a waiting command is served.
* **ground link**: whatever frames are lost, the ground gets the packets of the others whole
  and nothing stays on board; commands are accepted once, in order, and ground and satellite
  find each other again after a lockout or a reset.
* **task dispatcher**: no task before its step, no list twice in a cycle, no mixture of two
  lists, recovery after an overrun, no wait for a cycle that is far ahead or never comes.
* **mode manager**: a transition that started has its end on the timeline.
* **block commands**: no holes in a block, rotation inside the block, the ground's position
  undisturbed by on-board loading.
* **event logger**: the logs hold the latest events in order and what is lost is on record.
* **event handler**: the index agrees with the table and finds exactly the registered rules;
  events are handled once and in order or given up with a record; a rule responds at most once
  per activation and gives way to a rule above it.
* **telemetry manager, divided commands**: the blocks execute exactly what is registered; a
  divided command ends, and a second one does not disturb it.
* **component driver**: the frames found are those of the stream, however it is cut.

`PROJECT.json` lists the hazards at their lines with the properties that cover them.

## 2. Modules

```
PacketListOps   the list functions that depend on times, on sequences (pure operators)
  |-- CommandPipeline      packet handler, dispatchers, deployment, clock
  |     |-- CommandPipelineMC          instances for TLC
  |     `-- CommandPipelineProofs      theorems
  |-- TaskDispatcher       task dispatcher and clock
  |     |-- TaskDispatcherMC
  |     `-- TaskDispatcherProofs       theorems
  `-- ModeManager          mode manager, composed with the line it deploys onto
        |-- ModeManagerMC
        `-- ModeManagerProofs          theorems
BlockCommandTable          block commands: table, rotation, on-board loader
  |-- BlockCommandTableMC
  `-- BlockProofs                      theorems about BlockCommandTable and TelemetryManager
PacketQueue     what a packet list promises: a queue (abstract specification)
PacketList      the linked list node by node, shown to implement PacketQueue
  |-- Uplink               FARM-1 above the list of ground commands, with ground and channel
  |-- Downlink             frames below the list of telemetry, with a receiver
  |-- PacketListProofs     theorems about PacketList, Uplink and Downlink
  `-- PacketListMC         all uses of a list
Recency         which kinds of a history are the most recent: the reference for CLog
EventLogger     TLog, CLog and what the logger records about itself
  |-- EventLoggerMC
  `-- EventHandler         EventLogger + EventRules: EH_execute and its recursion
        |-- EventHandlerMC
        `-- EventProofs                theorems about EventRules, EventLogger, EventHandler
RuleRegistry    what the rule table promises: a list of rules per event (abstract)
EventRules      the rule table with its sorted index, shown to implement RuleRegistry
  `-- EventRulesMC
DividedCommand  the log of divided commands (operators on a record)
  `-- TelemetryManager     the telemetry manager, composed with it
        `-- TelemetryManagerMC
StreamReceiver  one stream of a component driver
  |-- StreamReceiverMC
  `-- StreamReceiverProofs             theorems
CommonLemmas    lemmas on numbers, sequences, binary search and the list operators, for all theorems
```

**PacketListOps** translates `PL_insert_tl_cmd`, `PL_check_tl_cmd`, `PL_deploy_block_cmd`,
the search of `TLCD_drop_tl_cmd_at_` and `CCP_register_tlc_asap`.  A list is a sequence of
`[ti, cmd]`.  `InsertAck` is the answer of the insertion, `InsertPos` the place the scan
finds, `Shift` the number of attempts of the retry loop of the deployment (times are
unsigned integers of width `cycle_t`, hence `% CycleMod`), `CmdPlaced` one round of the loop over
the commands of a block, `Placing` what each round leaves, and `Deployed` the deployment as a whole
for callers nothing can interrupt visibly.

**CommandPipeline** has one variable per field of `CommandDispatcher`, indexed by line, and
the clock.  A dispatch is several steps, because the interrupt may come between any two:
*check* (`CheckTimeline`, for the timelines: the clock is read and compared with the head, a late
command under `stop_on_error` locks the line), *call* (`Begin`: the copy of the head and the saving
of the last error; `Refuse`: the line is locked and `CDIS_dispatch_command` returns), *execute* (one action per command that
touches the pipeline; `ExecPlain` stands for all other commands), one `DeployPlace` per
command of a deployed block, and `Finish` (drop the head, record the result, lock the line).
`pc` says where the running dispatcher is; receptions happen only when it is idle because
they are made by other applications of the same loop.  `Tick` may come between the check and the
call, so a command found on time may begin late, also under `stop_on_error`: what the code
promises then is `SoeStopsTheLine`, about the clock it has `read`.  `lastRun`, `lastFail`,
`touched`, `stopped` and `read` are history: they decide no step, only each other's values.

**PacketList / PacketQueue**: `next`, `packet`, the three list pointers and the two counters
of `PacketList`; the refinement maps the packets of the active nodes, from the head on, to
`queue`, and `PacketQueue!QueueSpec` is checked as a property of every step.  `use` says what
a list is used for: as a timeline, as a queue, by the uplink or by the downlink; the size and
the packets depend on it.

**Uplink** is the receiving side of COP-1.  `farm` has the fields of `gs_validate_info_`.
`CheckAd` splits into the acceptance of the expected number and the three ways to discard
another one (`IsAhead`, `IsOld`, `IsOutside` are the branches of `GS_check_ad_cmd_`);
`CheckUnlock` and `CheckSetVr` are the two control commands; an accepted command goes into
the packet list, or nowhere when the list is full.  The ground and the two channels are
external and modelled as weakly as the properties allow: it sends ahead up to its window,
may repeat any command that is not acknowledged at any time, and sends the control frame
that the last report calls for; frames arrive in order or not at all, reports are lost (the
next one replaces them) or late.

**Downlink**: one action per branch of the loop in `T2M_form_m_pdu` (`StopForming`,
`PushFill`, `WritePacket`) and `SendFrame` for its end together with what the application
does with a full frame.  `t2m` has the fields of `TcpToMPdu`, with the time since
`last_updated` instead of `last_updated` itself.  A byte is its packet, its place in it and
the packet's length.  The receiver (`TakeByte`, `TakeFrame`, `Received`; recursive functions over the
bytes of a frame and over the frames) knows what a ground receiver knows:
the counter of the frames, the first header pointer, and the lengths in the headers of packets.
The two applications for real time and for replayed telemetry are the same code on different
variables; the model is one of them.

**TaskDispatcher** splits `TDSP_execute_pl_as_task_list` at every read of the clock: `pc`
names the comparison made next, so that `Tick` may fall between the tests of
`activated_at`, between the cycle and the step, and inside the redeployment.  A task is any
application; what it may do to the dispatcher (set the clock, select a list, change a
block) is chosen from the constant `Effects`.

**ModeManager** composes the mode manager with the line `TLCD_ID_DEPLOY_BC`, because a
transition ends by a command in that line: `Start` deploys the block of the transition
table, `Finish` is the last command of that block (or one from the ground) and selects the
task list of the new mode.  Every other command that changes the line, the two tables, the
blocks or the task list is an action of its own.  Each command takes the two arguments
`cmd` and `own`: whether it is the head of the line (and then dropped) or comes from the
ground.  `lost`, `stray` and `taskMode` are history: the end of the transition was removed
or never inserted; the ground meddled with ends itself; the mode whose list is selected.

**BlockCommandTable** has the contents, length, activity and rotation of each block, the
position that registrations write at (`pos`), and the one the on-board loader stores while
it works (`stored`).  `BCL_load_bc` and `Cmd_BCT_FILL_NOP` register several commands; they
are several steps (`pc`, `todo`), between which nothing else runs.  `written` and `upload`
are history: the cells written since the block was cleared, and what the ground has
registered since it cleared the block.

**EventLogger**: the logger is one record `el`, as `event_logger_` is one struct, so that
`Recorded(el, ...)` can be composed by a handler that records several events.  Recording
records further events of the level EL (a ring that has filled, a kind that CLog dropped);
these cause none themselves, so the recursion of `EL_record_event_` is written out once.
CLog's order array is the sequence of its entries.

**EventRules / RuleRegistry**: `setting`, `active` and `counter` are the fields of a rule,
`sorted` the index `sorted_idxes`.  Insertion and deletion move entries as the two loops do,
and `undef` says that a loop would have left the array (section 6).  The binary searches are
recursive functions.  The refinement maps the index to what it is for: per event the list of
its rules in the order of their duplicate ids.

**EventHandler** composes both.  `exec.stack` is the C stack of `EH_check_rule_and_respond_`
and `EH_respond_`: a frame has the level and the slot of its event, the rules found for it
and the number of responses.  An event is not copied, as in the code: a frame points into
the ring, and what the execution records may overwrite it.  One action per branch: `Execute` and
`ExecuteEnds`, the search for the `NextEvent`, the four outcomes of checking a rule (`RuleIs...`,
`RuleCounts`, `RuleMatches`), asking the higher rules or not (`HigherIs...`), `Respond` with each
result of the deployment, and the three returns (`ReturnTo...`).  `eh` has the counters of
`event_handler_`, `hist` what the properties need to know of the past.

**DividedCommand / TelemetryManager**: the log `exec_logs` in the order of `exec_log_order`,
and the line of real time commands, which is where a divided command waits for its next
execution.  `Dispatch` executes the head of that line; `Command` is any command of the ground
between two of them.

**StreamReceiver**: the buffer of a stream with its head and `confirmed_frame_len`; one action
per round of `CDS_analyze_rx_buffer_pickup_`, by what it looks for.  A call of `CDS_receive`
starts by making room and copying the new bytes.  `stream` and `found` are history: all that
was sent, and where the frames were found.  A configuration is anything that
`CDS_validate_stream_config_` accepts (`Valid`), with every offset of a length, its default 0
included; a received length may therefore be smaller than the header and the length field it
stands in.  What the code then does is part of the model: it refuses a length below header and
footer, fixes a frame without a footer with the next byte (`FixWithoutFooter`), and otherwise
compares bytes with a footer out of its range, where the model takes either outcome
(`ReceiveFooter`).  `Frames` defines, on the whole stream and without a buffer, what the search
takes for its frames, such short ones included; `FramesAreWhole` says against the description of
the settings what a frame found is, with the one exception of lengths that are too short
(`IsShort`).

## 3. Runs

Every run is one question; its bounds are the constants of its `.cfg`.

| run | asks | bounds |
|---|---|---|
| `CommandPipeline_clock` | `NothingRunsEarly`, `TimelineRunsInOrder`, `HeadIsRunning`, `DeployIsWhole`, `ResultIsTruthful`: blocks deployed onto a line by itself and by the ground, under a clock that rolls over and is set back, with times that overflow | list of 3, 4 cycles of 6 values |
| `CommandPipeline_errors` | `LastFailureKept`, `SoeStopsTheLine`, `TimelineServed`: failures, stop_on_error, lockout, error log; a waiting command is executed or removed in the end | list of 2, 3 cycles, error counter of width 2 |
| `CommandPipeline_self_clear` | `DropsOnlyTheExecuted`, which the code does not keep (section 6) | |
| `PacketList_uses` | `ImplementsQueue` for every use of a list; `FramesCarryThePackets`, `TelemetryLeaves` for the downlink; `CommandsInOrder`, `LinkRecovers` for the uplink | lists of 4, 1 and 2 nodes; 3 packets of 2 to 4 bytes in frames of 4, counter of 3 values; 6 commands numbered mod 5, window 2, 2 frames on the way |
| `TaskDispatcher_cycle` | `OneCycleAtATime`, `NoTaskBeforeItsStep`, `NeverTwiceInACycle`, `OverrunRecovers`: lists that change, overrun, empty and restart, and a clock that is set, with the interrupt between any two steps | 3 steps, 5 cycles, blocks of 2 and 3 |
| `ModeManager_transitions` | `TransitionHasItsEnd`, `TransitionEnds` among deployments, removals and a line that overflows, while tables and blocks change | 3 modes, 4 blocks, line of 3, 5 cycles |
| `BlockCommandTable_blocks` | `BlocksAreSound`, `UploadIsWhole`: uploads between loads on board; rotation | 2 blocks of 2 cells, 2 commands, intervals up to 2 |
| `EventLogger_records` | `LogsAreSound`, `LossIsOnRecord`: any order of events and commands | rings of 2, 3 and 4, CLogs of 2 and 3, 3 kinds, 8 events, 3 commands |
| `EventRules_table` | `RuleTableIsSound`, `LookupsAreExact`, `ImplementsRegistry`: any order of registrations, deletions and initializations | 4 rules, 3 events, 3 duplicates |
| `EventHandler_events` | `CountersAgree`, `HandledInOrder`, `SkipsAreAnnounced`, `OneResponsePerActivation`, `HigherAnswersInstead`, `EventsAreServed`: rings that overflow while the handler runs, chains of rules, commands in between | rings of 2, 4 rules in chains of up to 3, 3 events of users, 1 response and 2 checks per execution, one command |
| `TelemetryManager_plan` | `PlanIsSound`, `RegisteredIsSent`, `DividedCommandsEnd`: registrations and deletions between the parts of clearing commands that are aborted, crowded out of the log or refused by the line | 2 roles, 3 blocks of 2 cells, 3 telemetry commands, log of 2, line of 3, 5 commands |
| `StreamReceiver_frames` | `FramesAreTheStreams`, `FramesAreWhole`, `NoFrameMissed`, `ReportedOnce`, `BacklogIsServed`: frames in pieces, behind false starts, with sound and with short lengths | 12 streams: 7 of all kinds, strict and not, 5 with short lengths or without data; 7 bytes of 3 values in pieces of up to 3 |

Why these bounds are enough.  The list functions distinguish the head, the tail and a node in
between, and a block that fits, just fits and does not fit: lists of 3 and 4 and blocks of 2
and 3 have all of these.  Two blocks of two cells are one that is uploaded and one that is
loaded, and either can be the other's source.  Three modes make a path of transitions and one
that is not allowed.  A cycle counts only through order and equality, so the cases are before,
equal, between, after and overflown.  Frames of four bytes with packets of two to four have a
packet that fits, one that is cut, two that begin in a frame and a frame in which none begins; a
fill packet that fits, and one that is cut (header of one byte).  Numbers mod 5 come round within
six commands; a width of 2 has numbers ahead, behind and outside on both sides (1 and 2, 3 and 4),
a width of 1 has two numbers outside.  Three duplicates of one event make a beginning, a middle
and an end of a run in the index.  A chain of three levels is a rule above a rule above a rule, at
the limit of `MultiLevels` 3 and beyond that of 2.  Rings of two overflow with a third event and
alternate between both halves.  Streams of seven bytes hold a frame of four or three, a false
start inside it and the beginning of the next frame, and overflow buffers of five and six.
With the offsets 0, 1 and 2 and footers of none, one and two bytes a length is refused as too
short, is accepted and ends within the header or the length field, exactly there, or within
the footer, and is sound.

`CHECK_DEADLOCK FALSE` appears where the model's clock, its commands or its events are used up
(`Rollover = FALSE`, `MaxCommands`, `MaxRecords`): nothing is then left to do, as in a simulation
that ends; and in `BlockCommandTable_blocks` and `EventRules_table`, where an undefined step
(section 5) ends a behaviour.  `Rollover` separates two worlds because with a rollover the times of
queued commands lie in the past or the far future, and order properties hold only within one run of
the clock.

Further configurations, to be run by hand, show statements of the source that the code does not
keep, or a larger instance: `CommandPipeline_clear_err_log.cfg`, `CommandPipeline_forced_clear.cfg`,
`TaskDispatcher_rollover.cfg`, `EventRules_deep.cfg`,
`StreamReceiver_default_length.cfg`, `StreamReceiver_no_data.cfg` (each violated, see section 6) and
`CommandPipeline_schedule.cfg` (two timelines that deploy onto each other; holds).

**Fairness.**

* CommandPipeline: weak fairness of the running dispatcher and of the clock, and strong
  fairness of each dispatcher application: the task list calls every dispatcher again and
  again, whatever the others do, so a dispatcher that finds a due command infinitely often also
  begins one.  (Weak fairness is not enough: while another line runs it is not enabled.)
* TaskDispatcher: the main loop goes on and the interrupt fires; fairness of the loop is stated
  as fairness of the moves of its program counter, which is the same because every step of the
  loop moves it.
* ModeManager: the interrupt fires and the line is served: a head that stays due is run.
* EventHandler: `[]<><<MCStep>>`: the event utility is in every task list, so the handler, which
  can always take a step, takes one again and again.
* TelemetryManager: the dispatcher of real time commands runs as long as its line is not empty.
* StreamReceiver: the driver is called again and again, with or without new bytes
  (`WF(Pickup)`, `WF(ReceiveBacklog)`); nothing is assumed of the device.
* Downlink: the application is executed and goes on, and the timer does not stop.
* Uplink: the satellite receives what arrives and sends telemetry (with reports), the ground
  handles reports: weak fairness.  Strong fairness of the ground's sending (it waits for room on
  the way) and of the reception of the frame the ground repeats: the channel may lose any frame
  but not for ever every copy of one.

## 4. Proofs

**Assumptions.**  Those of the modules that declare the constants; TLC evaluates them in every run.
Four of them carry weight.  `FitAssumption` (CommandPipeline): a line can hold a whole block and is
far shorter than a round of the clock.  `EndAssumption` (ModeManager): no block ends a transition
twice (`mode_manager.c:248` asks for the end as the last command).  `UplinkAssumption`: two windows
are shorter than the round of the numbers.  `LoggerAssumption`: the groups by which the logger
reports its own losses are three different ones (the enumeration at `event_logger.h:226`).  The theorems about TaskDispatcher are for a clock that
does not roll over (`~Rollover`); what happens when it does is in section 6.

**Induction.**  The provers cannot instantiate the induction theorems of the library, which take an
operator.  `CommonLemmas` has an induction for sets (`NatSetInduction`: a set with 0 that is closed
under + 1 has all numbers), derived from the well-foundedness of `<` and the existence of a least
element, which are about sets; and `RecursionExists`: a function defined by its next value exists
and follows its definition.  With these, what the loops of the code compute is proved for all
inputs: `Placing` for every block, `NodeAt` for every chain of nodes.  A property that is to be
handed on through such a loop is given a name of its own (`GrowsTo`, `GrowsAlong`, `Placeable`).

`CommandPipelineProofs` proves for all lines, capacities, commands, blocks and clocks:
`TypeOK`, `TimelineOrdered`, `TimelineRunsInOrder`, `NothingRunsEarly`, `HeadIsRunning`,
`LastFailureKept`, and the action property `SoeStopsTheLine` (with `SoeInv`: a stopped line is
locked, and an unlocked line under the flag is called with the head the check has found on time).
None of them is inductive alone.  The inductive invariant joins them: a timeline is ordered, hence its head is the
earliest; what was begun is not later than anything in the line; nothing begun is ahead of
the clock, nor of the start of a running deployment; hence an insertion that is not refused
as past goes behind the running packet, which therefore stays at the head until `Finish`
drops it - unless the command cleared its own line or the clock went back (`touched`).  The
proof has one step per action of `Next`; it uses what the list operators do to every list
(`CommonLemmas`): an insertion keeps a list ordered, adds exactly the packet, and keeps the head
unless the new packet is earlier; removals and tails keep order; lengths.

`DeployIsWhole` and `ResultIsTruthful` rest on a second invariant, of deployments (`DeployInv`).
`Room`: what is left of the block still fits, since nothing but the interrupt comes between two
commands; so a deployment never meets a full list.  The retry loop finds a time because it has one
attempt more than the list has nodes and the times are fewer than a round of the clock apart: of
n + 1 times one is not in the list (a counting argument, `ShiftFindsTime`).  `Delayed`: each command
was moved by at least as much as the one before it, which gives the distances, and the results.

`BlockProofs` proves of the block command table, for all blocks, commands, sizes and intervals: `TypeOK`,
`BlocksAreSound` (no holes, the rotator in range) and `UploadIsWhole`.  The inductive
invariant joins them with the position of the ground (`GroundPos`: the stored position while
the loader works, the position itself otherwise), which is never behind the end of its block;
therefore a registration either extends a block by one cell or overwrites one, and leaves no
hole.  An upload is carried through a load because the loader clears the block it loads, which
ends an upload into that block, and writes no other.  A rotator stays in range because a block
becomes shorter only when it is cleared, also by a load or a copy, which resets the rotator; a
swap moves the rotator with its block.

The same module proves `PlanIsSound` and `RegisteredIsSent` of the telemetry manager, for all roles,
blocks and sizes of the log.  Its invariant (`ManagerInv`) has three parts beside the types.  The log
of the divided commands has no command twice (`IsLog`), and an execution turns it: it brings one
entry to the front and invents none (`Turned`).  An entry in progress says what its command has done
(`EntryOK`): a clearing that has reached part c has cleared the first c + 1 blocks of its role, unless
the role was changed since; an initialization has emptied the table and cleared the first c - 1
blocks.  This is what the counter alone tells the code when it goes on, maybe much later and after any
other commands; and it is why a clearing that ends may set the number of commands to 0.  The plan
itself (`PlanOK`): table and cells agree, the places below the number are taken and the others free,
and each command occurs as often as it was asked for.  Registering writes the first free place;
deleting moves the last command into the hole, and counting what is left (`CountAfterMove`) is the one
step where the order of the writes matters, as the hole may be the last place itself.  All rests on
the places of a role being different cells (`SlotFacts`: quotient and remainder say which block and
which cell), and on the blocks of a role being all its blocks, in order (`BlocksOfRole`).  The theorems
are for behaviours that begin with `Boot`; the run begins also with what an initialization reaches.

`TaskDispatcherProofs` proves for all steps, cycles, blocks and tasks `OneCycleAtATime`,
`NeverTwiceInACycle`, `NoTaskBeforeItsStep` and the types.  The inductive invariant adds to them what
the dispatcher knows at each place (`Behind`): past the test `activated_at > total` its list is
for a cycle that has begun, and an interrupt only makes that truer.  The types need what a whole
deployment leaves, for every block (`DeployedProperties`).

`ModeManagerProofs` proves `TransitionHasItsEnd`, `TaskListFollowsMode` (the task list is that of
the mode that is left until the transition is over) and the types for all modes, tables, blocks
and commands of the ground.  The second has no run of its own: what could break it is a transition
started within another, which breaks the first too.  The end of a transition is a packet among others.  Only
a deployment adds packets, and each command of its block at most once (`DeployedSteps`, by induction
over the block); so as long as the ground leaves ends alone (`stray`) the line has the end of the
transition in progress, or none if that was removed (`EndInLine`), and no block ends one twice
(`BlocksEndOnce`), through copies of blocks and changes of the tables.

`EventProofs` proves for all capacities, groups, events and orders of commands
`RuleTableIsSound`: the index names exactly the registered rules, without repetition, sorted by
event and duplicate id, and the duplicate ids of an event are 0, 1, ... without a gap.  The
invariant has four parts: the types, `IndexMatchesRules`, `Ascending` and `Grounded` (every
duplicate id but 0 has the one before it in the index).  `Ascending` speaks of any two entries and
not only of neighbours, as the place of an insertion depends on entries that are far apart.
Insertion and deletion are lemmas on sequences: an entry put behind the last smaller one leaves any
two in order, and a deletion that lowers the later duplicates of the same event keeps them distinct
and without a gap.

On the same invariant rest `LookupsAreExact` and the refinement `ImplementsRegistry`.  The entries of
an event stand side by side in the index, earlier events before them and later ones behind
(`RunOf`); the comparison function therefore leads every binary search to the first of them, from
any interval that holds it, whatever its length (`BinarySearchFinds`, by induction over the length).
The search by group may hit any entry of the group, and goes back and forth from there to the ends
of the group (`GroupRunIsTheGroup`).  For the refinement the list of an event is the one in which
each rule is at the place that its duplicate id says (`Lists`), which determines it.  An insertion
appends to one list and a deletion takes one element out of it; that the entries of other events
move within the index, and later duplicates get lower numbers, changes no other list.

It proves `OneResponsePerActivation` of the handler for all rules, levels, rings and limits.
The invariant says what each frame of the recursion still knows of its rule.  A frame reads whether
its rule is active, then records the match, which may go up through the rules above, and only when
these have returned does it respond or not.  `Callers`: the rule of a frame below the top is still
active unless a frame above it has responded (`Covered`), and in that case the number of responses
that is handed down keeps it from responding; `Answering`: the rule at the top that has matched is
active; `Accounts`: the responses of a rule are at most
its activations, and fewer while it is active.  Each deployment makes the rule and those below it
inactive, so that each activation pays for one response.

It proves `HigherTakesOver`, the first part of `HigherAnswersInstead`, for every table of rules: no
two rules that respond to one event are one above the other.  One event calls for a tree of rules.  The rules that
the frames of the stack have come to are the path from the topmost down to the rule that looks at
the event itself (`Calls`, `StackPath`): a frame holds the rules that wait for the match of the one
rule below (`Above`), and the first one was called for an event of another level than EH, which no
rule that waits for a match looks at (`MatchesAreHigher`; it needs that a ring of a level holds
events of that level, `StoredLevels`, and that `EH_register_rule` refuses other rules,
`WellFormedRules`).  The property itself is not inductive.  `Answered` is: no rule that is still to
be looked at is below a rule that has responded, and a rule that waits in the stack is below one only
if a frame above has responded, after which it is passed over.  That a frame never has a rule twice
(`Listed`) rests on the exactness of the search, and that no two frames share a rule (`Apart`), which
makes the stack as short as there are rules, on each rule waiting for one match only.

It proves `LogsAreSound` and `LossIsOnRecord` of the logger as the handler uses it (`HandlerSpec`),
so with every sequence of events that the handler itself records in one step.  `LogInv` says what a
log is in terms of what was put into it.  For a ring (`RingHolds`): the slot `i` places before the
write pointer has the event stored `i` places before the last.  For CLog (`Recent`, `Counts`): a
kind stands at the place that the number of different kinds after its own last event says, and
its count goes back to the last time that this number reached the size of the table.  The order array
is a sequence here, and moving an entry to its front (`ToFront`) is the one operation on it.
`LossInv` adds the records of losses, while nothing was cleared and no logging disabled.
`RoundsAnnounced` counts: a ring has gone round as often as the logger has said so, which needs that
the write pointer is the number of events modulo the size (`InStep`).  `DropsAnnounced` is about
CLog: the two events about a dropped kind come one directly behind the other, and neither makes
CLog of another level drop anything.

It proves `CountersAgree` and `SkipsAreAnnounced` of the handler (`SeenInv`).  Level by level, what
the handler has seen is at most what the logger has counted (`Behind`); the total is the sum
(`Accounted`); and an event behind that number is in the list of handled ones, or a loss with a
higher number is stored at level HIGH (`Announced`).  The difficulty is that the search for the next
event itself records losses, level after level, and a loss recorded about LOW adds to HIGH, which
was looked at before.  `Records(s, t)`, that `s` is `t` with more events recorded, is what all
these steps keep; it is transitive, and each part of the invariant is shown to survive it.

`StreamReceiverProofs` proves `ReportedOnce` and the type invariant for all streams, sizes and
kinds.  The invariant: positions are within the buffer (`Within`), a confirmed length is below the
size of the frame that is looked for, unless that size ends before the data of the frame begin
(`BelowSize`), the buffer is the end of what was received
(`BufferIsReceived`), and the number of reports agrees with the number of frames found (`Reports`).

It also proves `FramesAreTheStreams` and `NoFrameMissed`, for every configuration that the code
accepts, with short lengths and whatever bytes stand behind a footer's range, and every
splitting of the stream over the calls.  `NoFrameMissed` exempts a receiver that waits in a frame
whose length ended before its footer could begin (`Overrun`): it compares further bytes until
one differs, and what begins behind it is found only then.  `Frames` is defined from the end of the stream to its
beginning, and bytes that arrive at the end could change all of it; so the invariant speaks of every
continuation of the stream (`Walked`): its frames are those found, followed by those from the place
of the search on.  A candidate is given up or found for what all its continuations have in common,
which is what its confirmed bytes have shown (`Seen`): its header, its length, its footer as far as it
has arrived, and, where the footer is searched, that it has not ended before.  The definition of the
frames is a recursive function; that it exists and what it computes is shown by `NatSetInduction`
(`FramesExist`, `FramesAre`).  One case only the proof brought up: a stream searched for its footer
whose largest frame is shorter than its header, which `CDS_validate_stream_config_` accepts.  The
receiver may then wait in a candidate that can no longer become a frame; nothing is missed, since
there is no frame.

What `Frames` takes for a frame is tied to the description of the settings by `FramesAreWhole`
(theorem `FoundAreWhole`): what is found is what the verdict says at its place (`FramesAreJudged`,
`FoundIs`), and a verdict has the header, the length and the whole footer unless the length is
short (`VerdictIsWhole`).  `OffsetMakesWhole` names what a configuration has to add to make the
exception empty: where the offset of a length is at least the header, the length field and the
footer, which the code does not ask for, `EveryFrameIsWhole` holds.  Section 6 shows that it
does not hold without.

`PacketListProofs` proves the refinement `ImplementsQueue` for every size of a list, all packets and
all times.  The invariant (`ListInv`) names two sequences of nodes, the active ones and the free
ones: every node of the stock is in one of them, none twice; `next` goes through each from its head
to the node without a successor; head, tail and length of the active list are its own.  There are
two lemmas about pointers, that a node put between two others (`InsertNode`) or taken from between
them (`RemoveNode`) leaves such sequences; every function of `packet_list.c` is shown to do one of
the two, at the head, at the tail or within, and to choose the place that the queue's operator says
(`InsertTlCmdIs`, with the order in which the code compares times).  `NoNodeIsLost` is the invariant
itself: no sequence of operations loses a node.

It proves `CommandsInOrder` of `UplinkSpec` (the uplink alone, `use = "commands"`) for
every modulus of the numbers, every window of the ground and of the receiver and any number of
commands, where the run has 6 commands and numbers modulo 5.  A frame carries the number of its
command modulo 256 and the receiver compares remainders, so what has to be shown is that the
remainder says which command it is.  It does because everything on the way is less than a window
from the expected command (`Near`): frames arrive in the order in which they were sent, and the
ground is never more than a window ahead of what it knows to be accepted (`Counted`).  `Unforced` is
needed because a control frame could set the number to anything: the ground calls for one only when
a report names no command it could acknowledge, and without a reset of the driver every report names
one that was expected since.  After a reset only the types are left of the invariant, as of the
property.

It proves `FramesCarryThePackets` of `DownlinkSpec` (the downlink alone, `use = "telemetry"`) for every
size of a frame, all lengths of packets, every modulus of the frame counter, every number of packets and
every choice of frames that are lost, as long as the counter shows the loss (`Losses`).  The proof has
two halves.  The first is an inductive invariant of the satellite (`DownInv`), which takes the bytes
in the frames sent and in the frame in the making as one stream.  `Numbered`: the counter of a frame is
its number modulo `CounterMod`.  `Pointed`: no packet begins before the place that the pointer of a
frame names, and one begins there.  `Connected`: behind a byte stands the next byte of its packet or
the first byte of another one, and only the beginning of a frame may be the beginning again of a packet
(after `T2M_initialize` in the middle of one).  `Cursor`: the read position continues what was written
last.  `InOrder` and `Queued`: the numbers of the telemetry packets never go down along the
stream and on into the queue, and a packet that stands in both is the head of the queue, cut by the
end of the frame.  `Kept`: until the first disturbance every packet made is in the queue or whole in
the stream.  Each action is one of three kinds: it changes nothing of this (`Idle`), it appends to the queue
(`SameStream`), or it writes one chunk of the first packet (`Chunk`), from which each part of the
invariant follows by itself.

The second half needs no actions: in any state with the invariant, the receiver is led over the
frames that arrive.  What it has got after byte `x` of frame `i` is exactly the packets that end up to
there and of which every byte arrived (`Gathered`), and while it is in step the bytes it holds are those
of the open packet before the next byte (`Before`, `Behind`).  The point of the argument is what it loses.  A receiver
that is not in step at the beginning of a frame skips the bytes before the pointer; a packet that ends
there must then not be complete.  It began in the frame directly before (`Carried`: a packet
is not longer than the data field, so it cannot span three frames), the pointer of that frame is
therefore set, and a receiver that took that frame is in step (`FollowsNext`: with the losses the
counter shows, a number that follows the last one is that of the next frame).

Only model-checked:

* the liveness properties: the provers do not decide fairness;
* `HandledInOrder`.  It is true of the runs' constants and of the sizes in the code's settings, but
  not of all constants the assumptions allow: where the ring of level EL is very small, the events
  about a loss, recorded in the middle of a search, fill it, and what is then read is not the oldest
  event;
* `HigherAnswersInstead`.  Its second part, `MatchesAreShared`, counts the match events of every rule
  and is true only where nobody else records events of the group of matches, which the runs' users
  do not do and the general specification (`HandlerNext`) lets them do, and where thresholds fit a
  `uint16_t`; its first part, `HigherTakesOver`, has no such condition and is proved.

## 5. Abstractions

* A command is a record of what it does to the modelled state; all other commands are
  "plain" and succeed or fail.  Parameter lengths and ids out of range are "plain" failures.
* Execution is not recursive: `Cmd_AM_EXECUTE_APP` of a dispatcher, and the combiners of
  block commands, which execute further commands inside a command, are not modelled.
* `error_counter`, cycles and steps have their width as a constant.  `cdis->idx` and the
  time stamps of errors are only logged and are left out.
* In ModeManager a command is one step; lockout, stop_on_error and the clock being set are the
  subject of CommandPipeline, whose lines are served whatever the mode.
* In BlockCommandTable the lengths and contents of packets, the two combiners and the
  function pointers with which user code may replace the getters and setters are left out.
  Rotating an active block without commands divides by zero (`undef`): the behaviours stop.
* The notes of events and the pages of the telemetry of logger and handler are left out.  A
  registration of a rule is one step although the ground sets its parameters by two commands
  before; the block of a rule is one that is deployed or refused, by choice.
* In TelemetryManager the three commands that start and stop the telemetry and fill the master
  block are left out: they deploy, clear or load fixed blocks and leave the manager as it is.
* StreamReceiver has one stream behind an interface and lengths of one byte; sending, the times
  after which a silent device is reported, and enabling and disabling streams are left out.  The
  byte read with an index out of the range of a footer may be any, so the comparison may go
  either way; the read itself is taken to return.
* Uplink: a frame that fails the checks of its fields is a lost frame.  Frames of type B, which
  bypass the numbering, and their counter are left out.  A control frame is also handed on to
  `PH_analyze_cmd_packet` (`gs.c:253`), where the bytes behind it are looked at as if they were a
  packet; this is left out.  Either the driver is reset or the window is narrowed below the
  ground's, once (`upset`).
* Downlink: `SetTime` may leave any time since the last byte; an initialization and a set clock are
  bounded to one.  The packets are at most as long as the data field, as `TSP_MAX_LEN` is 432 and so
  is `M_PDU_DATA_SIZE`.  Whether the two ports accept a frame is left out: a frame not accepted is
  one of the lost ones.

## 6. Where code and documentation differ, and what else the models show

The finding that a run of `PROJECT.json` shows:

1. `CommandPipeline_self_clear`: a command that removes itself from its line
   (`CLEAR_TIMELINE_AT` of its own time) makes the dispatcher drop the next one unexecuted.

Further disagreements, with a configuration to run by hand:

2. `StreamReceiver_default_length`: with the offset 0, which `driver_super.h:354-357` documents for
   a length that is that of the whole frame, a received length that is smaller than the header and
   itself passes the check at `driver_super.c:898`; the frame that is fixed is then longer than
   its length says.
3. `StreamReceiver_no_data`: a frame that ends with its header or length and has no footer is fixed
   only by a further byte (`driver_super.c:828`, `:927`), the delay that the comment at `:926-928`
   says is avoided.
4. `CommandPipeline_clear_err_log`: `CDIS_clear_error_status` leaves `prev`; the next command
   of the line copies the old failure into `prev_err` again, so the cleared error comes back.
5. `CommandPipeline_forced_clear`: a deployment that clears the line and then fails returns
   the failure only; `PL_BC_LIST_CLEARED` is lost.
6. `TaskDispatcher_rollover`: in the last cycle of the clock `activated_at` becomes
   `OBCT_MAX_CYCLE`, which the clock never reaches.
7. `EventRules_deep`: a chain of rules registered from the top down is deeper than
   `max_multi_level` allows (the check at `event_handler.c:1135` looks downwards only).

What the models contain, and why a property is stated with an exception (no document says
otherwise, so none is a finding):

* Event handler.  `for (i = found_idx; i >= 0; --i)` on a `uint16_t` (`event_handler.c:877`) does
  not end by its condition; where the first entry belongs to the wanted group it leaves the array
  (`undef`).  `current_multi_level` is not decremented on the way back (`:525`), so that a later
  legal chain is refused with `RECURSION_ERR`.  The pointer to an event in the ring is used after
  responses have recorded others (`:481`): the handler then reports `UNKNOWN_ERR`.  The record of
  `TOO_MANY_EVENT` (`:718`) may itself overwrite the oldest event that was found.  Clearing a log
  while events wait (`event_logger.c:778`) loses them with a counter error.  With logging of
  `EH_MATCH_RULE` disabled a match is not found again.  A counter set to 65535 wraps (`:620`).
* Telemetry manager.  `REGISTER` and `DELETE` while a clearing is half done break the promise of
  blocks without gaps (`telemetry_manager.h:81`, `:101`); a second clearing command starts a second
  chain that shares the counter of the first; `RTCD_CLEAR_ALL_REALTIME` cuts a chain; deletion keeps
  the old time in the moved command (the TODO at `telemetry_manager.c:729`); `START` ignores the
  results of what it does (`:1152`); `DCU_search_and_get_log` assigns to its parameter
  (`divided_cmd_utility.c:283`).
* Component driver.  A length that passes the check at `driver_super.c:898` and is too short for
  itself and the footer makes `CDS_analyze_rx_buffer_receiving_footer_` read the footer with an index
  out of its range (`:1132`) until a byte differs (`IsShort`, `Overrun`).  When new bytes do not fit,
  all old ones are dropped (`:705`).  In the strict mode what is left is searched again only
  with new data.
* Ground link.  A full command list loses a command that was acknowledged (`gs.c:253`); the report
  has no wait flag.
* Smaller hazards that are not in the list of `PROJECT.json`: `cdis->idx` wraps
  (`command_dispatcher.c:97`); a copy of the clock may be torn (`time_manager.c:87`); the task
  dispatcher reads `tskd.prev` after a task that may have set it (`task_dispatcher.c:121`), loses a
  cycle that ends between the comparison and the deployment of an empty list (`:140`), and goes on
  with a block made inactive after its selection (`:65`); `Cmd_AM_EXECUTE_APP` of a dispatcher
  dispatches the same head again (`app_manager.c:146`); `FILL_NOP` and others ignore refused
  registrations (`block_command_table.c:535`); a copy of a block onto itself (`:264`); a transition
  ends although its task list is refused (`mode_manager.c:285`).

## 7. Not modelled

* Pure formats and tables: the fields of packets, segments and frames, telemetry definitions,
  command and block definitions, digests and dumps.  They have no state of their own; their unit
  tests reach what can be wrong in them.
* `unixtime` and the time of a command in unixtime (floating point), execution times, the watchdog,
  hardware abstraction, initialization of tables.
* User code of the two example computers other than the ground station driver; the code generator.
* Of the modelled components: what section 5 and the notes in `PROJECT.json` name.

The map covers about a sixth of the lines of the implementation.  Most of the rest is of these
kinds: generated telemetry definitions (over 4000 lines in one file), headers of declarations,
field accessors, drivers and settings of the examples, Python tools.  What holds state and decides
something in `system`, `tlm_cmd`, `applications` and `component_driver` is modelled.

## 8. Plan

1. Sending and the surveillance of reception times in the component driver; several streams behind
   one interface.
2. As theorems: the order in which events are handled, with a condition on the ring of level EL.
3. The combiners of block commands and `Cmd_AM_EXECUTE_APP`, which execute commands inside commands:
   a stack of dispatches in CommandPipeline.
4. Frames of type B beside type A in Uplink, and the composition of Uplink with CommandPipeline.
