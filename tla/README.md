# A TLA+ development of NR V2X sidelink scheduling

The repository is ns-3 with the NR module (5G-LENA, sidelink mode 2) and an
O-RAN interface through which an external xApp can take over the scheduling of
vehicles.  This directory holds TLA+ modules of the sidelink scheduling code, of
the RLC below PDCP, of the way an xApp's schedule takes into the simulation, and
of the two concurrent Python programs of the repository, the test script and the
visualizer; TLC configurations for small instances and TLAPS proofs for all
instances.
Paths below are relative to `src/`.

## 1. Inventory

The simulator executes one event at a time.  Concurrency is the interleaving of
events (slots, packets from the upper layers, timers, receptions from other
UEs, messages of the xApp).  Real threads are found in three places: the E2
termination next to the simulator, the workers of `test.py`, and the simulation
and view threads of the visualizer.

| component | source | state | operations |
|---|---|---|---|
| UE MAC, sidelink slot handler | `contrib/nr/model/nr-ue-mac.cc` | `m_grantInfo` (per destination: re-selection counters, ordered set of slots, process id, transmission count), `m_sidelinkTxDestinations`, `m_nrSlMacPduTxed` | `DoNrSlSlotIndication`, `CreateGrantInfo`, `FilterTxOpportunities`, `ComputeGaps`, `DoAddNrSlLc`, `DoTransmitNrSlRlcPdu` |
| UE MAC, sensing | same file | `m_sensingData` | `DoReceiveSensingData`, `UpdateSensingWindow`, `GetNrSlTxOpportunities`, `GetFutSlotsBasedOnSens`; sub-channels in `GetAvailSbChInfo` and `RandSelSbChStart` of the scheduler |
| UE MAC, ORAN_SELECTED | same file | `m_grantInfoXapp` | `V2xE2Scheduling`, the second branch of `DoNrSlSlotIndication` |
| sidelink HARQ entity | `contrib/nr/model/nr-sl-ue-mac-harq.cc` | FIFO of free process ids, a TB per process | `AssignNrSlHarqProcessId`, `AddPacket`, `GetPacketBurst`, `RecvNrSlHarqFeedback` |
| sidelink UE scheduler | `contrib/nr/model/nr-sl-ue-mac-scheduler-{ns3,simple,lcg,dst-info}.cc` | buffer status per destination and logical channel | `DoSchedUeNrSlTriggerReq`, `DoNrSlAllocation`, `RandomlySelectSlots`, `AssignedData` |
| RLC UM, sidelink side | `src/lte/model/lte-rlc-um.cc` | transmission buffer, buffer status timer; VR(UR), VR(UX), VR(UH), reception buffer, t-Reordering, the SDU being put together | `DoTransmitNrSlPdcpPdu`, `DoNotifyNrSlTxOpportunity`, `ExpireNrSlRbsTimer`, `DoReceiveNrSlRlcPdu`, `NrSlReassembleAndDeliver`, `ExpireNrSlReorderingTimer` |
| PHY transmit queues | `contrib/nr/model/nr-phy.cc` | PSCCH burst, PSSCH burst | `SetPscchMacPdu`, `SetPsschMacPdu`, `Pop...` |
| UE PHY, sidelink slots and receptions | `contrib/nr/model/nr-ue-phy.cc` | `m_slRxGrants`, var-TTI allocations | `StartSlot`, `SaveFutureSlRxGrants`, `SendSlExpectedTbInfo` |
| resource pool | `src/lte/model/nr-sl-comm-resource-pool.cc` | pool description | `GetNrSlCommOpportunities`, reservation periods |
| slot arithmetic | `contrib/nr/model/sfnsf.cc` | frame, subframe, slot | `Add`, `operator<`, `Normalize` |
| gNB net device, E2 termination, RIC messages | `contrib/nr/model/nr-gnb-net-device.cc`, `contrib/oran-interface/model/` | message fragments, the flag that holds the simulation | `BuildAndSendReportMessage`, `PauseSimulation`, `DecodeRicControlMessage`, `ControlMessageReceivedCallback` |
| event queue across threads | `src/core/model/default-simulator-impl.cc` | events, `m_eventsWithContext` | `ScheduleWithContext`, `ProcessEventsWithContext`, `ProcessOneEvent` |
| test script | `test.py` | input and output queue, worker threads, `thread_exit`, counts, results | `run_tests`, `worker_thread.run`, `run_job_synchronously`, `sigint_hook` |
| visualizer | `src/visualizer/visualizer/core.py`, `src/visualizer/model/pyviz.cc` | `go`, `quit`, `lock`, pause messages, samples, update timer | `SimulationThread.run`, `update_view_timeout`, `update_model`, play, speed and quit, `SimulatorRunUntil` |
| Python bindings | `src/*/bindings/modulegen__gcc_*.py` | none | generated registration of the C++ interface |
| RRC, BWP manager, spectrum PHY, Uu link | several | configuration, radio channel | not part of sidelink scheduling |

How they interact, for one packet.  PDCP gives an SDU to RLC
(`DoTransmitNrSlPdcpPdu`), which reports its buffer through the MAC to the
scheduler.  `NrUePhy::StartSlot` calls `DoNrSlSlotIndication`.  Its first loop
asks the scheduler for resources for every destination whose re-selection
counter is zero: the MAC computes the candidate slots, the scheduler picks up
to `SlMaxTxTransNumPssch` of them, subtracts what it assigned from its buffer
status and returns them; the MAC repeats them over ten times the re-selection
counter reservation periods.  Its second loop looks for grants whose first slot is the
current one: for new data it takes a sidelink process, tells RLC the
opportunity, and RLC hands a PDU back through `DoTransmitNrSlRlcPdu` into the
process's buffer; for a retransmission it takes the TB from that buffer.  With
the last transmission it releases the process and decrements the counters.  TB
and SCI go into the bursts of the PHY, which are popped in the same slot.

What is hard about it: the check for a free process and its use are several
slots apart; grants live over tens of periods and are re-armed, with three
counters that must agree with the number of slots left; only the first slot of
a grant is ever compared with the current slot; a grant may be wasted because
RLC had nothing to send, in the first transmission only or in all of them; the
scheduler works on a stale picture of the RLC buffer; the SCI announces slots
computed from what is left of the grant; the sensing window is trimmed while it
is walked, with unsigned slot numbers; RLC orders PDUs modulo 1024; the answer of
the xApp races the pause that waits for it; the view runs its main loop inside a
callback.  `PROJECT.json` lists these hazards with their lines.

What makes the components correct:

* HARQ entity: no process is lost or held twice.
* slot handler: no abort is reached; the counters agree with the slots; no slot
  goes by; a TB in flight is finished; every TB is announced to its receivers;
  one TB per slot; data is eventually served.
* sensing: the window is kept, outdated entries go, a slot that a neighbour
  announced is excluded, one that is free is offered, the draw of sub-channels ends.
* ORAN_SELECTED: a slot the xApp granted is used once, retransmissions find the
  process of their TB, a process is held only while one is to come.
* UE PHY: an announced reception is expected in its slot, and none that is not sent.
* RLC UM: an SDU arrives whole, in order and at most once; what was received is
  delivered in the end.
* E2: a fragmented control message is put together once; the simulation does not
  move on before the schedule is there, and is not held for good.
* test script: every job comes back once, the script ends, exit status 0 means
  that all went well, and the file of results says the same as the status.
* visualizer: no pause message is lost, pausing stops the simulation, quitting
  ends.

## 2. Modules

| module | models |
|---|---|
| `NrSlUeMacHarq` | the HARQ entity; each method is an operator on its value, each abort condition an operator of its own |
| `NrSlGrant` | the grant of a destination and the pure functions around it: slot choice of the scheduler, `CreateGrantInfo`, `FilterTxOpportunities` with the real `operator<` of `NrSlSlotAlloc`, `ComputeGaps` |
| `NrSlUeMac` | the transmit side of one UE: slot handler, scheduler, RLC, PHY bursts |
| `MCNrSlUeMac` | `NrSlUeMac` for TLC, with the symmetry of the destinations |
| `NrSlUeMacProofs` | theorems about `NrSlUeMac` |
| `NrSlXappSchedule` | abstract: what a vehicle promises to an xApp, a schedule that is replaced by the next one and of which no slot goes by unused |
| `NrSlOran` | ORAN_SELECTED: `V2xE2Scheduling`, the branch of the slot handler that looks up the xApp's grants, the transmission loop on them; composed with `NrSlUeMacHarq` |
| `MCNrSlOran` | `NrSlOran` for TLC |
| `NrSlOranProofs` | theorems about `NrSlOran`, the refinement of `NrSlXappSchedule` among them |
| `NrSlRxGrants` | the receiving side: the FIFO of announced retransmissions in `NrUePhy` and the TBs `NrSpectrumPhy` expects in a slot |
| `MCNrSlRxGrants` | `NrSlRxGrants` for TLC |
| `NrSlRxGrantsProofs` | theorems about `NrSlRxGrants` |
| `NrSlSubCh` | the sub-channels the scheduler takes in the selected slots |
| `NrSlSensing` | sensing: the list of SCIs heard, its window, the exclusion of candidates and the threshold loop; composed with `NrSlSubCh` |
| `RlcUmService` | abstract: what RLC UM promises, SDUs in order and at most once |
| `NrSlRlcUm` | RLC UM from sender to receiver over a channel that loses, duplicates and reorders; implements `RlcUmService` |
| `E2Control` | simulator thread and E2 thread: report, pause, control messages in fragments, grants through the event queue |
| `TestRunner` | main thread, worker threads and signal handler of `test.py` |
| `Visualizer` | simulation thread and view thread with its main loop |
| `NrSlSensingProofs`, `NrSlRlcUmProofs`, `E2ControlProofs`, `TestRunnerProofs`, `VisualizerProofs` | theorems about the modules they are named after |
| `MCNrSlSensing`, `MCNrSlRlcUm`, `MCE2Control`, `MCTestRunner`, `MCVisualizer` | these for TLC |

State of `NrSlUeMac` and the code: `grantInfo` is `m_grantInfo`, `harq` the
HARQ entity, `destinations` is `m_sidelinkTxDestinations`, `txBuffer` and
`rbsTimer` the RLC entities, `txQueueSize` the scheduler's buffer status,
`pscch` and `pssch` the bursts of the PHY, `indicated` what the last SCI 1-A to
a destination told its receivers, `halted` an abort.

The slot handler is one event of the simulator.  The model runs it in steps,
one per iteration of its loops (`SlotIndication`, `Select`, `SelectDone`,
`TransmitNew`, `TransmitAgain`, `NothingDue`, `TransmitDone`, `PhySlot`), and
nothing else is enabled in between.  Between two slots packets arrive
(`TransmitPdcpPdu`), the timer expires (`ExpireRbsTimer`) and destinations are
added (`AddNrSlLc`).  `NS_ABORT_MSG_IF` and `NS_FATAL_ERROR` set `halted`;
`NS_ASSERT` is compiled out of optimized builds, so the model goes on past it.

State of `NrSlOran` and the code: `xapp` is `m_grantInfoXapp`, `grantInfo` is
`m_grantInfo`, which this mode clears in every slot, `harq` the HARQ entity;
`received` (the last message), `used` (destinations served in the slot) and
`disturbed` (destinations a message came too late for or took a retransmission
from, or whose slot went by for want of a process) are history for the properties.  `Receive` is the whole way of a control message
from `ControlMessageReceivedCallback` to the UE MAC; `SlotIndication`,
`Select`, `SelectDone`, `NothingDue`, `TransmitNew`, `TransmitAgain` and
`TransmitDone` are the slot handler, in steps as above.  `Ended` stutters after
the last slot or an abort.

State of `NrSlRxGrants` and the code: `rxGrants` is `m_slRxGrants`, `expected`
is `m_slTransportBlocks`; `announced` and `sent` say what the senders have
announced and sent.  `lost` is history: once an announcement was for a slot that
another sender's earlier one had reached or passed, it holds everyone who announced
since.  `StartSlot` drops what was expected and moves the front of
the FIFO when its slot is the current one, `PhyPscchPduReceived` handles a
decoded SCI 1-A, `RxSlPssch` the reception of data.

State of `NrSlSensing` and the code: `sensingData` is `m_sensingData`, `now` the
slot; `heard` is history.  `HearSci` is the reception of an SCI 1-A,
`OtherSlot` and `SidelinkSlot` are slots without a selection (only sidelink
slots call `UpdateSensingWindow`), `SelectingSlot` is one in which
`GetNrSlTxOpportunities` and `DoNrSlAllocation` run; `txOpps` and `alloc` are
their outcome.

State of `NrSlRlcUm` and the code: `txBuffer` is `m_txBuffer`, `rx` holds the
fields of the receiver (`vrUr`, `vrUx`, `vrUh`, `buffer`, `expected`, `state`,
`keepS0`, `sdus`), `air` the PDUs on their way.  `DoTransmitNrSlPdcpPdu`,
`DoNotifyNrSlTxOpportunity`, `Receive` (with `DoReceiveNrSlRlcPdu` in its parts)
and `Expire` are the handlers, `Lose` and the choices of `Receive` the channel.
`DataField` is the loop that fills a PDU: `Room` is what is left when a piece is
considered, and the loop stops at the first piece that does not leave more.
`Deliver` is the body of the loops that empty the reception buffer, `DeliverAll` the
walk over a run of sequence numbers that both of them make.

State of `E2Control` and the code: `pause` is `m_pauseSimulation`, `events` what
the scheduler holds for the current time, `withContext` is
`m_eventsWithContext`, `remaining` is `m_xappRemainingData`, `out` the grants
the E2 thread is about to schedule, `stream` the octets the RIC has sent.
`Report` and `ReportEnds` are the two sides of the sleep in
`BuildAndSendReportMessage`; `PauseSimulation`, `SendSchedulerDataToTrace` and
`Advance` are the events; `Receive` and `ScheduleWithContext` are the E2 thread.
`owed`, `decoded` and `apart` are history.

State of `TestRunner` and the code: the two queues, `thread_exit`, the counts
(`tally`, `total_tests`), the temporary result files and the entries of the XML
file; `worker` says where each thread is and which job it holds, `main` where
the main thread is.  Each get, put, look at the flag and run of a process is an
action, so that the signal can fall between any two.  `Start` ends the script for
a suite that does not exist.  `files` says what the temporary file of a suite
claims, which is copied for return codes 0, 1 and 2 alike; `ran`, what became of a
process, is history.

State of `Visualizer` and the code: `go`, `quit`, `locked`, `pause_messages`,
`timerId` (`_update_timeout_id`), `playing`; `timers` are the sources that exist
in GLib, `spins` the activations of `update_view_timeout` nested in each other.
`Sim*` are the lines of `SimulationThread.run`, the other actions what the main
loop dispatches; `late`, `lost` and `unshown` are history.

Abstractions of `NrSlUeMac`.

* A slot is its distance from the current one, so the model is finite although
  slots go on; slots that have passed keep the value -1.
* Sizes are counted in SDUs; `TbSize` of them fit in a TB.
* Sensing returns any subset of the selection window.  This covers every result
  of the real procedure (`NrSlSensing`), and more, so safety carries over.
* The random choices (slots, re-selection counter, keep or not) are
  nondeterministic.  `CReselFactor` is 10 in the code; it is a constant so that
  TLC can use a smaller one, and the proofs hold for all.
* One logical channel per destination; `NrSlUeMacSchedulerSimple` allocates
  nothing else.
* `ComputeGaps` casts gaps to `uint8_t`, of which 255 stands for no
  retransmission: gaps are taken modulo `GapMod` (256 in the code), and the
  greatest value is `NoGap`.

Abstractions of `NrSlOran`.

* Slots are numbered up to `SimTime`, the end of the simulation.  Any number of
  messages may come between two slots.
* A message orders whole TBs: for a destination a multiple of `NSelected`
  slots, the first of each group for new data.  All grants of a run have the
  same `nSelected` and `tbTxCounter`.  Messages for other vehicles are
  returned from at once and do not occur.
* Allocations use the same symbols of every slot, which makes two of them for
  one slot equivalent for `operator<`.
* Whether RLC has data at an opportunity is nondeterministic.  The bursts of
  the PHY and the SCI are left out.

Abstractions of `NrSlRxGrants`.

* Slots are distances from the current one; -1 stands for all that have passed.
* The senders are the environment.  They behave as `NrSlUeMac` does: a TB is
  finished before the next one starts, the second gap is longer than the first,
  a retransmission that was announced is sent (`TbIsFinished`).  An SCI 1-A that
  is lost does not occur: the receiver does nothing about it.
* Nothing relates the slots of different senders: announcements may cross or be
  for the same slot.  `MaxRxGrants` bounds the FIFO, which grows without end once
  its front is stuck.

Abstractions of `NrSlSensing`.

* `now` counts slots without end; the code sees `Normalize`, modulo `SlotMod`.
* A sender says the same in each of its SCIs (`Sci`: period, sub-channels, RSRP,
  gaps), and is heard or not in any slot.  Periods are multiples of the pool's
  length.  The conversions between milliseconds and slots are parameters.
* The loops over the announced transmissions are left out: all transmissions of
  an SCI have its RSRP and the set of occupied sub-channels only grows, so an SCI
  erases a candidate exactly when it meets it and the set is complete after it.
* A read beyond the end of a list is undefined behaviour; the model stops there.
  Incrementing the end iterator of a libstdc++ list leads to its beginning.

Abstractions of `NrSlRlcUm`.

* A piece of an SDU is its first and last octet, a header the status of its
  pieces.  The reports (buffer status, delays) are left out.
* The channel lets a PDU be overtaken by `MaxLate` others, at most `MaxWaiting`
  arrive while t-Reordering runs, and `MaxFaults` losses and duplicates occur.

Abstractions of `E2Control`.

* Simulated time is `now' (the sequence of events) and `later' (`Advance`).
* A message is `MsgLen` octets, delivered in order and cut anywhere into PDUs
  (SCTP keeps the order).  `asn_decode` is external: it takes a complete message
  or nothing.

Abstractions of `TestRunner`.

* A process ends with 0, 1, 2 or by a signal, and may print what cannot be
  decoded; whether it has written its result file follows from that.
* Command line options are chosen in the initial state.  A name given is the set
  it matches: `--suite` and `--example` are patterns, `--pyexample` is one name, and
  each may match nothing.  Building, configuration and output formats are left out.
* `DoRun` and `PythonBindings` stand for the conditions under which an example that
  was not named is run, and a Python example is not skipped.

Abstractions of `Visualizer`.

* Of simulated time only matters whether `target_time` is ahead; of the samples
  of a period whether there are any and whether they have been read; pause
  messages are counted.
* GLib is external: idle callbacks of update_model go first, timers last, and a
  source is not dispatched inside itself.

## 3. Runs

| run | instance | checks |
|---|---|---|
| `one_destination` | 1 destination, 2 processes, up to 3 transmissions per TB, SCI 1-A every second, no sensing, liveness | `TypeOK`, `EveryTbIsIndicated`, `DataIsServed`, `ProcessIsReleased` |
| `two_destinations` | 2 destinations and processes, up to 2 transmissions, sensing | `NeverAborts`, `ProcessesAccountedFor`, `GrantNeverRunsDry`, `NoMissedSlot`, `TbIsFinished` |
| `scarce_processes` | 2 destinations, 1 process, sensing | `ProcessesAccountedFor` up to the abort and in it |
| `one_tb_per_slot` | as `two_destinations` | `OneTbPerSlot`: violated |
| `oran_schedule` | 2 destinations and processes, 4 slots, one transmission per TB, messages in time and for one destination each | `FollowsSchedule` (refinement of `NrSlXappSchedule`) |
| `oran_retransmissions` | 2 destinations and processes, 3 slots, two transmissions per TB, late messages | `AbortForWantOfProcess`, `ProcessHeldForReTx`, `StarvedForGood` |
| `receptions` | 3 senders, gaps up to 4, announcements in any order, a FIFO that takes SCIs up to 5 entries | `AnnouncedIsExpected`, `ReceiverNeverAborts`, `FifoIsAhead` |
| `sensing_avoids` | a strong and a weak sender, two sub-channels, a pool of two slots in three, 10 slots with a sensing window of 6 | `WindowKept`, `StaleIsShortLived`, `AnnouncedIsAvoided`, `StrongIsExcluded`, `FreeIsOffered`, `DrawEnds` |
| `rlc_um` | 5 SDUs of three octets in up to 15 PDUs, 8 sequence numbers, window 4, a loss or duplicate, PDUs overtaken by two | `SduIsIntact`, `NoImpossibleTransition`, `ImplementsService` (refinement of `RlcUmService`), `BufferDrains` |
| `e2_pause` | 2 reports, answers of three messages, one message for another simulation, messages of three octets | `Reassembled`, `MovesOnWithSchedule`, `ResumedByOwnAnswer`, `PauseEnds` |
| `test_runner` | 2 workers, 2 suites, an example and a Python example, no Python bindings; no name, names of one kind that match nothing, one or several, a suite together with an example; constraints; with and without valgrind | `EveryThreadReturns`, `NoJobLost`, `ZeroMeansAllWell`, `ResultsAgree`, `RunEnds` |
| `visualizer_threads` | 4 user events, 2 pause messages | `NoMessageLost`, `PauseComesToRest`, `QuitEnds`, `MessageIsShown` |

The type invariants of the other modules hold on the same instances; they are
not among the properties of the runs.

Bounds.  Two destinations are enough for every pairwise interference between
grants; their runs have a window of two slots and a period of three.  With one
destination three slots of window and four of period leave room for a TB with
three transmissions and a gap.  Re-selection counters 1 and 2 with factor 2
give grants that are exhausted, kept and re-selected with and without slots
left.  A buffer of two SDUs (one with two destinations) and TBs of one give the
cases empty, one TB, more than one TB and full.  Four slots and messages of any
set of them give an xApp that reschedules before, between and after the slots
of its last message; in `oran_retransmissions` three slots do, with a TB of two
transmissions and a slot that has passed; two processes run out there, both at once
in a slot in which two destinations are due, and one after the other when their
retransmissions were taken back.  In `NrSlRxGrants` gaps of four let the two
retransmissions of a sender enclose, precede or meet those of another, and a third
sender is announced after the FIFO is blocked.  In `NrSlSensing`
ten slots let an SCI be heard, age through the window of six and be erased late,
with selections at any time; two sub-channels and a strong and a weak sender give
candidates that are free, partly occupied and excluded at different thresholds.
In `NrSlRlcUm` opportunities of three and nine octets cut an SDU in three or pack
parts of three into a PDU; the sequence numbers wrap around once or twice, and a
length indicator limit of two makes whole SDUs too long for one.  One fault and
an overtaking by two make gaps that are filled in time, after the timer and
never; with more faults the window moves past waiting PDUs, which is the finding
below.  In `E2Control` the answer to the second report may come while the first
is still being applied.  In `TestRunner` one worker may hold a job while the
other takes its special one; in `Visualizer` four events are enough to nest the
main loop twice and to quit inside it.

Fairness (`FairSpec`, used for `DataIsServed` and `ProcessIsReleased`): weak
fairness of the steps of the slot handler and of the timer.  `NrUePhy` schedules
the next slot at the end of each slot and the simulator executes every event
that is due, so slots follow one another for ever and a running timer expires.
No fairness is assumed of packets or of a random draw.  The liveness run is
without sensing: with it the candidate set may be empty in every slot, and
nothing in the code prevents that.

`NrSlRlcUm`: the timer expires when it is running, being an event of the
simulator; the fairness of `Expire` is written out, since it is enabled exactly
while the timer runs.  Nothing is assumed of the channel or of the sender.
`E2Control`: both threads are scheduled and what the RIC has sent arrives.
`TestRunner`: threads are scheduled and processes end; no fairness of the
signal.  `Visualizer`: threads are scheduled and timers fire; none of the user.

## 4. Findings

* `one_tb_per_slot`.  `FilterTxOpportunities` is to remove the slots that
  belong to existing grants.  It looks up an allocation with default symbol
  fields (65535, 65535); `operator<` then orders it strictly after any real
  allocation of the same slot, and `find` never succeeds.  Two destinations are
  granted the same slot, and two SCI 1-A and two TBs go into bursts that the
  PHY asserts hold one.

The modules reach further disagreements between the code and its comments.
Each has a configuration of its own, which TLC ends with a counterexample to the
property named (`tlc -config <configuration> <module>`, with `-continue` for
`MCTestRunner_said.cfg`, which names four); they are not among the runs above.

| configuration | property | what the code does |
|---|---|---|
| `MCNrSlUeMac_few.cfg` | `NeverAborts` | With fewer processes than destinations the slot handler aborts in `AssignNrSlHarqProcessId`, though it asks for resources only while a process is free: the check is made when resources are selected, the process is taken slots later. |
| `MCNrSlOran_multi.cfg` | `MessageIsStored` | In a message for several destinations an allocation to one that is not known yet makes `V2xE2Scheduling` emplace the whole message under the destination of its *first* allocation.  When that one is known nothing is inserted, and the allocation is lost. |
| `MCNrSlOran_late.cfg` | `ExtractedIsUsed` | The whole stored grant is copied when one of its slots is the current one, and the transmission loop compares only the first slot of the copy.  A slot that had passed when its message arrived stays first for good. |
| `MCNrSlUeMac_gap.cfg` | `EveryTbIsIndicated` | A gap is cast to `uint8_t` (`nr-ue-mac.cc:2123`) although T2 has 16 bits: beyond 255 slots the SCI 1-A announces another slot, or none.  The instance has gaps modulo 3. |
| `MCNrSlOran_pool.cfg` | `OccupiedForReTx` | "the assigned HARQ id will be occupied until all the grants for this slot and it ReTxs are exhausted" (`nr-ue-mac.cc:1897`).  A new message may erase the retransmission of a TB in flight, whose process then stays taken; and retransmissions, which free processes, are looked up only while a process is free (`nr-ue-mac.cc:1810`). |
| `MCNrSlRxGrants_mixed.cfg` | `EveryAnnouncedIsExpected` | `SendSlExpectedTbInfo` looks at the front of the FIFO only.  When announcements of two senders cross, the earlier TB is not expected and the front is never removed. |
| `MCNrSlSensing_start.cfg` | `WindowKept` | `sfn.Normalize () - sensWindLen` is unsigned (`nr-ue-mac.cc:1620`): in the first slots every entry looks outdated. |
| `MCNrSlSensing_trim.cfg` | `TrimIsDefined` | When all sensing data is at most Tproc0 old, `crbegin` of an empty list is dereferenced (`nr-ue-mac.cc:1396`). |
| `MCNrSlSensing_none.cfg` | `NoneMeansAllOverlap` | The threshold is compared with 0 dBm before the candidates of the round are counted (`nr-ue-mac.cc:1501`), so the last round is dropped whatever it found; the comment says that all slots overlap then. |
| `MCNrSlSensing_period.cfg` | `AnnouncedIsAvoided` | A sender with a period shorter than the sensing window, heard early in it, is projected to slots before the selection window only (`nr-ue-mac.cc:1535`). |
| `MCNrSlRlcUm_wrap.cfg` | `VrUrNotReceived` | The search for the next missing sequence number is done with a `uint16_t` (`lte-rlc-um.cc:1728`) and stops at 1024, so VR(UR) becomes 0 even when 0 has been received. |
| `MCNrSlRlcUm_outside.cfg` | `ImplementsService` | `NrSlReassembleOutsideWindow` walks the map in numerical order and stops at the first number inside the window (`lte-rlc-um.cc:1794`); when the window wraps around, older PDUs stay and are delivered a cycle later. |
| `MCE2Control_packed.cfg` | `ScheduleIsThere` | `m_lastReport` belongs to a PDU: a grant decoded together with the last report ends the pause, and the others may not have been applied (`nr-gnb-net-device.cc:270`). |
| `MCE2Control_plmn.cfg` | `ReportIsOwn` | The last report of another PLMN in the same PDU does so too (`ric-control-message.cc:267`). |
| `MCTestRunner_said.cfg` | `ResultFileExists` | Output that cannot be decoded turns a crash into return code 1 (`test.py:805`), for which the main thread opens a result file that was never written. |
| `MCTestRunner_said.cfg` | `ConstrainedToPyExamples` | `--constrain=pyexample` is a type the test-runner does not know; the lines of its complaint are run as suites (`test.py:1326`). |
| `MCTestRunner_said.cfg` | `ZeroMeansItRan` | `--example` or `--pyexample` with a name that is not built or not runnable prints a message, runs nothing and ends with status 0 (`test.py:1536`, `test.py:1636`); an unknown `--suite` ends with 2. |
| `MCTestRunner_said.cfg` | `ValgrIsReported` | For a suite that passes but fails valgrind the comment promises a PASS entry followed by a VALGR entry of the same name (`test.py:1796-1800`).  The code copies the suite's own file, the PASS entry, and nothing else (`test.py:1809`); only the exit status tells. |
| `MCVisualizer_seen.cfg` | `EveryPeriodIsSeen` | A `go` set while the thread is running starts the next run before `update_model` has read the samples, which are cleared (`core.py:676`). |
| `MCVisualizer_timer.cfg` | `PausedStopsTimer` | A change of speed inside the nested main loop makes a second timer, whose id the outer activation then forgets (`core.py:1454`). |

Where the xApp keeps to one destination per message, sends in time and orders no
retransmissions, `oran_schedule` shows that the vehicle implements the abstract
schedule.  Where it does order them, `oran_retransmissions` says what is left: a
process stays taken only for the causes `disturbed` records (`ProcessHeldForReTx`),
the only abort is new data for which another destination took the last process in
the same slot (`AbortForWantOfProcess`), and a vehicle that ends a slot without a
free process never transmits again (`StarvedForGood`), which is the deadlock of
`nr-ue-mac.cc:1810`.  In the same way `receptions` says how far the front of the FIFO
carries: a retransmission is expected in its slot exactly if no announcements crossed
up to its own.

## 5. Proofs

`NrSlUeMacProofs` proves, for every set of destinations, number of processes,
window, period, number of transmissions and counters allowed by the named
assumptions of the modules:

* `TypeCorrect`: `Spec => []TypeOK`;
* `ProcessesSafe`: `Spec => []ProcessesAccountedFor`, aborts included;
* `GrantsSafe`: `Spec => []GrantNeverRunsDry`;
* `TbsFinish`: `Spec => TbIsFinished`;
* `TbsAreIndicated`: `Spec => []EveryTbIsIndicated`, missed slots, wasted grants and
  aborts included, if `WindowFits`: the selection window is shorter than the longest gap
  of eight bits, T2 - T1 < 255 (`MCNrSlUeMac_gap.cfg` shows that this is needed);
* `NoAbort` and `NoSlotMissed`: `NeverAborts` and `NoMissedSlot` hold when there
  is a process for every destination and blind retransmissions are enabled.
  `MCNrSlUeMac_few.cfg` shows that the first condition is needed.

The argument.  None of these properties is inductive alone.  `IInv` is the
conjunction of `TypeOK`, `GrantsOK`, `ProcessNamed` and `Accounted`.
`GrantsOK` has three parts.  The counters: `cReselCounter` is
`slResoReselCounter` and a multiple of `prevSlResoReselCounter`, so keeping the
resources is possible exactly as often as there are slots left.  The TB: how
many of its transmissions have been made.  The slots: those left in a grant are
the tail of the sequence that `CreateGrantInfo` made, and their number is what
`cReselCounter` still calls for less the transmissions made.  `ProcessNamed`
ties the id in a grant to the process of a TB in flight and `Accounted` the free
list to the entries.  With `IInv` the guard of each branch of the transmission
loop determines which transmission of the TB it is, hence whether the process
is released.  `TimingInv`, under the two conditions, adds that slots in a grant
strictly increase and that the first lies ahead, or is the current one while
its destination has still to be visited; no destination then holds two
processes, so one is free for each new TB.

`TbsAreIndicated` needs neither condition on processes and retransmissions, because a TB in flight is never
overtaken by time.  `IndicationInv` says so (`Punctual`: the slots of a grant lie
ahead unless its first slot was missed, and they do while a TB is in flight), and
that, if the process holds a packet, the slots up to the next SCI 1-A are among those
the last one indicated (`Announced`).  `GapsCover` shows that an SCI 1-A establishes
this.  The positions `ComputeGaps` reads are 1, 2, 4, 7 and so on, and they are the
next slots only because `MaxNumPerReserve` is at most 3; with 4 the lemma is false.  The
gaps survive the cast because the slots of one TB lie in one selection window.

`NrSlRxGrantsProofs` proves, for every set of senders, every longest gap and every order
of announcements, `TypeCorrect`, `AnnouncedSafe`, `ReceiverSafe` and `FifoSafe`
(`AnnouncedIsExpected`, `ReceiverNeverAborts` and `FifoIsAhead` always hold).  Its inductive
invariant adds `ExpectedIsSent`, that a TB is expected only if it was announced for the
slot or in it, and `Sorted`.  An entry of the FIFO is orderly if its slot is ahead and its
sender not in `lost`.  `Sorted` says that the orderly entries come first, the earliest
slot at the front, and that the entry behind them is not the front in its own slot, so
that it stays and nothing behind it is expected.  There is such an entry exactly after
announcements have crossed.

`NrSlOranProofs`, for every set of destinations, number of processes, length of
the run and number of transmissions per TB:

* `PoolSafe`: `PoolConsistent` always holds, whatever the xApp orders, late
  messages and aborts included.  `IInv` is `Types`, `Processes` (a process is free
  with an empty entry or belongs to a destination, and free ids are distinct) and
  `Pending` (each grant extracted and still to be visited is as the xApp made it,
  has an allocation of its destination in the current slot and, for a
  retransmission, names a process of that destination).
* `AbortIsExhaustion`: with blind retransmissions `AbortForWantOfProcess` holds; the
  invariant adds that a process is free until a grant of the slot is used.
* `StarvationIsFinal`: `Spec => StarvedForGood`, whatever the xApp orders.
* `NoAbort`: there is none if, besides, `ProcessesEnough`: no retransmissions, or
  one destination, or a process for each destination and slot of the run.  The last
  is what the code really needs: a process whose retransmission was erased by a new
  message is never freed (`MCNrSlOran_pool.cfg`), so the pool shrinks by up to one
  process per destination and slot.  The proof is a budget: free processes and
  transmissions still possible together never fall short.
* `ImplementsSchedule`: `Spec => FollowsSchedule` if `NSelected = 1`, a message is
  for one destination and none is late.  The invariant behind it says that the
  stored grant of a destination holds the slots of its last message that have not
  passed, and that a copy in `grantInfo` has the current slot first.  Each of the
  three conditions has its counterexample in section 4.

`NrSlSensingProofs`, for every set of senders and what they announce, every pool,
window, period, threshold and number of sub-channels:

* `TypeCorrect`: the list stays in the order of its slots, whatever is erased.
* `WindowIsKept`: `WindowKept` holds if `NumbersDoNotWrap`, that is the run begins
  no earlier than a sensing window after slot 0 (`MCNrSlSensing_start.cfg`) and ends
  before the frame number wraps.  The loop of `UpdateSensingWindow` is a recursive
  function on lists; the proof first shows that it has a solution (a pass that goes
  round leaves fewer entries), then that a pass erases only what looks outdated.
* `StrongAreExcluded`: `StrongIsExcluded` holds if also `ProjectedFarEnough`: the
  periods that `GetFutSlotsBasedOnSens` projects cover T2
  (`MCNrSlSensing_period.cfg` shows what happens otherwise).  The last strong entry
  that meets the candidate finds all sub-channels occupied and is above every
  threshold of the loop.
* `AnnouncedAreAvoided`: under the same conditions the scheduler takes no
  announced sub-channel unless the MAC holds the whole slot for occupied.
  `AnnouncedIsAvoided`, which allows this only if the whole slot is announced, is
  not true for all constants: repetitions of the candidate and outdated entries also
  count as occupied.  It is checked on the instance of `sensing_avoids`, which meets
  both conditions.
* `FreeAreOffered`: `FreeIsOffered` holds if `NumbersDoNotWrap` and
  `ProjectionsDoNotWrap` (the slots to which candidates and SCIs are projected do not
  wrap either).  A slot is erased by an SCI that found all sub-channels occupied; what it
  found goes back to the SCIs sensed.  The threshold only grows, so the SCI was above the
  initial one.
* `DrawAlwaysEnds` (`DrawEnds`), without conditions.

`NrSlRlcUmProofs`, for any number and sizes of SDUs, any transmission opportunities,
limits of the buffer and of the length indicator, and any number of turns of the
sequence numbers:

* `SdusIntact`: `Spec => []SduIsIntact`;
* `TransitionsPossible`: `Spec => []NoImpossibleTransition`;
* `RlcImplementsService`: `Spec => ImplementsService`, the refinement of
  `RlcUmService`.

They assume `WindowSuffices`: the window is at most half of the sequence numbers, and
at least 2 (`MaxWaiting` + 1) + `MaxLate` + `MaxFaults` wide.  The code has 512 of 1024,
so that about 250 PDUs may arrive during t-Reordering.  Without a condition the
theorems are false: `MCNrSlRlcUm_outside.cfg` has the window overrun and a PDU
delivered a cycle later.  `RlcInv` does not speak of sequence numbers alone.  There is a
record of all PDUs sent, and there are numbers U, H and X without modulus that VR(UR),
VR(UH) and VR(UX) stand for.  Its parts:

* `SentOK`: the PDUs sent and what is left in the buffer are one stream of pieces, cut
  only where the status of the pieces says so;
* `AirOK`: what is in flight is in order and not far behind H;
* `WindowOK` and `TimerOK`: the reception buffer holds PDUs from U to H, the topmost
  among them, and t-Reordering runs exactly if U < H;
* `CountOK`: the reception buffer holds at most as many PDUs as arrived in this run of the
  timer and the one before it, and at most `faults` numbers from U on are neither received
  nor in flight;
* `ReassemblyOK`: what `m_keepS0` holds is the beginning of an SDU, the stream goes on at
  U where it stops, and every later piece is of an SDU after the last one delivered.

From `CountOK` and `AirOK` follows that U to H fits into the window (`InsideWindow`, a
covering of the interval by three small sets), also after the next PDU
(`StaysInWindow`).  Then every comparison of sequence numbers is one of the numbers they
stand for (`OffsetFromBase`), `NrSlReassembleOutsideWindow` finds nothing, PDUs are
delivered in increasing order (`WalkDelivers`), and a PDU is joined with `m_keepS0` only if
it is the next one.  A sequence number that equals `m_expectedSeqNumber` a cycle later is
excluded by the same bound.

`E2ControlProofs`, for any answers of the xApp, any number of reports and of
messages for other simulations, and messages of any length cut anywhere:
`StreamIsReassembled`, `WaitsForSchedule` and `OwnAnswerResumes`
(`Reassembled`, `MovesOnWithSchedule` and `ResumedByOwnAnswer` always hold; the last two
speak of runs in which no PDU completes two messages, `apart`).  The lemmas say that decoding the encoding of messages gives the messages, also when an
incomplete one follows, and that a buffer cut anywhere is decoded to the same
messages.  `IInv` has four parts: what is stored and what is on the way are together
the encoding of messages (`Framed`); the messages of this simulation are numbered in
the order sent (`InOrder`); where the simulator thread is (`Modes`); and as long as no
PDU completes two messages, events, events of the other thread, grants being
scheduled and messages on the way form one queue in which everything owed is found
and the last grant comes last (`Waiting`).  The condition `apart` belongs to the
properties: `MCE2Control_packed.cfg` and `MCE2Control_plmn.cfg` show that it is needed.

`TestRunnerProofs`, for any number of workers and any jobs: `ThreadsReturn`,
`JobsKept`, `ZeroIsTrue` and `FileAndStatusAgree` (`EveryThreadReturns`, `NoJobLost`,
`ZeroMeansAllWell`, `ResultsAgree`).  `IInv` says that each job is in one place, that
break signals, breaks still to be put and threads that have ended add up to the
threads, that no break precedes a job in the queue, that results, files and entries
tell what became of the processes (`Truth`), and that the counts of passed and skipped
jobs are the number of entries that say so (`Tallies`).

`VisualizerProofs`, for any number of user events and pause messages:
`MessagesKept` and `ComesToRest` (`NoMessageLost`, `PauseComesToRest`).  `IInv` ties `go`
to where the simulation thread is and to how many periods it may still simulate.

Induction over lists and numbers.  The provers cannot instantiate the induction
theorems of the library.  Where a proof needs induction, `Least` derives a least
element from the well-foundedness of the naturals, `SetInduction` states induction as
a property of sets, and each recursive function is shown to have a solution before
its equation is used.

Only model-checked:

* the liveness properties (`DataIsServed`, `ProcessIsReleased`, `BufferDrains`,
  `PauseEnds`, `RunEnds`, `QuitEnds`, `MessageIsShown`), which need fairness and
  ENABLED and are out of the prover's reach;
* `ProcessHeldForReTx` (`NrSlOran`), which follows a process from its message to its last
  retransmission through messages that come in between;
* `StaleIsShortLived` and `AnnouncedIsAvoided` (`NrSlSensing`): the first counts the
  entries that become outdated between two sidelink slots, which depends on how the
  sensing window lies in the pool; the second is true of the instance only;
* in `NrSlRlcUm` the overrun of the window: the theorems need `WindowSuffices`, and the
  instance of `rlc_um`, whose window is narrower, shows what happens near the limit.

## 6. Plan

Done, in the order of their weight for sidelink scheduling: `NrSlUeMacHarq`,
`NrSlGrant`, `NrSlUeMac` and their proofs; `NrSlRxGrants` and its proofs;
`NrSlXappSchedule` and `NrSlOran`; `NrSlSensing` with `NrSlSubCh`; `NrSlRlcUm` with
`RlcUmService`; `E2Control`; `TestRunner` and `Visualizer`.

Proved: all but what section 5 lists as only model-checked.

Left:

1. `NrSlRxGrants` composed with senders that an xApp schedules, which may take an
   announced retransmission back.
2. An abstract specification of semi-persistent scheduling (a destination has
   a reservation or none; a TB is sent a fixed number of times in reserved
   slots) that `NrSlUeMac` implements.
3. `SfnSf`: `operator<` across the wrap of the 16 bit frame number, in the ordered
   set of a grant; the selection window in milliseconds.
4. Grants with several logical channels.

## 7. Not modelled

RRC and BWP manager (configuration and forwarding), spectrum PHY, interference
and error models (real arithmetic), the Uu link (independent of sidelink
scheduling), E2 subscriptions and the SCTP connection, ASN.1 coding (third
party), what the visualizer draws, building and configuration in `test.py`.

The Python of the repository is some 794,000 lines.  All but 22,000 of them are
`modulegen__gcc_*.py`, which pybindgen generated from the C++
headers, twice per module: calls that register classes and methods, without
state, branches or order that matters.  There is nothing in them to model, so
the share of the Python lines that the modules cover stays far below one
percent.  Of what remains, `test.py` and the threads of the visualizer are
modelled; the rest is plotting, build scripts and examples, which run from top to
bottom.  The behaviour of the system is in the C++ that the other modules model.
