# A verification model of NaviSensor

NaviSensor is a Windows daemon that reads NMEA sensors (GPS, gyro, log, wind, AIS) from
serial, UDP and TCP ports, keeps the parameters they deliver, elects a master source for
each kind of parameter and broadcasts the result on the LAN, together with a table of AIS
targets. NaviSensorUI shows what is broadcast, edits the sensors' configurations and sends
the daemon commands. This directory holds TLA+ modules of both programs, TLC configurations
that check them on small instances, and proofs of what holds for every instance.

## The system

| Part | State | Operations | Code | Module |
|---|---|---|---|---|
| Sensor | its reader and processor thread, a terminal, its flags | create, start, stop, the two loops | `Sensor.cpp` | `SensorThreads` |
| Port readers | an open port, a byte queue | open, read, push, close | `SerialReader`, `UDPReader`, `TCPReader`, `Reader` | `SensorThreads`, `SentenceQueue` |
| Sentence queue | bytes, a buffer | push, pull a line, check it | `BinQueue.cpp`, `TextSensor.cpp`, `Sentence.cpp` | `SentenceQueue` |
| NMEA parsers | none, but for VDM: a message group | a sentence becomes updates | `Parser.cpp`, `GLL.cpp`, ... | `NmeaParsers`, `Decoding` |
| AIS groups | group state, bit storage | join sentences to messages | `VDM.cpp`, `SixBitStorage` | `AISGroups` |
| AIS decoding | a target's fields and flags | bits to fields | `AIS.cpp`, `SixBitStorage.cpp` | `AISPayload`, `Decoding` |
| AIS target table | targets by MMSI, the filter | add, update, replace, expire | `AISTargetTable.cpp`, `VDM.cpp` | `AISTargetTable` |
| Storages | per type and sensor a `Parameter`; per type a master id | update, elect, extract, watchdogs | `DataStorage.cpp` | `DataStorage`, `DataStorageTimed` |
| Data sender | a poll over the sensors | poll every second, broadcast | `NaviSensor.cpp` | `DataStorage`, `Display` |
| Service shell | state reported to the SCM, threads, a named event | install, start, stop, uninstall | `Service.cpp` | `DaemonService` |
| Command node, heartbeat | commands, the daemon's state | send, receive, obey | `NaviSensor.cpp`, `Network.cpp`, `LocalListener.cpp` | `Console` |
| Information window | a data node, receivers, paused or not | open, pause, close | `SensorInfoWnd.cpp` | `Console` |
| Parameter tree, lists | sources with marks and ages, rows | update, drop what is dead, draw, click | `NaviSensorUI.cpp` | `Display` |
| Configurations | a list, files by number | add, edit, delete, save, load | `SensorConfig.cpp`, `SensorPropsDlg.cpp` | `SensorConfigs` |

How they meet. A reader thread pushes bytes to its sensor's `BinaryQueue`, the processor
thread pulls lines, `NMEA::Sentence` checks them and the one `NmeaParsers` object, shared
by all sensors, calls back `Sensor::updateData`. The sender thread polls every sensor's
storage into the global one and broadcasts. Two kinds of watchdog threads age the storages.
The command node's thread changes masters and starts and stops sensors while all the others
run. The UI learns everything from datagrams and timers, and writes files that the daemon
reads. Mutexes protect the queue, each storage and the target table, but not every access:
the sensors' watchdogs and the poll use parameters outside the lock, and nothing orders a
command and the threads that use a terminal.

What is hard: these interleavings; timeouts that disagree (30 s for a sensor's parameter,
15 s for its copy); an election that depends on the order of the poll; lines that arrive in
pieces; terminals deleted under their threads; commands sent on an old state; datagrams
that are lost or come to another socket; a daemon or a UI that ends between two steps.
`PROJECT.json` lists the hazards at their lines.

How the modules meet. `DataStorage` implements `MasterElection`, and `Display` starts from
what `MasterElection` allows a broadcast to be: any set of Good sources, at most one master
of a type. What the parsers deliver is not composed with `DataStorage`:
there any sensor may deliver any type at any time. `Decoding` composes `NmeaParsers` and
`AISPayload` behind one sensor.
`Console` extends `DaemonService`; that a repeated Start loses COM ports, which `Console`
says when it happens, is shown in `SensorThreads`. `DataStorage` assumes with `TrustedUI` a
UI that names only what was broadcast; `Display` proves it, but for a restart
(`ClickableIsKnown`).

Definitions marked "Mutant" are wrong on purpose: each is the change of one definition that
the property named in `PROJECT.json` is shown to catch.

## Modules

### DataStorage, MasterElection, DataStorageTimed

`sensorStore[s][t]` and `globalStore[t][s]` hold a `Parameter` as its quality and its age in
seconds (the value is opaque), `master[t]` is `masterSourceID`; `polled`, `pending`,
`copying` and `seen` are the locals of the poll; `published` and `offered` are what the
network has seen. `writing` and `doomed` are where a sensor's threads stand between two
steps. Steps that hold a mutex are one action unless another thread looks in without it:

* `SensorDataStorage::update` is `ParserUpdateBegin` and `ParserUpdateEnd`, because
  `Parameter::assign` writes the quality before the time;
* the sensor's watchdog is `SensorWatchdogTest` and `SensorWatchdogMark`;
* the poll is `PollExtract` (pointers, under the lock), then for every extracted parameter
  `PollElect` and `PollCopy`, which read the sensor's parameter again, then `PollPublish`.
  `Parameter::assign` takes the quality (`PollRead`) before the time, so `PollCopy` may join
  an old one with a new time. `copying # NoType` is the global mutex being held;
* `PollCrash` is `params->at` throwing in an unguarded thread: the process ends (`up`).

`TrustedUI` separates two environments: a UI that sends `SelectMasterParam` only for a
source this daemon has broadcast, and one whose tree is older than the daemon, or where the
icon of a type is clicked instead of a source.

`MasterElection` is the promise: a source may become master only where there is none or none
that is good; ageing takes the mastership of exactly the masters it makes not good; a
broadcast is exactly the good sources with true master flags. `ImplementsElection` is the
refinement, with `good[t]` the sensors whose slot is Good and the report the time between
election and copy.

`DataStorageTimed` adds the pace: `PollPeriod`, `WatchPeriod` and `MaxSilence` bound the
seconds between polls, between passes of a sensor's watchdog and between deliveries of a
`Steady` sensor; `TimedTick` refuses to let a thread be late. `raced` and `masterless` are
history. `masterless` counts broadcasts only where the first source of the type in the order
of the poll is a steady one (`Standing`): a steady source that is polled after one that fades
may be passed over for as long as the fading one's age lies between the two timeouts, since
every poll takes the fading one first and then disregards it.

### SentenceQueue

A byte names its sentence, its place and its kind. `Leading`, `Stops`, `LastEnd` and `Count`
say where the scanning loop of `BinaryQueue::pull` stops; `Rest` is what its `erase` leaves,
one byte more than what was not scanned. The size of the queue is read in `ProcessorSize`,
before the lock is taken in `ProcessorPull`. `ReaderPush` divides the wire into pushes of
any length. A line is a sentence if it begins with one whose checksum fits (`Parsed`).

### SensorThreads

The main thread runs `createAll` and `startAll`, the command thread any `startAll` or
`stopAll` that comes, from before `createAll` on. A thread inside one of them has a `job`:
the sensor and the step of `start` (delete, new, open, run) or `stop` (halt, close, free,
null). `term[s]` is `Sensor::terminal`: null, an object, or dangling; a reader or processor
that took the pointer holds it until it is done, and has it dead once it is deleted. The use
of a dead or dangling terminal is undefined: the process ends (`crashed`) or goes on.
`port[s]` is "lost" when a COM port's handle has no terminal any more: the serial reader's
destructor closes nothing. `quiet` counts the seconds to `SilenceLimit`, after which a sensor
is not alive, which the operator sees.

### DaemonService, Console

`DaemonService` is one action per step of `Service::start`, `stop`, `install`, `uninstall`
and `startStop`, with the SCM's side (external) as what it accepts: a deletion is "marked"
while there is a process. `Crash` may end the process at any time. `uninstall` asks for the
status (`UninstallLook`), asks for a stop, waits and deletes in steps of their own; `begun`
says that a start was pending when it looked, or came since. `stopWorker` is the named
event, which another process can keep. `mainProc` never returns.

`Console` adds the daemon's data node, which binds (`MainListens`) before or after `mainProc`
has started the sensors (`MainStarts`), its heartbeat, the main window's `shown` state with
its age, and one information window with its data node and one receiver (the three are
alike). `Send` may reach the daemon, another socket bound to the port, or nobody. `Hung` is
the UI thread joining a receiver that sends the UI thread a message.

### SensorConfigs

`list` is the UI's array, `files` the files by number with the keys they have. A save is one
`SaveKey` per key, a load one `LoadKey`; they interleave. Dialogs hold a number while the
main window goes on; the dialogs of parameters write to the list at once (`SetParams`).
A file is read in another order than it is written (`LoadKeys`). Either program may end and
start again at any step. One dialog at a time is a bound of the model: the UI opens more. `saved`, `unsaved`, `torn`, `ghost`,
`meddled` and `changed` are history: what excuses a difference.

### NmeaParsers, AISPayload, Decoding

A sentence is a record of the fields its parser looks at. Each parser is an operator that
yields the updates it makes, in their order: GGA's position before its quality, THS's mode
before its heading. `Sentence` brings them (`todo`) and each `UpdateData` stores one, since
`updateData` takes and gives back the storage's lock each time, and a poll may come between.
`Means` is what a talker means by the sentence, after the standard and not by the parsers'
operators. `held`, `spoken` and `dubious` relate the two over time.

In `AISPayload`, `GetData` puts the bits of a field where `SixBitStorage::getData` does, from
bit `StartBit` of the number on,
`GetByte`, `GetShort` and `GetInt` cast and turn the bytes as the getters do, `Signed`
extends the sign. Each parser is the sequence of its fields with the getter it uses. `Report`
is one message to one target: flags set and cleared, members overwritten (the date of a base
station shares its bytes with the speed). `said` is what the ship said last. `Decoding` lets
one device at a time send either kind.

### AISGroups

`groupCompleted`, `lastProcessed` and `curSeqNumber` are VDM's members. The bit storage is
`cells`, the array up to `backPtr`, and `frontPtr`; a cell stands for the bits of a type, of
an MMSI, or of what one sentence adds. A thread's pass through `parse` is `Parse` (one
disjunct per branch), `Reset` if `clear` found the storage not empty, `Add`, and `Wait` or
`Decode`; the threads of all sensors interleave between these. Races inside one of them are
left out. Talkers send whole messages in order, with sequence numbers in turn; `Lose` loses a
sentence. They stop after `MaxMessages`, so these runs do not check deadlock.

### AISTargetTable

`table` is the container, by key: each record has the ship its target names, its place, the
age of its stamp. `parseData` is one `Hear` action and, for what is not decided there, the
`Handle` steps that follow its lines; it holds the table's mutex, so the steps are apart only
because the own position changes without it. Every read of that position is a step: the
search of line 115 and its loop (`First`), the test of line 121 (`OwnValid`, `OwnInvalid`),
the search of line 123 (`Second`) and the range of line 124 (`Measure`); `turned` says that
the position was lost between the test and that search, after which the code may follow a
null `mostDistant`. Latitude and longitude of a position change together, and are numbers. The filter is loaded once. Two oddities are kept
as they are: `Measure` computes the range of `Zero`, since the message is parsed into the
new target only afterwards, and leaves `mostDistantRange` unwritten when the own position is
impossible. `ReplaceNull` is the null pointer followed at `VDM.cpp:158`.

### Display

`tree` is the map of parameters by slot (type and sensor): marked, drawn, age. `buffer`,
`items` and `rows` are the simple protocol's packet and list; `targets` and `listed` the AIS
list. A datagram arrives in the second it is sent or is lost; the daemon may `Restart` at any
time. The timers run once in their period (`due`), before the next second. The three views
share nothing but the timer, so a behaviour follows the `traffic` of one port.

## Runs

| Run | Instance | Shows |
|---|---|---|
| `storage_election` | 2 sensors, 1 type, sensor timeout 1, global 0, `MaxAge` 2, UI not trusted; the process may end, so deadlock is not checked | `CopyNotYounger`, `ImplementsElection`, up to the exception, which it reaches |
| `storage_pace` | 2 sensors, one steady, timeouts 4 and 3, `MaxAge` 7, all periods 1, trusted UI | `MasterHasSlot`, `BroadcastAgeBound`, `SteadyMasterKept`, `MasterlessAtMostOnce` |
| `storage_silent` | 1 sensor, the position type, timeouts 2 and 1, `MaxAge` 3, fair threads | `SilentSourceDropped`, `PoorMasterDeposed`, `PollsGoOn` |
| `queue_lines` | 4 lines of 3 bytes and CR LF, the third without its end, buffer 5, every division into pushes | `AcceptedInOrder`, `LineFits`, `UnsplitParsed`, `UnendedLineBlocks` |
| `sensor_threads` | a serial sensor that talks and a silent TCP one, `SilenceLimit` 0, 2 commands; deadlock off: the process may end | `DanglingOnlyInCommand`, `HandleKept`, `StartUpSafe`, `LostShownDead` |
| `groups_one` | 1 talker, messages of 1 to 3 sentences, losses, 4 messages, 10 cells | `DecodedWhole`, `IgnoredOnlyIfMissing`, `DeafForGood` |
| `groups_mixed` | 2 talkers, no losses, one thread in the parser at a time | a violation, see below |
| `decoding` | a transponder with 6 types of message, or one of 4 devices with sentences; edge values | `ReportTruthful`, `PositionReportReadOut`, `HeldIsSpoken`, `DoubtTold` |
| `targets` | 3 ships, places 0 and 1, all four kinds of filter, timeout 0, `MaxAge` 1; deadlock off for `ReplaceNull` | `LimitHolds`, `NeverNull`, `HeardShipStays`, `StaleErased` |
| `console` | 2 starts of the daemon, 1 click, 1 information window, no grace | `ForwardEnds`, `DeletedUnderWork`, `StartRepeatedOnlyStale`, `StopEnds`, `PausedWindowCloses` |
| `configs` | 2 sensors, 3 keys, two of them parameters that are read in the other order, 4 edits | `FilesAreList`, `LoadedWereSaved`, `IconsOfList` |
| `display` | 3 sources of a type; 2 of each of 2; a position and another type; 2 ships; periods below | `ClickableIsKnown`, `MarksDiffer`, `RowsAreRecent`, `ListFollowsTable` |

Bounds. Two sensors are what an election needs: one master and one rival, on either side of
it in the order of the poll. Types interact only through the exception and the order of
`pending`. Timeouts are as small as keeps the cases apart. In `storage_pace` the largest age
at which the global watchdog finds the copy of a steady source is `MaxSilence + 2 *
PollPeriod`, so the global timeout is 3 there; with 2 `SteadyMasterKept` fails. It leaves
states after a race out (`NoRace`): its properties except raced sensors anyway, and the races
are explored by the other runs. In `queue_lines` each line has a predecessor that may
be cut and a successor, with and without the end between them; the buffer is exactly as long
as the longest line with its end.

In `sensor_threads` two commands are the least that meet each other as well as the
start-up; a second sensor is what a command may have passed or not. A silence of one second
stands for the limit of the code: what matters is that it passes. In `groups_one`, four
messages and four sequence numbers keep a lost message from being taken for its successor,
as the ten of the protocol do; 10 cells are filled by two to four messages that are
read out, as 0xFFFF bits are by some 390 position reports in a row. In `targets`, three ships
under a limit of two give one to replace and one to keep.

In `decoding`, the raw positions are "not available" and negative ones, the raw speeds "not
available" and out of scale; the amounts of the sentences are 0, 5, and 100, which the parsers
of speeds reject; the headings lie in both halves of the circle; a latitude of 91 degrees and
a longitude of 180 are rejected, of 10 and 20 taken. The wind blows at one speed: no parser
looks at its size.

In `console`, two starts let an event, a mark or a command of one process meet the next. One
click and one window are enough for a command on a stale state, a socket that outlives its
window and a join that waits. The grace of 2 s without heartbeat is 0: only its order with
the beats matters. In `configs` a second sensor is what a number may be confused with, and
three keys are what a file may have some of, and what two orders may differ in. In `display`
the timeouts are in seconds `Timeout` 1 (15 in the code), `Period` 1 (5), `ListTimeout` 1
(120), `WatchPeriod` 2 (5); one broadcast a second is kept, and `MaxAge` 5 is above all sums.
A row lives `Timeout + Period + 1`, 21 s in the code.

Fairness. `DataStorage`'s `FairSpec` asks that each thread goes on: weak fairness where a step
is not disabled by others, strong fairness where it waits for a mutex that others take again
and again, and for the watchdog's visit to each parameter, since every pass iterates over
all. In `AISTargetTable` time passes, a message that is being handled is handled to its end,
and the watchdog, which asks for the mutex every five seconds, gets it again and again (strong
fairness). In `SensorThreads` the threads and the clock go on; in `Console` the service's
threads, the uninstaller, each by itself, and the window's threads. Talkers, ships, operators and the
network owe nothing.

## Where code and comments disagree

* `groups_mixed`. `VDM.cpp:61` says "The same group, next sentences?", but the one parser is
  shared by all sensors and only sequence and sentence number are compared: two receivers
  that use equal numbers splice two messages into one. In the trace each sentence is parsed
  to its end before another: talker 1 begins a message of two sentences, talker 2 begins one
  under the same number, which starts the group anew, and talker 1's second sentence is then
  added to talker 2's group.

Read in the code and built into the modules, without a run of their own:

* `DataStorage.cpp:217` says "Disregard master source if it is poor". The global watchdog does
  so after 15 s, but marks only the copy: the next poll copies the quality from the sensor's
  storage, whose timeout is 30 s, and may elect the same silent source again. The age of
  broadcast data is bounded by the sensor's timeout (`BroadcastAgeBound`).
* `VDM.cpp:157` says "Replace most distant target": the record is overwritten under the old
  ship's key. The new ship is not found when it reports again, and is broadcast under the
  old number. The limit holds all the same (`LimitHolds`).

Further behaviour built into the modules as the code has it:

* `BinQueue.cpp:140` erases one byte less than was scanned and the last one is pulled again.
  Harmless after a line end, fatal after a line that only the next `$` ended
  (`UnendedLineBlocks`).
* A second Start, or a Start that meets the start-up, deletes a terminal whose COM port stays
  open and can never be opened again (`HandleKept`, `LostShownDead`).
* `TCPReader::open` does not set `opened`: its close does nothing.
* `VDM.cpp:118` measures latitude and longitude 0 instead of the new target.
* A field of 8 bits is read as 0 (`SixBitStorage.cpp:173`; `CargoUnknown`), and the rate of
  turn is tested by assignments (`AIS.cpp:94`): it is always flagged and 720 degrees.
* Headings of 180 degrees and more are rejected by HDT and THS, speeds and depths of zero
  by all; MWD stores the true direction as the relative one; fathoms are never read
  (`HeldIsSpoken` names each). A position at 180 degrees is rejected (`Parser.cpp:91`), while
  GGA still stores the quality of its fix, beside the old position. GGA stores a position
  before the quality that calls it invalid, and a poll may copy it with the old one
  (`DoubtTold` says where both may be seen).
* `VDM.cpp:121` tests the own position and `findMostDistantTarget` (line 123) tests it again:
  lost in between, it leaves a null pointer that a target nearer than the range of line 115
  follows (`NeverNull` excepts just this).
* `Service::uninstall` deletes a service that was started after it asked for the status
  (`DeletedUnderWork`).
* `Parameters.cpp:613` counts one item too many in the simple protocol's packet
  (`RowsAreRecent`), which carries the first Good source of a type and not the master.
* The information window's data node binds the command port and keeps it (`ForwardEnds`).
* `mainProc` gives its command node no target table: a `ReapplyAISFilter` follows a null
  pointer. `Crash` of `DaemonService` includes it; the filter is therefore never reloaded.
* A position is copied from the address of the data pointer (`DataStorage.cpp:126`): the own
  position in `AISTargetTable` may be anything.

## Proofs

Each module's proofs use its named assumptions on the constants and nothing else. Where a
property is not inductive, this is the invariant that makes it so.

| Module | Theorems | Along which invariant |
|---|---|---|
| `DataStorageProofs` | `TypeCorrect`; `CopyNeverYounger`; `MasterLookupSafe`; `Implementation` | `PollInv`: what a poll has pending is of a real sensor. Ages of both sides move together. `SlotInv`: the master has a slot or is about to get one, and so has all that was ever broadcast. `ElectionStep` maps each action to a step of `MasterElection` or a stutter |
| same, of `DataStorageTimed` | `TimedImplements`; `TimedTypeCorrect`; `BroadcastAge` | `PaceInv`: a Good parameter that nobody writes is at most the timeout and the seconds since its watchdog's pass old (`StoreInv`); what an election read and what the poll has copied is at most a watch period and the seconds since the last broadcast older (`SeenInv`, `CopiedInv`), which needs that a sensor never loses a type (`PresentInv`) |
| same | `SteadyKept`; `MasterlessOnce` | `SteadyInv`: what a steady source delivered once is Good and at most `MaxSilence` old at the sensor (`DeliveryInv`, `VouchedInv`), and its copy at most the seconds to the last visit of the poll older, which is two polls where the poll has yet to come (`CopyInv`). `MasterlessInv`: after a broadcast without a master the post stays open for the first source |
| same, of `DataStorage` under fairness | `PoorDeposed`; `SilentDropped` | A chain of what comes to be and then stays: the parameter of a silent sensor is old, is marked Poor by the watchdog's visit, is taken by no later election, its copy is marked, and a Poor copy is not broadcast. `SlotInv`: a master that is Poor has a slot in which to be found |
| `TextSensorProofs`, of `SentenceQueue` | `TypeCorrect`; `InOrder`; `UnendedBlocks` | The size read before the lock is never more than there is. `OrderInv`: the queue is what was pushed but for its first k bytes, and no sentence that was parsed begins behind them; a pull moves k to the last byte it scanned, past the start of what it parsed. `BlockedCount`: before the next start a pull passes one byte or none |
| same | `Fits`; `OnePushParsed` | A pull takes a part of the wire that holds no start but its first byte and no end but at its end. Of a sentence in one push either every byte is still to be scanned, from its start on, or it was parsed |
| same, of `Decoding` | `MeantIsHeld`; `DoubtIsTold` | One lemma per parser (`ReadGLL`, `ReadGGA`, ...) compares what it yields with what is meant; `MeantInv`: what is meant is rejected, on its way, or held and not in the way of an update to come, and no talker means a quality or a mode by itself, so that a mark never passes for a value. `DoubtInv`: once the updates on their way are made, the mark of a doubtful value is there |
| same, of `Decoding` | `ReportsTrue`; `CargoNeverKnown` | Inductive as they stand, on what the getters make of a field: its bytes, turned, are the number again (`BytesTogether`, `WordRead`, `Shorts`), or 0 for whole bytes (`WholeByte`), and in every message a field that is kept has the same size and getter (`Laid`) |
| same, of `Decoding` and `AISPayload` | `ReadOut` | Where a field begins is the sum of the sizes of those before it (`BitsOf`); what is left of a list only shrinks, by induction over sets of numbers (`LeftOf`), so a report of class A or of a base station is read to its last bit, every other message stops short, and none reads further |
| `SensorThreadsProofs` | `TypeCorrect`; `NoDanglingLeft`; `StartUp`; `Handles` | `StartUpInv`: without commands the one `startAll` has sensors ahead that have no terminal and behind it none that it touches again, so that nothing is deleted. `HandleInv`: while starts and stops alternate there is one job at a time, and which ports are open is told by where it stands |
| same | `LostIsSeen` | `Pushed`: only sensors that were created run, and no job passes the last of them, so a lost port's sensor has its threads. A lost handle stays lost (`LostStays`) and its reader hears nothing (`LostUnheard`), so that the silence ends the sensor's life |
| `ConsoleProofs` | `TypeCorrect`; `WorkerEndsLast`; `Deletion`; `RepeatedStart`; `ForwardStops` | `ServiceInv`: how thread, worker, stop and report go together, and that an uninstaller about to delete found the service at rest. `CommandInv`: without a stale click one Start or Stop at most is on the way, none before `mainProc` has started the sensors, and a Start only to a daemon that does not run. `ForwardInv`: if the last request on the way, or the last obeyed where none is, turns forwarding on, a receiver is there that will end it |
| same | `StopGoesOn`; `StopComesToItsEnd`; `UninstallerComesToItsEnd`; `ClosingGoesOn`; `PausedIsDestroyed` | `StopInv`: what a stop waits for is there or still to come. `WindowInv`: a window has its receiver, which is not listening if it was paused all the time. From there each step of the stop, and of the closing, leads to the next |
| `AISGroupsProofs` | `TypeCorrect`; `Deafness` | The front never passes the end, nor the end the array; `Deaf` is a step invariant |
| same | `MessagesWhole`; `FewAreLost`; `IgnoredMissing` | `GroupInv`: what is unread is the beginning of one message, up to the sentence that was processed last; if that message is not the one being sent, a sentence was lost, and the numbers tell them apart as long as `FewLost` |
| same | `AloneContinues` | `GroupInv` again: behind one receiver the question of `VDM.cpp:61` is answered as its comment means it, so the violation of `groups_mixed` takes the second one |
| `AISTargetTableProofs` | `TypeCorrect`; `LimitKept`; `NeverFollowsNull`; `HeardStays` | `LimitInv`: the table is finite and within the limit, and where a message is about to replace or be added with a null `mostDistant` there is room, unless the own position was lost between its reads. `FreshInv`: without a limit no record is older than the silence of its ship |
| same | `MessageGoesOn`; `OldIsErased` | The table is finite, so some target is the most distant and a message can always be handled; the watchdog then gets the mutex in the end, and nothing makes a record younger but its ship |
| `DisplayProofs` | `ListOfTargets`; `MarkedOnce`; `ClickNamesKnown` | `AISInv`: how the ages of a target, of its record and of its loss go together with the timer. `TreeInv`: a marked slot is as old as the broadcast that marked it, and one older than the daemon is dead by its time |
| same | `RecentRows` | `ListInv`: the items of the buffer but the last are as old as the last packet at most, and the rows but the last are within the timeout, or a second over it when the timer has yet to run |
| `SensorConfigsProofs` | `ConfigsFit`; `FilesFollowList`; `LoadedSaved`; `IconsRight` | `ConfigInv`: numbers are in one place at a time (`NumbersInv`); a file is what its item of the list is, the one that is written as far as it has been (`FilesInv`); a file that no save has cut off was saved, and so is what was loaded or read in part, unless the UI meddled (`SavedInv`) |

What the theorems suppose beyond the assumptions on the constants stands before their
arrows, and the run that checks the property satisfies it, but for `AloneContinues`:

* `Paced` (`SteadyKept`, `MasterlessOnce`): the UI names only what was broadcast, a steady
  source repeats itself within the sensor's timeout, and within the global one with two polls
  between. The code's 30 s, 15 s and polls of one second keep it for every source that talks
  every 13 s or more often.
* `LinesFit` (`Fits`): no line with its ends is longer than the buffer. Nothing in
  `BinQueue.cpp` sees to it; 82 characters are what NMEA allows.
* `SentencesWhole` (`OnePushParsed`): the talker sends its sentences in one piece.
* `OneTalker` and `FewLost` (`MessagesWhole`, `IgnoredMissing`): one receiver of AIS, and no
  group that stays open until its number is used again; `FewAreLost` proves the latter for a
  line without losses, and for no more messages than there are numbers.
* `OneTalker`, `FewLost` and `NotFull` (`AloneContinues`): the same, and an array with room
  left: a full one drops every sentence (`DeafForGood`). The run of this property,
  `groups_mixed`, has two talkers: the theorem says that this is what it takes.
* `TrustedUI` (`PoorDeposed`): the UI names only what was broadcast, so that no exception ends
  the poll.
* `StopGuards`, `ClosingGuards`, `TableGuards`, `StorageGuards`, `ThreadGuards` (the theorems
  about what comes in the end): an action whose guard holds is enabled. The prover has no rule
  for ENABLED, so each guard is written out beside the action and is a hypothesis. TLC found
  all five invariant on small instances, and `StopNeverStuck`, `ClosingNeverStuck` and
  `MessageNeverStuck`, which the theorems draw from them, on those of `console` and `targets`.
* `PollsGoOn` (`SilentDropped`): polls follow each other. `storage_silent` checks it. It is an
  induction over sensors and pending types, and an induction cannot be made on temporal
  formulas here.
* `SilenceAddsUp` (`LostIsSeen`): the seconds of a silence add up to the limit or it ends.
  Induction again, over seconds.

The assumptions on the constants say what sizes and numbers are; three of them say more.
`TalkerAssumption`: headings are below 360 degrees, no amount is negative. `RawAssumption`: a
field's value is one of as many bits as the field has. `ConfigsAssumption`: a file has at
least one key.

Only model-checked: that polls go on (`PollsGoOn`), that seconds add up, that a guard enables
its action, and that deadlocks do not occur, for the reasons just given. Every other property
of a passing run is a theorem, the temporal ones from the fairness of `FairSpec` and these
hypotheses. Theorems without a run: the `TypeCorrect` ones, what the table above names besides
the runs' properties, and `CargoNeverKnown`.

## Plan

Built: all modules above. What is left, in this order:

1. The end of the UI: controls deleted under their listeners.
2. Names, dimensions and voyage data of `AISPayload`.

## Not modelled

Sockets, Win32 wrappers of windows, dialogs and controls, formatting and string tools (I/O
and layout); the settings of a COM port; AIS names, call signs, dimensions and ETA; UTC and
HDOP of the NMEA sentences; the two lists of the information window and their timer; the end
of the UI beyond that it ends; pause and continue of the service, `Sensor::terminate`,
`findFirst` and the byte pull, which have no caller; `DataServer`, which the build leaves
out. Each is listed with its reason in `PROJECT.json`.
