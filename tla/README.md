# TLA+ specifications of system_service

`src/system_service` is the daemon that provisions the WiFi of a Taishan Pi
board (RK3566, with a port to the A733): a phone talks to it over BLE, local
programs talk to it over a Unix socket, and it keeps the board on its home
network or, failing that, on an access point of its own. Beside it the tree holds
an ISP tuning server, whose media flows (`librkmedia/flow.cc`) hand frames from
thread to thread. This directory models the daemon and such a flow in TLA+, checks
the models with TLC on small instances, and proves the central invariants for all
instances with TLAPS.

Contents: [the system](#the-system), [modules](#modules),
[runs](#runs), [bounds](#bounds), [fairness](#fairness), [proofs](#proofs),
[disagreements](#where-the-code-and-its-documentation-disagree),
[what is not modelled](#what-is-not-modelled).

## The system

    phone --BLE--> ble_gatt.c ----+                        +--> wifi_switch.c
                                  +--> proto_dispatch.c ---+    (wifi_switch_a733.c)
    client -socket-> unix_ipc.c --+      (protocol.c)
                     both give the dispatcher a proto_sink_t
    log.c is used by all; sys_stat.c, uart_log.c and time_sync.c stand alone

    flow.cc (another program): upstream flows --frames--> input slots --> coroutine

| part | state | operations that change it | threads |
| --- | --- | --- | --- |
| `unix_ipc.c` | one `unix_client_t` per connection: fd, lock, reference count | accept, read, send, retain, release, hang-up | listener, one reader per connection, workers |
| `ble_gatt.c` | bus connection, adapter, registrations; `s_tx_value`, `s_tx_notifying` | bring-up, WriteValue, ReadValue, Start/StopNotify, `ble_gatt_send` | main loop, registration thread, workers |
| `protocol.c` | none (codec) | `proto_encode`, `proto_decode` | |
| `proto_dispatch.c` | pending SSID and password; a heap job per worker | ten commands, two kinds of worker | the transports' threads, workers |
| `wifi_switch.c` | mutex, radio (hostapd, wpa_supplicant, link), credential, band and ready files | boot, reconnect monitor, `run_now`, `ensure_ap_mode`, `scan` | boot thread, callers |
| `wifi_switch_a733.c` | mutex, NetworkManager's profiles and active connection, credential and ready files | the same functions; NetworkManager itself | boot thread, callers |
| `log.c` | index file, slots; `g_written`, `g_full` | `log_init`, `log_print` | all |
| `sys_stat.c`, `uart_log.c`, `time_sync.c`, `main.c` | slots of their own; the clock | sampling, copying, synchronising | one each |
| `flow.cc` | input slots with their buffers, `enable`, `quit` | `SendInput`, fetch, `StopAllThread` | upstream threads, the coroutine's, the destroyer's |

The daemon's threads meet in four places, which is where the models concentrate: the
life of a sink that a worker holds longer than its connection lasts, the order
of frames on a sink, the switch's mutex (taken with trylock, so that a busy
switch answers at once), and the files that survive a restart.

## Modules

Definitions carry the names of the code where they can; `PROJECT.json` maps each
of them to its lines. Operators named in a comment as *Mutant* are deliberate
bugs: put in place of the definition that follows, each breaks the property it is
paired with in `PROJECT.json`, and nothing else uses them.

**`UnixIpc`** (`unix_ipc.c`, and the part of `proto_dispatch.c` that retains and
releases sinks). `mem`, `fd`, `refcount`, `lock` are the fields of a
`unix_client_t`; `pc[t]` is where a reader or a worker is. `Listen`, `Accept`,
`AcceptFails` and `ListenerFails` are the listener; `Read`, `HandleSync`,
`HandleAsync`, `SpawnWorker`, `SpawnFails`, `CloseFd` a reader; `Work` and
`Finish` a worker; `LockSend`, `WriteChunk`, `Unlock`, `RetainRef`, `ReleaseRef`
and `Free` the sink's three functions, with the steps between lock and unlock
kept apart so that threads interleave inside them. The peer may hang up at any
moment.

**`ProtoSink`** is the abstract specification of a sink, from the comments and
inline functions of `proto_sink.h`: holders come and go, frames are sent one at a
time, the sink may go down, and it is destroyed when the last holder has left.
`UnixIpc` is shown to implement it (property `SinkSpec`, with the holders computed
from the threads' program counters).

**`ProtoDispatch`** (`proto_dispatch.c`). A connection's thread takes one request
after the other (`Take`), handles each command of the switch statement and sends
the RESP; CONNECT and SCAN_WIFI make a job (`MakeJob`), spawn a worker (`Spawn`,
`SpawnFails`) and only then answer. A sink is the sequence of frames sent to it.
The WiFi switch is a mutex and an outcome. A client in `MayStall` may stop reading:
a send to it may never return, and the thread then keeps what it holds (`MayBlock`).

**`ScanPush`** (`send_scan_results`): how a scan list is cut into
PUSH_SCAN_RESULT frames, by at most 5 entries and by the payload limit. SSIDs are
their lengths.

**`IwScan`** (`parse_iw_scan`, `scan_target_band` and the frequency, channel and
authentication tables of `wifi_switch.c`): the two readers of iw's text walk the
same lines (`blk`, `ln`: the line of which station's block is next). A line is its
key, its value and the keywords `strstr` finds in it; an SSID is printed as it is or
with escapes. `BssLine`, `FieldLine` and `LastLine` are the turns of the loop. One
usable scan is modelled; `scan_target_band` takes up to six, each from scratch, after
one that failed or in which the network was not seen.

**`ProtoCodec`** (`protocol.c` and `proto_dispatch_buffer`): encoding, decoding
and the loop over a received buffer, on real bytes with the real header and
limits. A client writes frames (`WriteFrame`), a read returns the first bytes of them
(`ReadBuffer`), and the loop takes these apart (`HandleFrame`, `DropRest`,
`EndOfBuffer`). `ends`, a history variable, remembers where each frame ends.

**`WifiSwitch`** (`wifi_switch.c`). One thread boots and becomes the monitor,
callers call `run_now`, `ensure_ap_mode` and `scan`. `mutex`, the radio
(`hostapd`, `wpa`, `assoc`, `ip`, `primed`) and the files (`home`, `band`,
`ready`) are shared; `pc` and `op` say where each thread is in which function.
Whatever the daemon does not decide (a command that fails, a file that cannot be
written, a link lost, a router switched on, a restart of the daemon) costs a unit of
the fault budget. `primed` models what the comments of the file report of the driver: a
5 GHz network can be joined only if the radio was an AP on 5 GHz since its link
last went down.

**`WifiSwitchA733`** (`wifi_switch_a733.c`): the same interface over NetworkManager.
`active` is the profile that is up on the interface, `auto` the network that the STA
profile joins by itself, which NetworkManager may do between any two steps of the
daemon. `nmcli connection down` and `delete` of a profile that exists are
taken to succeed, and shell quoting is left out. The daemon is taken to run as root;
if it does not, `require_root_for_control` ends the boot thread at once and makes
`run_now` and `ensure_ap_mode` return before they have changed anything.

**`HomeFile`** (`wifi_switch_persist_home_wifi`, `atomic_write_file`; both builds):
workers store the credentials without the switch's mutex and under one temporary
name. Files are inodes, so that a writer goes on writing to a file that has been
renamed under it; opens, writes and renames may fail, the daemon may be killed
between any two steps, and a loss of power can empty the file, which is never synced
(`LosePower`). `spoilt` is a history variable: two writers have met, or the file was
lost with the power, since a lone writer last wrote it.

**`LogRotate`** (`log_init`, and the same code in `uart_log.c` and `sys_stat.c`)
follows the index file and the slots over any number of boots. A boot can be
killed at any step, the disk can be full, and power loss can empty an index file
that was renamed but not synced. `later` and `since` are history variables.

**`LogPrint`** (`log_print`) extends `LogRotate`: while the daemon runs, its
threads write lines under the stream's lock, until the slot is full or the daemon
ends.

**`KmsgLog`** (`uart_log_thread`): the slot and `/dev/kmsg` are opened, which may
fail and end the thread, then comes the copy loop over the kernel's ring, with
overruns (EPIPE), short and failed writes, and the limit of the slot. `overrun`,
`failed` and `broken` are history variables: why a record is missing, or the thread
has ended.

**`SysStat`** (`compute_top5` and the samples it compares): processes end, begin and
reuse a number between two samples, and a sample is cut off at `MAX_PROCS`. `base`, a
history variable, says what the sample before had under a process's number: the
process itself, an earlier one, or nothing because it had no room.

**`TimeSync`** (`time_sync_thread`): the zone is set by a symbolic link and a
rename, then come probe, NTP and RTC; every call may fail and the daemon be killed.
The clocks themselves are not state of the model.

**`BleSetup`** (`ble_gatt_thread`, `bluez_register_worker`): the order of bus
connection, adapter, export, registration, main loop, with BlueZ's call back to
GetManagedObjects.

**`BleTx`** (`ble_gatt_send` and the TX characteristic) extends `BleSetup`, and its
steps need the application to be live: the byte array behind
`s_tx_value` as a heap cell, with the load, free, allocation and append of
`ble_gatt_send` as separate steps, because nothing protects them. The notification
may fail (`lost`), and `raced` records that a thread came in while another was inside.

**`Flow`** (`flow.cc`, a flow of model ASYNCCOMMON): `SendInput` and the steps of
`Produce` are an upstream thread, with the three modes of a full slot, `Consume`
the coroutine's thread, `StopAllThread` the destructor's. The reads of a slot's size
without its mutex, and the test of `quit` before the wait, are steps of their own.

**`FrameQueue`** is the abstract specification of the slots: queues that only a
front-dropping slot loses a frame from, and from which every remaining frame is
fetched while the flow is open. `Flow` is shown to implement it (`QueueSpec`).

`MCWire` puts `BleTx`, `ScanPush`, `ProtoCodec` and `IwScan` into one run, and `MCFiles`
`LogPrint`, `KmsgLog`, `SysStat`, `HomeFile` and `TimeSync`: they share no state, so
one of them runs in each behaviour and the others rest. The other `MC*` modules
give the constants their values for TLC; the `*Proofs` modules hold theorems.

## Runs

| run | configuration | states | shows |
| --- | --- | --- | --- |
| `unix_ipc` | `MCUnixIpc` | 8,419 | the struct outlives its users (`NoUseAfterFree`), a frame goes whole to an open descriptor (`FrameOnOpenFd`), `UnixIpc` implements `ProtoSink` (`SinkSpec`), the struct is freed after the peer hung up (`FreedAfterHangUp`) |
| `dispatch` | `MCProtoDispatch` | 296,576 | every request is answered once and in order (`AnsweredInOrder`), a PUSH goes to an accepted request of its client and a list ends once (`PushesMatchRequests`), CONNECT uses what was stored (`JoinsWhatWasStored`), IN_PROGRESS is followed by a result (`ResultFollows`), and a client that stops reading never keeps the switch (`StallSparesSwitch`) |
| `wire` | `MCWire` | 517,609 | every scan entry is sent once, in order (`EachEntryOnce`), with `end_of_list` on the last frame only (`EndsOnce`); exactly the complete frames of a buffer are handled, as they were encoded (`HandlesWholeFrames`); the phone's list is what is on the air (`ListsTheAir`) and a join finds the right band and channel (`FindsTarget`); all the loops end (`LoopsEnd`); only a live application is advertised over BLE (`AdvertisesLiveApp`), the registration thread gets through (`ComesUp`), the main loop is reached (`LoopRuns`), and as long as no two threads are in `ble_gatt_send` at once the TX value is allocated when it is used, is the frame last notified, and nothing leaks (`SerialSendsKeepValue`) |
| `wifi_switch` | `MCWifiSwitch` | 771,468 | AP and station exclude each other and nobody disturbs a join (`NotSteppedOn`), only a joined network is stored (`OnlyProvenStored`), a failed call brings back the AP it found (`RestoresAp`), calls return and give the mutex back (`CallReturns`), the board ends up joined or with its AP on (`Reachable`) |
| `wifi_switch_a733` | `MCWifiSwitchA733` | 788,303 | the mutex is held inside the switch only, and a thread that joins is told about its own network although NetworkManager joins by itself (`NotSteppedOn`); a failed join leaves the AP (`RestoresAp`); a stored network in range is joined again, also while the AP is up (`StoredIsRetried`); the board does not stay without a network (`Reachable`) |
| `files` | `MCFiles` | 577,430 | recent logs survive (`KeepsRecent`) and the marker is a full log's last line (`MarkerIsLast`); the kernel's records are copied in order and whole, and one is missing only if it was overrun, its write failed or the slot is full (`NothingSkipped`); no process of the TOP5 line is charged with more than it used, and one that can be compared with itself is left out only for busier ones (`TopIsTop`); the credential file is whole (`HomeWhole`) and changes only when the call says so (`PersistHonest`); the time zone is never missing (`ZoneIsSet`) |
| `flow` | `MCFlow` | 350,699 | the assertion of the fetch holds (`FetchFinds`), slots keep their limits (`Bounded`), a producer's frames stay in order (`InOrder`), `Flow` implements `FrameQueue`, so no wake-up is lost while it is open (`QueueSpec`), a coroutine that sleeps is stopped (`StopWakesSleeper`) |

Five more runs are expected to end in a violation; see
[below](#where-the-code-and-its-documentation-disagree).

Some properties hold under a condition that the code does not enforce. It is part of
their statement, and what happens without it is in the model:

- `HomeWhole` and `PersistHonest` as long as no two workers have stored at the same
  time, and the file was not lost with the power, since it was last written by one
  worker alone;
- `KeepsRecent` from the last time on that the index file was spoilt by a full disk or a
  loss of power, once `MAX_SLOTS` boots have published their slot again;
- `SerialSendsKeepValue` as long as no thread came into `ble_gatt_send` while another
  was inside (the run `ble_tx_worker` is about the rest);
- `TopIsTop` exempts two kinds of process: a new one under a number of the sample before
  may be left out however busy it was, and one for which that sample had no room is
  charged with its whole life.

`FindsTarget` says which station decides about a join, and takes a refusal as the
answer if that one is on a channel off the white list; it does not say that another
station of the network could not have been used.

## Bounds

- `UnixIpc`: a client stands for one connection, from accept to free, and
  connections share only the workers, so the run has one. With two workers, both
  and the reader compete for one sink, and a worker can outlive its reader. A
  frame takes two writes, so that another thread can get in between. The proofs
  cover any number of clients.
- `ProtoDispatch`: a phone alone, with three requests about joining (SSID, PASSWD
  and CONNECT in any order, a second CONNECT while the first runs) or with any two,
  and a phone with two beside a Unix client with one, of the requests that touch
  what they share; there one of the two sides scans. Two worker slots
  make two jobs overlap; a third is refused (`Refuse`, `SpawnFails`, which may happen
  at any time) or has to wait for a slot. The safety proofs cover any clients,
  requests and slots.
- `ScanPush`: eleven entries are two full frames and one more; lengths are the
  shortest and longest SSIDs. `ProtoCodec`: payloads of 0, 1, 255, 256 and 257
  bytes, full of the two bytes that begin a frame, cut up to two bytes before and
  twelve after the end of a frame (a header is ten). `IwScan`: up to three blocks with the edges of the frequency
  tables, every kind of security and blocks cut short; a list of two entries, so
  that it gets full. The safety proofs cover the rest of the three.
- `WifiSwitch`: a network on each band, up to two calls by two threads beside the
  boot thread and up to two failures or changes on the air, at most three of these
  together. `WifiSwitchA733`: two networks, two calls, one failure. Three threads
  compete for the mutex; an error path needs one failure, and on the RK3566 a second
  one can hit its recovery.
- `LogRotate`: four slots, any number of boots; the history variables count no
  further than the number of slots. `LogPrint`: a slot of five bytes, lines of
  one or two, two threads. `HomeFile`: two writers, and an inode for each beside
  the file and its temporary name. The proofs cover the rest of the three.
- `KmsgLog`: a ring of two records and six records, so that it is overrun and the
  slot gets full in the middle of one. `SysStat`: four processes, of which a sample
  holds three and the line two, each with up to two ticks.
- `BleSetup` tries twice instead of 60 times: a first try, after which the adapter may
  still come, and a last one. `BleTx`: a worker beside the main loop, two frames, and two
  cells, which is one more than a lone sender has in use.
- `Flow`: two producers of one slot, one of which sends twice, and one of another;
  a limit of one frame in each mode, and none. The proofs cover the rest.

No run uses symmetry, since each of them checks a temporal property.

Deadlock is not checked: in every run the model may stop because its budget of
requests, frames or failures is used up, or because the program it models ends. That
threads do not wait for each other for ever is what the liveness properties say.

## Fairness

Weak fairness, per thread: a thread that can take its next step takes it, which is
what the kernel's scheduler gives a thread that is not blocked. A thread that
waits for a lock is only assumed to get it if the lock stays free; the switch's
mutex is taken with trylock and needs no such assumption. Beyond that:

- Nothing is assumed of clients (in `MCWire`, nothing of the one that writes frames),
  of networks, of the adapter or of failures. A send
  to a peer that is there but may not read is not fair, in `UnixIpc` (`UnlockGone`)
  and in `ProtoDispatch` (`MayBlock`).
- Nothing is assumed of NetworkManager beyond its commands coming to an end: its
  autoconnect may happen or not.
- `BleSetup` assumes that BlueZ answers; with the main loop running its answer is
  taken to arrive before the 25 s of D-Bus are over.
- `Flow` has strong fairness on one action, the coroutine taking a slot's mutex
  (`TakeFront`): a blocked producer holds it again and again, but naps for 5 ms
  without it in each round, and the others hold it for a few instructions.
- Sleeps and time-outs of the switch are steps that end.

## Proofs

Eight modules hold theorems; none uses a recursive definition. Each proof has the
form `Init => Inv`, `Inv /\ [Next]_vars => Inv'`, with a step per action, and the
properties from `Inv`. Actions that leave the same part of the invariant alone are
grouped under an operator that says what they do to it.

**`UnixIpcProofs`** proves `Spec => []Inv` for any finite sets of
clients and workers and any bounds, and from it `TypeOK`, `NoUseAfterFree`,
`OneFreer`, `ClosedOnce`, `FrameOnOpenFd` and that the server implements `ProtoSink`
(`SinkSpec`). None of these is inductive alone.
`Inv` adds that the reference count is the number of holders (`RefCounted`, with the
holders computed from the program counters), that descriptor, struct and peer go
through their lives together (`Life`), that a thread which writes owns the lock
(`LockOwner`), and what a worker at each of its steps has been given (`JobShape`).
The cardinality of the set of
holders changes by one in retain and release, from the library's theorems on finite
sets. For the refinement, a lemma per action names the step of `ProtoSink` it is,
and the two that could also close the descriptor need the count again: a worker that
was not created, and the last to release, never do (`SpawnFailsKeeps`,
`ReleaseKeeps`). Assumptions: the sets are finite and disjoint, the bounds are positive.

**`ProtoDispatchProofs`** proves `AnsweredInOrder`, `PushesMatchRequests` and
`JoinsWhatWasStored` for any connections, requests and worker slots. What a PUSH may
say depends on a request taken long before, so `Inv` follows each request on its
way: all requests but the one in hand are answered (`Handling`, `Answering`); a slot
in use has a job for a request of its client, and no two slots have the same
(`JobsMatch`, `OneJobEach`); a job without a thread is the one its connection is
spawning (`Spawning`), and any other belongs to a request that was answered
IN_PROGRESS or is about to be (`Working`), which covers a PUSH that overtakes its
RESP; a worker that has sent its last PUSH sends no more (`Ending`). For the
credentials, `Pending` says what is stored now and `JoinsWhatWasStored` what was
stored when each job was made. Assumptions: connections and workers are finite and
disjoint, `None` is none of the values.

**`WifiSwitchProofs`** proves for any networks, number of callers and budgets of
failures that the mutex is owned in the critical sections and nowhere else
(`Locked`), `NotSteppedOn`, `OnlyProvenStored` and `RestoresAp`. `NotSteppedOn` is not
inductive: a thread may start its supplicant only because the radio was clean when
it got there, and stays clean because of the mutex. `Inv` adds this (`CleanRadio`),
`Locked` itself, and what a thread at each label is doing, for which network
(`Shape`; a thread that stores has seen its network joined). Assumptions: the
switch's own thread is not a caller, `None` is neither a thread nor a network.

**`WifiSwitchA733Proofs`** proves `NotSteppedOn` and `RestoresAp` of the A733 build,
under the same assumptions. The mutex alone does not give the first, because
NetworkManager does not take it. `Joining` adds what keeps NetworkManager away: the
old STA profile is deleted before `connect`, so that nothing is joined by itself
there (`auto = None`), and from then on the only profile that can be is the thread's
own.

The same module proves `ListsTheAir` and `FindsTarget` of `IwScan`, whose list both
builds make, for scans of any number of stations and any `MAX_ENTRIES`. No induction
over the text is needed: the invariant `ParseInv` says what each reader knows at the
line it has come to. `Reading`: of the block it is in, `cur` has the fields of the
lines read so far (`Known`), and at a header those of the whole block before;
`Listed(Committed)`: the list is right for the blocks that have been committed;
`FirstHit`: each hit is that of the first wanted station among those whose SSID line
was read (`Searched`). `KnownNext` says what a line adds, `KnownAuth` that a whole block
tells its authentication, `CommitKeeps` that a commit makes the list right for one
block more. Assumptions (`AirAssumption`): the schemes of security are those of
`SecLines`, and stations in the ranges of `freq_to_channel` are on channels, at which
they transmit; without this, `freq_to_channel` accepts frequencies such as 5190 that
`write_wpa_config` does not list.

**`FlowProofs`** proves for any finite set of producers, any slots, limits and
modes that the assertion of the fetch holds (`FetchFinds`), that every step of `Flow`
is a step of `FrameQueue` or changes none of its variables (`QueueSafe`, the safety
part of `QueueSpec`), and that frames stay in order (`InOrder`). The
unlocked reads are what makes this more than mutual exclusion. For the fetch,
`Fetching` says that a slot which looked non-empty is empty only while a producer
that has dropped its front still holds the mutex to put the new frame. The rest of
`Inv` ties each mutex to the producer between its lock and unlock (`LockHeld`).
`InOrder` rests on a second invariant, `OrderInv`: what was handed over carries
numbers its producer has done with (`Numbered`), ascending for each producer
(`Ascending`), with no gap if the slot loses none (`Gapless`); the lemmas `Concat*` say
what append, tail and moving the front do to the fetched and waiting frames together.
**`FlowBoundProofs`** proves that slots keep their limits (`Bounded`). `RoomBlocking`
counts: the frames in a blocking slot and the producers that have seen room
(`Committed`) are together at most the limit less one plus the number of its
producers, since the last one to look saw a slot below its limit.
Assumptions: finitely many producers, each feeding one slot.

**`FilesProofs`** is about what is kept in files, and about the statistics (the run
`files`).

- `KeepsRecent`, for every number of slots. The invariant `Ring` says that a slot's
  distance from the index, going back around the ring, bounds the number of boots
  since it was written, for as many slots as have been published since the index was
  last spoilt; `Ahead` that `log_init` works on the slot after the index.
- For any threads, limit and line lengths, a slot exceeds its limit by less than a
  line (`SlotBounded`) and nothing follows the marker (`MarkerIsLast`). `PrintInv`
  adds that the owner of the stream's lock alone counts, that what is written and
  not yet counted is its own line (`LockGuards`), and that only a running daemon has
  a full slot (`Running`). `RotatesUnderneath` shows that `LogPrint` implements
  `LogRotate`, so that the theorems on the rotation hold with the threads writing.
- `NothingSkipped`, for any ring, record length and limit. `Copying` adds that the
  record in the buffer is the one before the next to be read and that no copied one
  comes after it.
- `HomeWhole` and `PersistHonest`, for any number of workers. `HomeInv` adds that
  whoever leaves `atomic_write_file` takes the temporary name away, so that a writer
  which is alone and finds a file of that name has opened and truncated it itself
  (`Alone`), and that the temporary file is never the visible one.
- `ZoneIsSet`. `ZoneInv` adds that the link which is renamed is the one just made,
  although one left behind by a killed daemon may be in its place before.
- `TopIsTop`, for any processes, times, size of a sample and N. `Charged` adds what a
  process may be charged with since the last sample, also when its number was reused or
  that sample had no room for it; `Fair` and
  `Sorted` say what the selection sort has done after n rounds. A sample lists
  processes by ascending number, so the proof needs that every element of a finite
  set of numbers has a place in it and every place an element (`NthIs`, `NthOf`); this
  is shown with the least element that has none (`Least`).

**`WireProofs`** is about what passes between the daemon and the phone.

- `AdvertisesLiveApp`, for any number of tries. `SetupInv` adds in which order the
  main thread and the registration thread get there.
- `SerialSendsKeepValue`, for any workers, heap and frames. `TxInv` says that until two
  threads meet, at most one is inside (`EnterAlone` is what keeps that so), and from each
  append to the next free there is one live cell, whichever thread sent it (`Serial`).
- For scan lists of any length, every entry is sent once and in order, only the last
  frame ends the list, and the payload limit never cuts a frame (`FramesFull`: five
  entries of the longest SSID take 183 of the 220 bytes; lemma `Room`). `PushInv` adds
  what is in the frame being filled (`Filling`).
- `HandlesWholeFrames`, for frames of any number, with any header and any payload of
  up to 65535 bytes, and for a read that ends anywhere. `Streamed` says where each
  frame of the client begins and ends and that its bytes are there, as far as the read
  goes; `Taken` that the loop is at the beginning of a frame and has handled all
  before it. So what `proto_decode` is given is the beginning of what `proto_encode`
  wrote (`BytesAre`), and it returns OK, with that very frame, exactly if the frame
  is there as a whole and not too long (`Decodes`, `AtFrame`).

The constants' assumptions are evaluated by TLC in the runs, and the inductive
invariants were checked with TLC on the runs' instances before they were proved.

Only model-checked: liveness (outside the prover's reach), and with it the liveness
part of `QueueSpec`. Every safety invariant and action property of a passing run is
proved.

## Where the code and its documentation disagree

Each is a run that TLC ends with a counterexample; the quotations are under
`findings` in `PROJECT.json`.

| run | property | what happens |
| --- | --- | --- |
| `dispatch_push_first` | `RespFirst` | a worker that finds the switch busy pushes its result before the handler has sent the RESP IN_PROGRESS that the protocol document puts first |
| `ble_tx_worker` | `UsesLiveValue` | a PUSH and the main loop free `s_tx_value` under each other |
| `wifi_monitor_steps_on_join` | `MonitorSparesJoin` | the monitor resets a connection made after it last looked |
| `scan_listed_not_found` | `ListedIsFound` | a network whose name iw prints with escapes is listed to the phone and not found by the join |
| `flow_stop_lost_wakeup` | `StopsAllThreads` | `StopAllThread` notifies between the coroutine's test of `quit` and its wait, and the join never returns |

The models also contain, without a run of their own, some behaviour that the comments
deny or that their reader may not expect: while the AP is up the RK3566 monitor does
not try the stored network again (`MonCheckAp`), though the A733 one does and
`wifi_switch.h:20` says "on failure retry every 60 s"; the index file can be empty after
a loss of power (`PowerLoss` of `LogRotate`), which the rename is to avoid according to
`sys_stat.c:149`, and so can the credential file (`LosePower`, beside
`wifi_switch.h:61`: "a crash mid-write cannot leave an empty file", which holds of a
killed daemon); the TOP5 line leaves out a busy process whose number was used before
(`Entries`, beside `sys_stat.c:79`: the five processes whose CPU time rose most) and
charges one that the last sample had no room for with its whole life, as if it were
new (`sys_stat.c:447`); the monitor's radio
reset loses the priming a 5 GHz network needs (`MonRecover`); a band that could not be
written is not the one wpa_supplicant is given (`StaScan`, `CanAssociate`); the stored
network is read at boot before the mutex is taken and written after it is released
(`Boot`, `Persist`), so it need not be the joined one; a failed `run_now` that found no
AP leaves none (`NotJoined`); two workers that store at the same time can leave a torn
credential file (`WriteBody` with `spoilt`); and a log line of `trigger_wifi_connect`
reads a job that its worker may have freed (`LogSpawned`, `FreeJob`).

## What is not modelled

- Of the modelled parts: the contents of log lines, the level filter, the debug mode
  that logs to stderr and `log_shutdown`, which nothing calls; property tables,
  introspection data and the pairing agent of the GATT server; the lines of
  `sys_stat.c` other than TOP5, which are formatted counters; the quoting of shell
  commands and of the credential file. None of them takes part in a state change.
- That writing to a socket whose peer has gone does not end the daemon with SIGPIPE:
  GLib ignores the signal once the BLE thread has opened its bus connection.
- A read of the socket that begins in mid-frame because the one before ended there:
  `ProtoCodec` follows one read, from the beginning of a frame.
- Of the media flows: the SYNC and ATOMIC models, the set-up of slots and the flows
  built on the base class.
- `main.c` starts the threads and joins them.
- The other programs of the repository, which are most of its lines: `dbserver`,
  `librkdb`, `libIPCProtocol`, `libgdbus`, `aiserver`, the rest of
  `rkaiq_tool_server`, `eptz_demo` and the Qt applications are vendor, generated or
  third-party code around libraries that are not in the tree, or user interfaces
  whose state is in Qt's widgets; `myapp` is the predecessor of `time_sync.c`.
  `PROJECT.json` lists each with the reason.
