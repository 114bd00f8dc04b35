# IGNIS: formal models and proofs

IGNIS watches a camera for visual signs of fire. A Raspberry Pi (`src/poc/pi`) decides
locally, frame by frame, whether there is an incident; it reports over one TCP connection
to a backend (`src/backend`), which stores the incident, asks the occupant, escalates when
nobody answers and, where that is enabled, has one demonstration call placed through an
external provider. A browser (`src/frontend`) shows the state and carries the operator's
actions. `src/qnx` is a second, C++ edge for QNX with its own incident engine, watchdog
and stream service.

This directory holds TLA+ models of that program, the TLC configurations that check them
on small instances, and theorems about them proved with TLAPS for every instance.
`PROJECT.json` maps each definition of a model to the source lines it stands for.

| file | role |
|---|---|
| `IncidentCoordination.tla` | the coordination backend: incidents, timers, operator, calls, provider |
| `CallLedger.tla` | what that backend promises about calls and answers (abstract) |
| `FireVerifier.tla` | the edge's temporal gate, one action per camera frame |
| `DeviceLink.tla` | the TCP link of edge and backend: handlers, registry, devices row, restarts |
| `LocalIncident.tla` | the course of an incident as the verifier promises it (abstract) |
| `EdgeReporting.tla` | the edge's loop, its log and its reports; runs on `LocalIncident` |
| `PacketStream.tla` | the backend's packet parser and the receiver's loop around it |
| `PacketQueue.tla` | what those promise: a FIFO of packets (abstract) |
| `LiveDashboard.tla` | the WebSocket hub, its announcements and what browsers show |
| `IncidentEngine.tla` | the C++ incident engine of the QNX edge |
| `RunLock.tla` | the start of the edge on the Pi and its lock |
| `MC*.tla`, `MC*_*.cfg` | instances for TLC |
| `*_proofs.tla` | theorems and their proofs |


## 1. Inventory

### 1.1 Components

**Incident coordination** (`backend/app/database.py`, `escalation.py`, `communications.py`,
`main.py`).
*State:* rows of `incidents` (hazard and response state, `confirmed_at`, `resolved_at`,
occupant response), of `incident_events` and of `call_attempts`; one asyncio task per
incident that waits for the response deadline; requests in flight to the provider; the
arming switch. Only the rows survive a restart.
*Operations:* store a device's update; start, fire and cancel the deadline; confirm,
cancel, reset, dispatch (operator or occupant); reserve and place a call; take the
provider's answer; take the provider's webhook; arm, disarm.
*Hard:* every `await` lets any other operation run. A cancel races a timer past its
deadline, two requesters race for the one call, the POST's answer races the webhook and
the operator, the device replays old states, the process restarts anywhere.
*Correct when:* a call needs a visual confirmation, the per-incident limit and the global
cooldown hold, nobody is escalated twice, an answer is never replaced by "no response", a
cancelled incident starts no call, an incident that waits for an answer gets a verdict.

**Edge verifier** (`poc/pi/ignis_poc/core.py`, class `FireVerifier`).
*State:* a bounded deque of "was this frame relevant", the open incident with its first and
last relevant time and whether it is confirmed.
*Operations:* `update()` once per frame.
*Hard:* four thresholds (two in frames, two in time, one more for silence) share one chain
of ifs; the camera may stall; an incident must not inherit the frames of the one before.
*Correct when:* confirmation is earned by frames of this incident over the required time,
is lost only to the reset silence, and is what is reported.

**Device TCP link** (`backend/app/tcp_server.py`, `device_registry.py`, the `devices` table;
the edge's `BackendStream` in `poc/pi/ignis_poc/edge.py`).
*State:* per connection a handler coroutine, its parser and the boot id it greeted with;
the registry (device to connection); `devices.connected` and `boot_id`; on the edge the
socket and the sequence counter.
*Operations:* connect, HELLO and ACK, supersede an older connection, dispatch updates and
events, EOF and errors, disconnect; crash and restart of either side.
*Hard:* the old and the new handler of one device interleave; closing a writer does not
stop the dispatch of what was buffered; half-open connections; a late HELLO.
*Correct when:* exactly the live connection is registered, the row says so, data does not
go back in time, and the link heals without anybody restarting the edge.

**Edge loop** (`edge.py`, `run` and `BackendStream`).
*State:* `last_state`, the local log, the socket, `next_reconnect`.
*Operations:* per frame: capture, verify, log, and up to five packets in a fixed order.
*Hard:* it is one thread and sends on a socket without a timeout; `last_state` outlives the
incident it speaks of; a backend that is not armed drops updates but not events.
*Correct when:* the log tells the whole incident whatever becomes of the packets, events come
after the update that introduces their incident, inference never stops for good, and a
confirmed incident is served once the network and the operator allow it, and stays served
when the backend restarts.

**Packet protocol** (`backend/app/protocol.py`, `poc/pi/ignis_poc/protocol.py`,
`qnx/common/src/protocol.cpp`): a 32-byte header, CRC, an incremental parser with a buffer
limit. *State:* the buffer, the header whose payload is awaited, the last sequence number.
*Correct when:* for every split of the stream the handlers get the packets that were sent, in
order and without gaps, and no legal stream is refused.

**Live dashboard** (`backend/app/websockets.py`, the announcements in `main.py`, `tcp_server.py`
and `escalation.py`, `frontend/src/state.ts`, `hooks/useIgnisSocket.ts`).
*State:* the hub's clients; per browser its socket and the reducer's state.
*Operations:* join with a snapshot, broadcast, drop a slow client, reconnect, reduce.
*Hard:* snapshots race broadcasts; a task awaits something between its change and its
announcement; the provider's report changes the row and is not announced as such.
*Correct when:* the arming switch is never shown wrong, snapshots lose nothing and never go
back, and a browser that stays connected shows the current incident in the end, as long as
the edge reports it to an armed backend.

**QNX incident engine** (`qnx/common/src/incident.cpp`): the C++ sibling of the verifier.
*State:* the window of frames, the incident with its hazard and response state, degraded mode.
*Operations:* `process` per frame; `cancel`, `confirm_occupant`, `manual_reset`, `set_degraded`.
*Hard:* long sequences of legal calls: a reset incident that goes out of sight, a cleared
suspicion whose window stays, a state rebuilt after degraded mode.
*Correct when:* what is shown agrees with what happened, the occupant is asked once.

**Launcher lock and restart loop of the Pi** (`poc/pi/run-poc.sh`, `watchdog.sh`).
*State:* a lock directory and the pid in it; the shells and the edges.
*Operations:* take the lock, judge it stale, remove it, start the edge, name it in the lock,
clean up; signals to the shell.
*Hard:* every command is a step, and shell and edge die separately.
*Correct when:* no edge is started beside one the lock names, and no lock left behind keeps
the next start out.

**QNX watchdog** (`qnx/watchdog_service/src/main.cpp`): restarts children within a budget per
sliding minute. **QNX stream service** (`qnx/stream_service/src/main.cpp`): backoff.
**Frame ring, evidence buffer** (`qnx/common/include/ignis/`): an in-process ring that copies
frames in and out, and a buffer bounded in bytes and age.

**Rate limiter, configuration store** (`backend/app/rate_limit.py`; the versioned store of zones
in `database.py`, whose announcements are in `LiveDashboard`).

**Without state of their own, or hardware:** observation formatter, settings and logging,
LCD, camera capture and model decoding, geometry, the QNX alarm, camera and inference
services (stubs around vendor interfaces), simulator, browser views, training scripts,
build and deployment. `PROJECT.json` lists each with the reason it is not modelled.

### 1.2 How they interact

```
 camera -> FireVerifier -> edge loop -> BackendStream ==TCP== handler -> incidents/events rows
                                                        |        |
                                                    registry   observe() -> deadline task
                                                        |                      |
   browser <- WebSocket hub <- announcements <----------+      request_demo_call -> provider
      |                                                               ^              |
      +-- POST confirm / cancel / reset / dispatch -------------------+   webhook <--+
```

* The verifier's hazard state decides what the edge asks for: `AWAITING_RESPONSE` goes with
  CONFIRMED and VISUAL_SIGNATURE_LOST of a confirmed incident. `ReportsVisible` (verifier)
  is therefore the assumption behind the reports that `IncidentCoordination` is given.
* `FireVerifier` implements `LocalIncident` (`KeepsPromise`), and `EdgeReporting` takes its steps
  from `LocalIncident`: what is shown of the loop holds for the verifier's real thresholds.
* The link delivers those updates, possibly twice (several are sent) and, across a
  superseded connection, out of order. `IncidentCoordination` lets any report arrive at any
  time and any number of times, which contains all of that.
* The receiver calls `observe` after a broadcast it awaits; nothing else starts a deadline.
* All backend components share one event loop and one synchronous SQLite store: code
  between two awaits is atomic.


## 2. Plan

Ordered by how much rests on the component.

1. **IncidentCoordination** with **CallLedger** as its abstract specification. *Done:*
   3 runs, 11 theorems.
2. **FireVerifier**. *Done:* 1 run, 7 theorems.
3. **DeviceLink**. *Done:* 3 runs, 4 theorems.
4. **EdgeReporting** over **LocalIncident**, which FireVerifier implements. *Done:* 1 run,
   3 theorems, and the refinement proved.
5. **LiveDashboard**. *Done:* 1 run, 4 theorems.
6. **PacketStream** refining **PacketQueue**. *Done:* 1 run, 3 theorems.
7. **IncidentEngine** (QNX). *Done:* 1 run, 3 theorems.
8. **RunLock**. *Done:* 1 run, 4 theorems.

Every safety and action property of the runs that pass is proved. Left: models of the **QNX
watchdog**'s restart budget over a sliding window and of the **rate limiter**.


## 3. The models

### 3.1 IncidentCoordination

One action is the code between two awaits. Where a coroutine waits is state:

| TLA+ | code |
|---|---|
| `hazard_state`, `response_state`, `confirmed_at`, `resolved_at`, `occupant_response` | the row of `incidents`; "ABSENT" before the first update |
| `no_response_events` | NO_OCCUPANT_RESPONSE rows of `incident_events` |
| `attempts`, `call_incident`, `call_status`, `requested_at` | rows of `call_attempts` |
| `observing` | an update is stored, `_dispatch` awaits the broadcast, `observe` comes next |
| `timer = "sleeping"` | `ResponseTimeoutManager._wait` in its sleep |
| `timer = "announcing"` | the escalation is stored, the task awaits its broadcasts |
| `timer = "posting"`, `flight = "timer"` | the task awaits the provider's answer |
| `flight = "api"` | the dispatch endpoint awaits the provider's answer |
| `provider` | external: what the provider did with the request |
| `armed`, `now` | `app.state.armed`; the clock of the cooldown |
| `failed_once` | history: attempts that were FAILED at some time |

`DeviceUpdate` is `_dispatch` up to the broadcast, with the whole of `upsert_incident`
(backend-owned responses are kept, `confirmed_at` and `resolved_at` are written once);
`Observe` is the rest. `TimerReturns`, `TimerEscalates`, `TimerBlocked` and `TimerCalls` are
the pieces of `_wait`. `Confirm`, `Cancel` and `Reset` are the endpoints with the guards of
their early returns; the first two cancel the task at whichever await it is, and a POST it
waited for is abandoned with the attempt left as it stands. `CallAllowed` is the policy of
`request_demo_call` and `reserve_call_attempt`, between which nothing is awaited.
`PostReturns` has every outcome of the request: accepted, refused, timed out (UNKNOWN), a
connection error before or after the provider acted (FAILED); `PostUnreadable` is an
accepted request whose body does not parse. `ProviderCallStatus` is the webhook: it may be
late or repeated, and it goes to the incident's latest attempt. `Restart` may happen at any
await.

Left out: evidence columns (confidences, boxes, zones), wording of events, authentication.
The deadline's length is left out too: a sleeping task may wake at any time, which contains
every length.

`CallLedger` is the policy alone: who was seen confirmed, which calls were requested, for
whom and when, which failed, and the verdict about the occupant. `ImplementsLedger` maps
its variables to the rows (`Ledger == INSTANCE CallLedger WITH ...`).

### 3.2 FireVerifier

`Frame(gap)` is one call of `update()`; `gap` is the time since the last frame, from the set
`Gaps`, so that a stall of the camera is an ordinary step. `Relevant` and `Irrelevant` are
its two halves. The deque of booleans is modelled as the set of the numbers of relevant
frames still in it: only its sum is read, and a frame leaves by age. Confidences are
abstracted to whether a detection reached its threshold. `evidence` is history: all
relevant frames of the open incident.

### 3.3 DeviceLink

Connections are numbered in the order the edge opens them, and each has a handler on the
backend. `wire[c]` is what the handler of `c` has not dispatched: in the network, in the
reader's buffer or in the chunk at hand. When the backend closes a writer, or the network
goes away, any prefix of it may still be dispatched (`Prefixes`).

`Connect`, `Open`, `Notice`, `Lose`, `Crash` and `Send` are the edge: `connect()` up to the
ACK, its return, a send that fails because the backend closed, a timeout or a failing send
on a dead network, the death of the process, `send()`. `Hello` registers, stores the row
and writes the ACK in one step, because neither the registry's lock nor the store suspends;
`Greeted` follows the broadcast it awaits. `IncidentUpdate` and `TimelineEvent` dispatch;
arming is a free choice, since the operator may change it at any time. `Leave` is the
`finally` block up to its broadcast, `Close` the rest. `Restart` is the backend's.

One device only: connections of different devices share nothing but the event loop. Left
out: rejected HELLOs (token, version, device), control packets to the device, and the
packets that only refresh the latest frame, detections and health.

### 3.4 EdgeReporting and LocalIncident

`LocalIncident` is the course of an incident: opened, verified, confirmed, out of sight and
back, ended; nothing of frames and times. `FireVerifier` implements it.

`pc` is the place in `run()`: at the camera, or before the send of a packet. `Capture` is one
frame with at most one step of the verifier. `After` is the order of the frame's packets: an open
incident is reported with every frame, an event only if the state differs from
`last_state`, and `Sent` writes the log before the event and `last_state` after it. A send ends
in one of six ways: `Write`, `Connect` (the connection is opened for this packet), `ConnectFails`,
`Skip` (within the two seconds of `next_reconnect`), `WriteLost` (the kernel takes it for a dead
connection) and `WriteFails`. When the buffers are full and the network is silent, none of
them is enabled: that is `sendall` on a socket without a timeout (`edge.py:128`).

`wire` is TCP's buffers, in order and bounded. `Dispatch` is the backend's handling of the next
packet with the merge of `upsert_incident` and `observe`; an event of an incident without a row
ends the connection with all that is behind it. A backend that is not armed ignores updates.
`Outage` refuses connections ("down") or lets them hang ("silent"), where `KernelGivesUp` ends
them; `Restart` loses connections, timers and arming. What a superseded connection still
dispatches and the edge's own crash are DeviceLink's subject. `logged`, `ignored` and the
packet's `opener` are history.

### 3.5 LiveDashboard

The row of one incident and the zone configuration are version numbers; the arming switch is a
Boolean. A broadcast is one step (`Broadcast`): the hub serialises and picks its clients when
called, and its sends begin in the order of the calls, so that each client's `channel` is a FIFO.
`Join` is `connect()` after the accept: adding the client, taking the snapshot and beginning its
send have no await between them. `Slow` drops a client from the hub and leaves its socket open.
`DeviceUpdate` is the receiver, which awaits nothing between store and broadcast: the update
gives the row its next version or repeats the one it has, and while the backend is disarmed it is
neither stored nor told. `edge` says whether updates of the incident arrive: "reporting" with
every frame, "away" without a connection, "over" when the incident has ended and its last update
is dispatched (`EdgeTurns`). `Decide` and `PutZones` are the endpoints and the timer, whose
announcement waits in `waiting` while they await the device or another broadcast, and `Announce`
its end; `ProviderReport` changes the row without announcing it. `Reduced` is the reducer: each
part of the view is replaced where the message has that part.

`CatchesUp` has the three premises under which a stale row heals: the browser stays in the hub, the
backend armed and the edge reporting. None can be left out. The row changes unannounced with
`ProviderReport`, and goes back by an announcement that was overtaken; only the edge's next
update puts that right, and there is none that counts once the incident is over or the
backend disarmed.

The hub treats its clients independently, so one browser is enough for the run. Three effects no
property excludes, since nothing in the code does: a browser dropped by `Slow` believes itself
live until its socket ends; a row that changed without an announcement after the incident's end,
or while disarmed, is shown as it was until the next snapshot; and of two zone configurations
announced in the inverse order the browsers keep the older one until the next snapshot.

### 3.6 PacketStream and PacketQueue

A byte is the packet it belongs to and its place there, so a parser out of step would read
bytes that do not form a header or do not match a checksum. `Read` is one read and the
size check of `feed()`, `ParseHeader` and `ParsePayload` the turns of its loop, `Fed` its return,
`Handle` the receiver's check of sequence numbers and of HELLO. Damage of header or payload is an
attribute of the packet. `Reject` also drops what was parsed from the same chunk, as an
exception from `feed()` does.

`PacketQueue` dispatches by index: no gap, no damaged packet, HELLO first, sequence numbers
growing. The parser refines it with its fairness.

The size check counts the whole chunk against one packet of the maximal size. A legal packet
longer than `MaxPayload + HeaderSize + 1 - ChunkSize` (with the defaults 2,031,649 of 2,097,152
bytes) may therefore be refused because of what follows it in the same read;
`LegalStreamAccepted` says that this is the only case. `Acceptable` asks for a packet within
`MaxPayload` beside that one, since with chunks smaller than a header the room for a chunk would
be there for a packet the header's check refuses.

### 3.7 IncidentEngine

`Process` is `process()`, its stages in order: the frame enters the window (`Pushed`), an incident is
opened, verified (`Verified`), confirmed by one of the rules (`RuleMet`, or a stable growth, which
is a free choice as soon as there are boxes enough), and settled by sight or silence
(`Settled`). The other four actions are the owner's calls; a library does not say who makes
them when, so they are free. At this commit only the tests call them.

Legal sequences with results that are easy to miss: after `cancel` and `manual_reset` a silent
frame shows VISUAL_SIGNATURE_LOST, and a later fire re-confirms the old incident with its
response CANCELLED; a cleared suspicion keeps its window, so that a silent frame may verify it;
`set_degraded(false)` shows CONFIRMED for a resolved incident (the tests expect that). The
properties hold through all of them.

### 3.8 RunLock

A step is a command of the shell. A run has a shell and an edge, each a process that can end
without the other; `dir` and `pid` are the lock. `Terminate` is a signal the script traps,
`Kill` one it does not. An edge that ended counts as alive for `kill -0` until its shell has
waited for it. Process ids are not reused, and the write of the pid is one step.

docs/POC_HANDOFF.md:102-104 says that the lock keeps duplicate edges from starting. `OneEdge` is
that sentence, and it does not hold in general: a second start that finds the directory (line
21) before the pid is in it (line 40) takes the lock for stale and removes it, and both
start an edge; and a signal between the start of an edge and line 71 leaves an edge the lock
does not name. `raced` is the history of these circumstances, taken
widely: two shells ran at once, at whatever commands, or a signal came while an edge was
started and not yet named. Without them there is one edge, also when shells were killed and left
edges and locks behind (`OneEdgeUnlessRaced`), and a start that runs alone is never kept
out by such a lock (`StaleLockYields`). Under any concurrency, a lock that names a live edge and
that nobody has yet judged stale holds until the edge ends (`HeldLockStands`).


## 4. What the runs check

| run | instance | shows |
|---|---|---|
| `coord_safety` | one incident, limit 1, cooldown 1, 2 attempts, restarts | `TypeOK`, `CallsOnlyConfirmed`, `TimerServesEscalation`, `EscalatesOnce`, `RetryOnlyAfterFailure`, `ConnectedOnlyByCallback`, `AnswerStands`, `CancelledUntilProvider`, and that the backend implements `CallLedger` |
| `coord_timeouts` | two incidents, mock provider, 4 attempts, cooldown 1, clock to 2 | `CooldownKept` across incidents, `AwaitingHasDeadline`, and under fairness `AwaitingEnds` |
| `coord_one_call` | one incident, limit 1, no restarts | a violation: see 6.1 |
| `verifier_gate` | window 5, 4 to confirm, times 5 / 2 / 4, gaps of 1 and 3 | `TypeOK`, `WindowIsOfIncident`, `ConfirmedByEvidence`, `ReportsVisible`, `OpenIncidentIsRecent`, `ConfirmationStands`, and that it implements `LocalIncident` (`KeepsPromise`) |
| `link_recovery` | 5 connections, 2 boots, 2 packets, 1 fault | `TypeOK`, `RegistryIsLive`, `RowFollowsRegistry`, `RegressOnlyBuffered`, and under fairness `Reconnects` |
| `link_order` | 3 connections, 2 packets, 1 fault | a violation: see 6.2 |
| `link_events` | the same | a violation: see 6.3 |
| `edge_outages` | 2 incidents, 2 packets on the wire, 1 fault | `LogIsComplete`, `EventsAreAnnounced`, and under fairness `LoopReturns` and `ConfirmedIsServed` |
| `dashboard_views` | 1 browser, 2 changes of each item, 2 switches or restarts, 2 messages behind | `ArmedAsShown`, `ShownAsStored`, `BackOnlyByAnnouncement`, and under fairness `CatchesUp` |
| `packet_chunks` | header of 2, payload to 3, chunks to 4, 4 of eight kinds of packets | `TypeOK`, `LegalStreamAccepted`, and that the parser implements `PacketQueue` |
| `engine_history` | window 3, 2 required, gaps of 1 and 2, clock to 7 | `ShowsHistory`, `AskedOnce` |
| `lock_excludes` | 3 runs of the script, 2 signals | `OneEdgeUnlessRaced`, `StaleLockYields`, `HeldLockStands` |

### Bounds

* `coord_safety`: two attempts are one more than the limit, so a retry after a failure, and
  any second call that should not be, both happen. `ApiBudget` only stops the endpoints
  from asking for more rows than there are; the timer alone can add one. One tick separates
  "within the cooldown" from "after it". One incident suffices: the properties of this run
  are per incident, and incidents share nothing but the cooldown.
* `coord_timeouts`: the cooldown is what two incidents share, so this run has two; the mock
  provider answers in place, which keeps the instance small, and the asynchronous provider
  is the other run's subject. Four attempts are more than two incidents with a limit of one
  can have; in mock mode nothing fails.
* `verifier_gate`: small thresholds keep all of the order of the real ones that matters
  (`VerifyFrames < Required < Window`, clear before reset), and a gap of 3 lies between clear
  and reset, so that stalls straddle each limit. The clock bound lets an incident be
  confirmed, lost, reset and a second one confirmed.
* `link_recovery`: with one fault there can be a superseded connection, its late HELLO and a
  restart; two boots give two incidents; two packets give "older" and "newer". Connections
  are consumed by refusals as well as by faults: five are enough for every behaviour of this
  instance to end connected, which `Reconnects` itself checks.
* `edge_outages`: the second incident is the one that inherits `last_state`. Room for two packets
  lets an update and its event wait together, and a third packet block. One fault is an
  outage of either kind, a restart of the backend or a disarming; the backend starts
  disarmed and the network may start down, so two troubles do meet.
* `dashboard_views`: two versions are "older" and "newer"; two announcements can invert. Two uses
  of the switch arm the backend and disarm or restart it. Two messages behind are enough for a
  snapshot or a change and one that overtakes it.
* `packet_chunks`: a chunk can hold two whole packets, end in a header, between header and
  payload, or in a payload, and the buffer's limit is met from both sides. Among the packets are
  an empty payload, the maximal one, one above it, a repeated number and both damages.
* `engine_history`: seven ticks let an incident be confirmed, cancelled, reset, lost and followed
  by another; every duration is straddled by a gap of 2.
* `lock_excludes`: one run leaves an edge or a lock behind, the two others find it at once.

Four runs check `TypeOK`. In the other modules it tells the reader the types and is no
property of a run; for IncidentEngine it is proved (`EngineType`).

No symmetry is used: liveness excludes it in most runs, and the others are small enough.

`CHECK_DEADLOCK FALSE` is set where a behaviour really ends: at the bounds of FireVerifier (the
clock) and DeviceLink (connections and packets), with a closed connection in PacketStream, and
when all runs of RunLock are over. Elsewhere deadlock is checked. That shows nothing more in
IncidentCoordination, EdgeReporting and IncidentEngine, where arming, a frame or an operation
of the owner is always possible; `LoopReturns` is the property that speaks of everyone waiting.

### Fairness

* Coordination: weak fairness of `Observe`, of the end of a sleep, of the step after the
  timer's broadcasts and of the POST's return. The event loop runs every ready task; a
  broadcast is cut off after 0.35 s per client (`websockets.py`), the POST has a timeout
  (`communications.py`). No fairness of devices, operator, provider or clock.
* Link: weak fairness of each handler's step (tasks of the same loop, which EOF or data
  wakes) and of `Connect`, `Open` and `Notice`: the edge's loop sends a frame every period,
  so it tries to connect, reads the ACK and meets the error of a closed connection. Faults
  are never fair; there are finitely many of them.
* Edge loop: weak fairness of the loop's step, of the end of the backoff, of the backend's
  dispatching and of the kernel giving up a silent connection (TCP's retransmission limit);
  strong fairness of a failing send on a dead connection, which the kernel reports after at most
  a few. The network need not come back and nobody need arm: `ConfirmedIsServed` has both as
  premises. Its conclusion is `<>[]`: that the incident had a timer once, before a restart that
  forgot it, is not enough.
* Dashboard: weak fairness of a browser's reading and reconnecting, of the announcements and of the
  device's update, which every frame repeats while the edge reports and the backend is armed: only
  then is the step enabled. None of arming, of the edge's connection or of the incident's course.
* Packets: weak fairness of the receiver's task.


## 5. What is proved

The proofs hold for every value of the constants under the named assumptions of the modules
(`IncidentAssumption`, `ReportAssumption`, `ModeAssumption`, `LimitAssumption`,
`RestartAssumption`; `ThresholdAssumption`; `LinkAssumption`; `ReportingAssumption`;
`DashboardAssumption`; `StreamAssumption`; `EngineAssumption`; `RunAssumption`): the constants have
their types, at least one call is allowed, thresholds of silence, headers and chunks are positive,
and a chunk is at most one byte longer than the longest payload (64 KiB and 2 MiB in the code).
TLC evaluates them in each run.

**`IncidentCoordination_proofs`**

* `TypeCorrect`. The type invariant is inductive because it says that an attempt row has its
  incident row: without that, the update of an attempt could touch a response that does not
  exist yet.
* `CallsConfirmed`, `CooldownBetweenCalls`, `CallLimit` from one inductive invariant,
  `PolicyInv`. The three are inductive only with the history of failures tied to the statuses:
  an attempt that was never FAILED still counts as active (`update_call_attempt` may rewrite
  a FAILED attempt, so the current status alone says too little). Then "not active" in the
  reservation's query implies "failed at some time", which the properties speak of. The
  lemma `RequestKeepsPolicy` is the reservation, `UpdateKeepsPolicy` everything that rewrites
  a status; all other steps leave the policy's variables alone (`StepKinds` sorts the steps).
* `EscalatedOnce`, `AnswerNeverLost` from `VerdictInv`: once anything is recorded about the
  occupant, or an escalation has been logged, the response is settled, so that the timer,
  which needs AWAITING_RESPONSE, is past its chance.
* `TimerServed` from `TaskInv`: a task that posts has a request in flight, every such request belongs
  to a task that posts, and an incident has at most one: without the last, the end of one
  request could leave the task waiting for none.
* `DeadlineKept` (`AwaitingHasDeadline`) under two assumptions: the process is not restarted, and
  reports ask for an answer only when the hazard is visible. The second is what `ReportsVisible`
  proves of the edge; the first is needed, since deadlines are not restarted from the store.
* `ConnectedByCallback` (`ConnectedOnlyByCallback`) under the assumption that no device reports a
  connected or completed call, which `edge.py` never does.
* `CancelledStays` (`CancelledUntilProvider`) from `TimerServesEscalation` and `SentInv`: a request
  that is awaited, or that the provider may report on, was sent; the mock sends none. The webhook
  is the step that needs it, because it writes to the latest attempt, which need not be the one
  it is about. No step of a timer or an endpoint can reserve a row for a cancelled incident.
* `Implementation`: `Spec => ImplementsLedger`, by a step simulation that uses all three
  invariants; every step is one of the ledger's or leaves its view unchanged.

**`FireVerifier_proofs`**: `VerifierType`; `WindowKept`, `ConfirmationEarned`, `ReportedVisible`,
`RecentlySeen` and `ConfirmationKept` from one invariant, `GateInv`, the conjunction of the four
state properties. None of them is inductive alone: that a confirmation has enough evidence
needs the window to be a part of the evidence (`WindowIsOfIncident`), since `update()` counts
the window; that the report and the flag agree needs `TypeOK`'s clause that no incident means
a fresh state. Counting rests on the library's `FS_Interval` and `FS_Subset`.
`PromiseKept` is the implementation of `LocalIncident`, for thresholds with
`Required > VerifyFrames` (the code's defaults are 6 and 3): otherwise an incident could be
confirmed by the frame that should verify it. Besides `GateInv` it needs `SuspicionIsWeak`, that
an incident shown as SUSPECTED has too few frames to be verified: no frame then skips a state.

**`DeviceLink_proofs`**: `LinkType`; `RegistryServed` and `RowTruthful` from `LinkInv`, which adds
what makes the handlers' interleaving harmless: a connection that is closing has greeted
or is done, one that has left is out of the registry, and connections not yet opened are
untouched. Without the first, a closed connection could still greet and displace a good
one. `DeliveredInOrder` (`RegressOnlyBuffered`) follows from two more invariants. `Queued` is
about the wires: packets lie on a connection in the order they were raised; what is on a later
connection, but for its HELLO, is newer than all that is left on an earlier one; nothing is
newer than the clock; the edge uses the last connection it opened and sends nothing but HELLO
before the answer. `Current` is what the registry adds: the registered connection has nothing
left that is older than what is stored, and if a newer one greeted before it (its own HELLO
was late) it has nothing left at all. That last clause is what makes `Current` inductive: an update
dispatched for a newer, superseded connection would break it otherwise. Every other step only
cuts wires, at the front or at the end (`Cut`), and `CutQueued` and `CutCurrent` settle
all of them at once.

**`EdgeReporting_proofs`**: `ReportingType`, with `NamesOne`: what is told of an incident names
one. `LogTellsAll` (`LogIsComplete`) from `LogInv`, which says at each place of the loop what has
been told by then: between the camera and the update, `last_state` decides whether the present
state still is to be. `last_state` outlives the incident, so `LogInv` also keeps what it says of
the one before: if that ended as a mere suspicion, the next incident's first suspicion goes
untold, and its VERIFYING is told nevertheless. `WireLogged` ties the packets on the wire to the
log. `EventsAfterUpdates` (`EventsAreAnnounced`) from `UpdateFirst`, which adds the place between
the sends of update and event: there, on an open connection, the update is on the wire, or the
backend has the row, or it ignored the update.

**`LiveDashboard_proofs`**: `DashboardType`. `BackByAnnouncementOnly` (`BackOnlyByAnnouncement`) from
`OrderInv`: in a client's channel no message but an announcement carries an older version than
the view or a message before it, and nothing is newer than the store. `SwitchIsShown` and `StoreIsShown`
(`ArmedAsShown`, `ShownAsStored`) from `EndsInv`: the last mention of an item in a client's
channel, or the view where there is none, is the switch as it is, and a version at least as new
as the one broadcast last. Both speak of the whole channel, since what is shown once all is read
depends on all that is still to be read.

**`PacketStream_proofs`**: `StreamType`; `LegalStreamStands` (`LegalStreamAccepted`) and
`StreamIsQueue`, the initial condition and the steps of `ImplementsQueue`, from `StreamInv`:
there is a position for each packet such that the packets lie one behind the other in buffer and
wire (`Laid`), the buffer begins at the header, or behind the header, of the packet the parser
waits for (`Aligned`), the packets parsed and not yet handled are the next ones (`Consecutive`),
and the sequence numbers stand where the receiver's check expects them (`Numbered`). From the
layout follow the two facts everything rests on: a header's length of bytes at that place is the
packet's own header (`HeaderFound`), and the payload that is cut off is its own (`PayloadFound`),
however the chunks were cut.

**`RunLock_proofs`**: `LockType`; `OneEdgeAtATime` and `LeftLockYields` (`OneEdgeUnlessRaced`,
`StaleLockYields`) from `LockInv`, which holds until the history `raced` is set: at most one shell runs;
a live edge is named by the pid in the lock, except between the start of the edge and its
naming; a shell that is past the judgement that the lock is stale has no live edge beside it.
`HeldLockKept` (`HeldLockStands`) is an action property with no such condition, and needs no more
than the types: `Held` already says that nobody has judged the lock stale, and a shell that reads
it now meets a live pid.

**`IncidentEngine_proofs`**: `EngineType`, `HistoryShown`, `OccupantAskedOnce` from `EngineInv`: besides
`TypeOK` and `ShowsHistory` it says that a shown DEGRADED means degraded, that the window holds
no more relevant frames than were seen, that VERIFYING has `Required` of them behind it, and
that RESOLVED goes with CANCELLED. `ProcessEffect` sums up the stages of `process()` once, so that
the case analysis is over outcomes; `PushKeepsWindow` is the counting in the bounded window.

**Only model-checked.** Liveness (`AwaitingEnds`, `Reconnects`, `LoopReturns`, `ConfirmedIsServed`,
`CatchesUp`, and the fairness `ImplementsQueue` contains) is outside what the prover can do: it
needs ENABLED and an induction on how far the system is from its goal. `AwaitingHasDeadline` and
`ConnectedOnlyByCallback` are proved under the assumptions named above, which the instances of
their runs meet. The violations are counterexamples and have nothing to prove.


## 6. Where code and documents disagree

1. **One call per incident** (`coord_one_call`). README.md:47 says the limit is enforced
   transactionally. The reservation is, but `communications.py:197-204` records every
   connection error as FAILED, also one that came after the provider accepted, and FAILED
   attempts do not count (`database.py:403`): the next request places a second call while the
   first rings. What does hold, and is proved, is `RetryOnlyAfterFailure`.
2. **Ordering by `monotonic_ns`** (`link_order`). docs/decisions.md:4. `upsert_incident` stores
   whichever update is dispatched last (`database.py:248`); packets buffered for a superseded
   connection are dispatched after newer ones. What does hold is `RegressOnlyBuffered`: no
   other way leads back.
3. **Durable events** (`link_events`). docs/decisions.md:6. An event raised while there is no
   connection is dropped (`edge.py:148`), and the loop does not try again.

Plain readings that need no run: docs/POC_HANDOFF.md:99-100 lets the alarm display return to
the logo five seconds after the last relevant detection, while `reset_seconds` is ten by
default (`core.py:54`) and nothing sets another, so that at five seconds an incident is only out
of sight. docs/decisions.md:6 says that slow network consumers cannot back-pressure the capture:
a silent network does, since `sendall` blocks the loop for as long as the kernel keeps the
connection; `LoopReturns` shows that it ends then. And the sentence on the launcher's lock needs
the qualification of 3.8.

Behaviour worth knowing that no document contradicts:

* An incident whose state changed at every single reconnection, just between the sends of the
  update and of the event, would have each event rejected and its connection ended. So
  `ConfirmedIsServed` speaks of a state that settles.
* Deadlines are not restarted from the store after a restart; the device's next report of the
  incident to an armed backend makes that good (`ConfirmedIsServed`), and nothing else does.
* The provider's report changes the row and only a `call_update` is broadcast. Browsers show the
  new response with the device's next update; if the incident has ended or the backend is
  disarmed by then, they show the old one until they reconnect.
* Cancelling a timer that posts leaves its attempt REQUESTED for ever, which blocks later calls.
* The reset by the operator lasts until the device's next update.


## 7. Not modelled

| part | why |
|---|---|
| QNX watchdog, stream service | outside the POC (README.md:39); the watchdog's restart budget is a sequential loop per child and the next candidate |
| frame ring, evidence buffer | in-process headers for portable tests: nothing of the repository reads the ring beside its writer |
| rate limiter | IncidentCoordination lets every operator request through, which contains what it lets through |
| C++ packet parser | nothing of the repository connects it to the backend |
| payload codecs, observation formatter, settings, logging | pure functions, or read once at the start; the values that matter are constants of the models |
| LCD, camera capture, model decoding, QNX alarm, camera, inference | hardware I/O, stubs around vendor interfaces, floating-point decoding; the verifier sees any sequence of frames |
| geometry, detections, manifests of the QNX library | stateless floating-point functions; their result is a free choice in IncidentEngine |
| simulator, training, laptop scripts | drivers and batch scripts beside the program |
| browser views, voice panel | rendering, and requests that the models have as the operator's actions |
