# Verification of the Ableton MCP server

TLA+ models of the Ableton MCP server (v0.8.1), the TLC configurations that
check them on small instances, and theorems that TLAPS proves for all of them.
Paths are relative to the repository. `RS/` stands for
`AbletonMCPServer_RemoteScript/`, `SV/` for `ableton_mcp_server/`, `GI/` for
`ableton_mcp_server/groove_intelligence/`.

    tlc -config BridgeSafety.cfg MCBridge.tla      # any run: its .cfg with its MC module
    tlapm BridgeProofs.tla                         # any *Proofs module

## 1. The system

An MCP client speaks stdio to a FastMCP process, which forwards commands to a
Python script that Live itself runs. Everything that touches the Live Set
happens on one thread that belongs to Live and calls `update_display` about ten
times a second; everything else is threads, sockets and deadlines around it.

    MCP tools --(one Client, one lock)--> TCP 9888 --> socket thread --> request_queue
      |                                                   ^                  |
      |                                                   | response_queue   v
      |                                                   +---- process_pending (Live's thread)
      |                                                             dispatch -> handlers -> Set
      +--> WebSocket 9889 (Extension Host, node)                             ^      ^
    controller --> UDP --> receiver thread --> callback_queue --> drain -----+   the user

### Components

| Component | State it keeps | Operations | Hard because |
|---|---|---|---|
| Client (`SV/client.py`) | socket, receive buffer, `_connected`, `_connection_epoch`, capability cache, one lock | `call`, `call_at_epoch`, `connect`, `close`, `connection_snapshot`, capability cache | tool threads share it; replies carry no id; timeouts, reconnects and retries |
| Socket server (`RS/socket_server.py`) | one thread per connection, `request_queue`, `active_request`, a response queue per request | accept, frame, refuse, enqueue, wait, reply; `process_pending` | a wait may expire while the request runs; a client may be gone; frames over 1 MiB |
| Dispatch (`RS/dispatch.py`, `preconditions.py`) | the undo step, the generator of the command in progress | refuse, admit, begin/end undo step, `run_batch`, dry runs | batches fail half way; commands that wait are exposed to the user |
| Verified writes (`RS/transport.py`, `cues.py`, `automation.py`, ...) | attempt counters | write, yield a tick, read back, retry | Live may ignore or defer a write; the user writes too |
| Clip commands (`RS/clips.py`) | - | create, fill, edit, delete | slots change hands between commands |
| Realtime UDP (`RS/realtime_server.py`, drain in `RS/__init__.py`) | armed token, refs, last sequence number, a shared list | arm, disarm, receive, enqueue, drain | datagrams are lost, late, duplicated; the list is shared without a lock |
| Script life cycle (`RS/__init__.py`) | servers and their threads | start, `disconnect`, bind failures | the script is reloaded under running threads |
| Fade and Set life cycle (`RS/lifecycle.py`, `_contracts.py`) | steps of a fade | `live_fade`, save, quit | one request lasts many ticks against a computed deadline |
| Arrangement (`RS/arrangement.py`) | counts before and after | duplicate, move, delete, properties | a move is a copy and a deletion |
| Tracks, devices, automation (`RS/tracks.py`, `devices.py`, `automation.py`) | - | create, write, address a parameter | addresses are ambiguous; writes are verified on later ticks |
| Reads of the Set (`RS/reads.py`, `composition.py`, ...) | - | list, search the browser, diagnose | the browser is a graph, searched under four limits |
| Extension bridge (`SV/ws_client.py`, `SV/device_insert.py`, `AbletonMCPServer_Extension/src`) | a connection per call | RPC, device insertion | reads on one bridge position a write on another |
| Groove panel (`AbletonMCPServer_Extension/groove-brain-gate0`) | helper process, session, mailbox, receipts | start, poll, apply, stop | process life cycle, timeouts, lost commands |
| Groove apply (`GI/apply.py`) | - (receipts) | resolve, require capability, send, draw the receipt | the answer has to be turned into a truthful receipt under failures and restarts |
| Groove corpus, index, search, generation (`GI/...`) | bundle directory, artifact directory | build, open, page, generate, store artifacts | builders and servers share the files; any of them may be killed |
| Groove providers (`GI/neural_subprocess.py`, `fallback.py`, ...) | subprocess | generate with a deadline, kill, fall back | late answers, dying processes |
| Promotion and rights gates (`GI/promotion.py`, ...) | files | decide | offline |
| MCP tools (`SV/server.py`, `write_guard.py`, ...) | the global client; project directories | ~97 tools, most of them one call | run in FastMCP's threads; some write files or use both bridges |
| Snapshots, diff, diagnostics, journeys, CLI (`SV/snapshot.py`, `diff.py`, ...) | - | read, compare, report | pure |
| Music brain, audio analysis (`SV/music_brain`, `SV/analysis`) | - | generate, analyse | pure |
| Acceptance runner (`SV/acceptance`) | a baseline, artifacts, one row per tool | read, probe, put back, clean up, add, certify | any call may fail, with or without its effect; rows must tell what is left behind |

### What makes each of them correct

- **Client and socket server**: a mutation runs at most once per call; a call is
  never given the answer to another one; a call bound to an epoch goes to the
  connection its caller looked at or nowhere; a call that holds the lock returns,
  unless it sends a large frame, the first one of a connection, that nobody reads.
- **Dispatch**: whatever is written lies inside an undo step; a reply tells exactly
  which prefix of a batch was done; admission by preconditions lasts as long as
  nothing waits; every request ends.
- **Single commands**: an ok that was read back is true; a refusal has changed
  nothing; a move loses no clip; a fade keeps its pace; Live quits a saved Set; the
  parameter that is written is one the address means.
- **Cue points**: locators are as the reply tells, those that a toggle hit by
  mistake included; the playhead and the quantization come back, or the reply
  admits that they did not.
- **Realtime channel**: stale and duplicated packets have no effect while a token
  stays armed; the queue is bounded; an emergency stop is applied; half of an XY
  move is never applied alone unless the queue overflows.
- **Groove apply**: a receipt that sends nobody to look at Live is right that
  nothing happened and nothing will; a partial or committed receipt tells what is
  in the slot.
- **Groove bundle and store**: what is opened is one whole bundle; pages cover the
  ranking; rights never grow on the way from a source to an artifact; what was
  answered as stored can be read.
- **Panel**: a tap makes one clip at most, never over a clip the page did not
  show, and the user is told how it ended; a deactivated extension leaves neither
  invocation nor menu behind; the page catches up with the Set.
- **Tools on files and on two bridges**: a device goes to the last place Live
  allows; a project and a bundle are made by one call.
- **Acceptance runner**: what is left behind has a failed row; every mutation is
  classified; tracks are added only to a restored Set.

## 2. Modules

| Module | Models | EXTENDS / composes |
|---|---|---|
| `CallContract` | abstract: what a caller of the bridge may rely on | - |
| `Bridge` | client, connections, socket threads, queue, ticks, restarts | implements `CallContract` |
| `Dispatch` | Live's thread serving one request after another; the user | - |
| `CuePoints` | locators, playhead, quantization (`RS/cues.py`, `transport.py`) | - |
| `Parameters` | how an address becomes a parameter (`RS/devices.py`, `automation.py`) | - |
| `Reads` | the browser search and the overlap count (`RS/reads.py`, `composition.py`) | - |
| `Handlers` | every other command that edits, by itself | EXTENDS `Parameters`, `Reads` |
| `RealtimeChannel` | `arm`/`disarm`, the receiver thread, the shared list, the drain | - |
| `GrooveApply` | `groove_apply` calls, the client's epochs and cache, restarts | EXTENDS `Dispatch`, whose actions serve its batches |
| `GrooveSeed` | building, opening and paging the seed bundle | - |
| `GrooveGenerate` | derivation, providers, rights, the artifact store | EXTENDS `GrooveSeed` |
| `PanelSession` | extension, modal, helper process, page, clip slot | - |
| `ExtensionTools` | tools over two bridges and over files | - |
| `Acceptance` | the acceptance runner against a Set with faults | - |
| `BridgeProofs`, `DispatchProofs`, `HandlersProofs`, `RealtimeProofs`, `CueProofs`, `GrooveProofs`, `PanelProofs`, `ToolsProofs` | theorems | EXTEND the module they are about (`DispatchProofs`: `GrooveApply`, and with it `Dispatch`; `GrooveProofs`: `GrooveGenerate`; `ToolsProofs`: `ExtensionTools` and `Acceptance`) |
| `MC...` | instances for TLC (`Acceptance`, `Bridge`, `CuePoints`, `Dispatch`, `Groove`, `GrooveApply`, `Handlers`, `RealtimeChannel`, `Tools`) | EXTEND the module they instantiate |

Operators marked *Mutant* in the modules are deliberate faults of the definition
that follows them. They are no part of any specification; each shows what
mistake in the code a property would notice.

`Dispatch` and `Handlers` split the Remote Script's commands in two questions:
`Dispatch` asks what a request of several commands does as a whole, with one
command of each kind, and `Handlers` asks of each command by itself what it does
in the Set while Live ignores, delays and refuses and the user edits.

### Bridge

| State | Code |
|---|---|
| `owner` | who holds `Client._lock` |
| `conn`, `epoch` | the client's socket (0: none) and `_connection_epoch` |
| `timed` | whether that socket has a deadline, which `_read_line` is the first to set |
| `pc`, `job`, `calls`, `command` | a tool thread: waiting for the lock, at the head of the retry loop, or in `_receive_line`; its attempt; what it asked for |
| `seen`, `result` | `connection_snapshot()`; how each call ended |
| `up`, `inbox`, `outbox` | a TCP connection: frames towards Live, replies towards the client |
| `hpc`, `hreq` | the socket thread of a connection and the request it waits for |
| `queue`, `active`, `steps`, `budget` | `request_queue`, `active_request`, how often it has yielded, what this tick may still finish |
| `answers` | what lies in the response queues; each belongs to one request |
| `started` | history: requests that have begun to run |

Client actions: `Snapshot`, `BeginCall`, `Enter` (the lock, and the epoch test of
`call_at_epoch`), `Connect`, `Send`, `Receive`, `TimeOut`, `ConnectionError`,
`ConnectClient`, `CloseClient`. Socket threads: `Serve`, `Enqueue`, `Block`,
`RejectFrame`, `Answer`, `GiveUp`, `HangUp`. Live's thread: `Tick`, `Yield`,
`Complete`, `TickEnds`. The environment: `Break` (a connection is reset) and
`Restart` (Live ends and starts again).

Deadlines are not clocks: `TimeOut` and `GiveUp` may happen at any moment at
which the code is waiting. Client and socket thread compute the very same
deadline (`request_timeout_seconds` in `RS/_contracts.py`), one counts from when
it sent and again from every chunk it reads, the other from when it queued; which
of them expires first is open, and both orders are explored.

A restart keeps the socket threads of the old process from doing anything more
and loses queue and active request; `started` and `answers` are history and stay.

### Dispatch

`Take` is one queue entry reaching `_command_steps`: refusals in the order of the
code, admission, and the decision whether the request owns an undo step. After
it, `at` walks through the commands. `CreateClip`, `AddNotes`, `DeleteClip` are
commands that end in the tick in which they start; `WriteTempo` and `ReadBack`
are those that write, yield, and look again (`_set_tempo_steps`, and with other
properties every verified write of `transport.py`). `RejectCommand` and
`EmptyBatch` are the validation of a batch; `LiveRaises` is any exception out of
the Live API; `NoMutation` is a read or an unknown name. `UserEdit` is the user,
who edits between ticks and never during one. `inTick` tells these apart.

Clips are identified by who made them (0 is the user, otherwise the number of the
request); a user's clip is so told from the one that a batch has made.

### GrooveApply

One process per `groove_apply` call in commit mode. `Begin` covers what is decided
without Live (unknown artifact, mapping gate, note limit, preview). `Status`,
`FetchBegins`, `Connect`, `FetchBreaks`, `FetchAnswered`, `FetchFails` are
`get_capability_status` with its `get_session_info` call; `Stamp` is
`cache_capability_snapshot` after the lock was released; `Snapshot` is
`require_fresh_preconditions_capability`; `Call`, `Answered`, `TimedOut`,
`Ambiguous` are `call_at_epoch` and `_receipt_from_bridge`. `TakeBatch` and
`LiveStep` are Live's thread, by the very actions of `Dispatch`, so receipts are
compared with what batches wrote. Odd epochs are connections, even ones are none.

The five-second age limit of the cached capability is a choice in `Status` and
`Snapshot`: a cached snapshot may always be too old.

### RealtimeChannel

The receiver is a program counter over the Python statements that touch shared
state: token test, sequence test, `last_seq = seq`, the test of refs (twice for
XY), and for each command the length test, `del callback_queue[0]` and `append`.
The drain is its emptiness test and its `pop(0)`. `arm` and `disarm` are three
assignments. In this version the drain only logs a move, since nothing says
yet which parameter a ref names, and stops playback for an emergency stop:
`applied` is the order in which it took commands off the list.

### CuePoints

`cues` is the list of locators by place, `pending` the toggles that Live has
accepted and not applied. `job` is the state of the generator: the item it is at,
where it sends the playhead (`Position`, the verified move of `transport.py`), the
one `Toggle`, what it sees on the following ticks (`Observe`), `Rename`, and
`Finish` (the `finally` block: playhead, then quantization). `LiveRaises` and
`JumpRaises` are exceptions out of any call into Live: they end the remaining items as
well and lead to the `finally` block, where another one is the reply. `LiveToggles` applies
a pending toggle between ticks, or drops it. `UserEdit` adds, deletes or renames a
locator or moves the playhead between ticks; what a user touches during a request
is recorded in `job.touched`, because no code can tell such a locator from its own.

### Handlers, Parameters, Reads

A handler in `RS/` is a generator. Here it is the sequence of statements `Handler(c)`
that is left (`todo`): `write`, `wait` (yield), `see` (read back, with what is left
of the retries), `call`, and so on, one action for each kind of statement. A write
takes effect at once, from the next tick (`late`), or never; `Raises` is an
exception out of any call. `UserEdits` changes, between two ticks, what the command
is concerned with. Modelled this way are the verified writes of tracks, clips,
devices and transport (with the dry run of `set_tempo`), creation of tracks,
`set_clip_properties`, Arrangement copies, deletions, moves and properties,
envelopes and curves, presets, patterns, launches, `live_fade`, `save_set` and
`quit_ableton`. `fade.clock` runs in units of its own; `Interval` and `TickTime` are
different on purpose, so that steps and ticks do not fall together.

`Parameters` holds both resolvers: `ForValue` (first match in the order of the code)
and `ForEnvelope` (all candidates, refused if there is more than one). `Reads` is the
depth-first search with its result limit, depth limit, child limit and visited set:
`Turn` is one pass of its loop, `after[n]` where it is after n of them, and `Turns` how
many it is given; next to it stands a definition of what it ought to find. A browser is
a sequence of trees, and a place in it is a category with the positions that lead there.

### GrooveSeed and GrooveGenerate

`Scan`, `Recheck`, `Parse` are `build.py` over files that a user rewrites;
`Truncate`, `WriteManifest`, `LookForIndex`, `Unlink`, `Connect`, `CreateTables`,
`Commit`, `TakeSum` are what it does to `manifest.json` and `index.sqlite`, in the
order of the system calls, and `Killed` may come anywhere. A caller's
`ReadManifest`, `CompareSum`, `ConnectReadonly`, `Validate` are the separate looks of
`open_readonly_index`. Files are inodes: one that is unlinked stays readable for who
has it open (POSIX). `Search` is one page, with the cursor check.

`Generate`, `AskProvider`, `ProviderOffers`, `ProviderFails` make an artifact;
`PutLooks`, `OpensTmp`, `Fills`, `Replaces` are `FileArtifactStore.put`, whose temporary
name is the same for all who write that artifact; `CallKilled` ends a server anywhere.
`roots` is history: the source artifacts that one descends from.

### PanelSession

The extension is one thread of callbacks, so what stands between two awaits is one
action. `pc` is where each opening of the modal stands; `lifecycle`, `menu`,
`operation`, `closing` are the activation's variables and `activeInvocation` the
module's. `Turn`, `PublishSnapshot`, `TakeCommandReads`/`TakeCommandCounts` (as
`TakeCommand`), `FetchGroove`, `ApplyCommand`, `DeleteClip`, `CreateMidiClip`,
`WriteNotes` are the session loop; `Refresh` and `Tap` the page; `BecomesReady`,
`Exits`, `Crashes` the helper; `HostDies` the end of Live. `stop` keeps its promise, so
`Raised` holds for all who stop a helper whose first stop failed; a failed start may
leave its process behind.

### ExtensionTools

`AsksBrowser`, `ReadsChain`, `Sends`, `Receives`, `GivesUp` are
`load_device_to_track`; `HandlerChecks` and `LiveInserts` run in the extension, which
goes on when nobody waits any more. `Scaffolds`, `Writes`, `BuildBegins`, `Installs`,
`Builds` are the two tools that write a project directory, a file at a time.

### Acceptance

A probe is a sequence of calls with the group that selects it and what it needs;
`Reads`, `Probes`, `Restores` and `Additions` list them in the order of `runner.py`.
`Do` is one call, `Fault` one that raises, before or after Live has served it;
`EndProbe` records the row; `Stops` is the outer exception path, `StartCleanup` to
`EndCleanup` the `finally` block, and `Finish` the report. The Set is a field per thing
that a probe tries. `profiles` is what was asked for and `expanded` the groups that it
comes to; whether `quit` was named is read from the former.

## 3. Runs

All runs have finite state spaces that TLC exhausts. Deadlock is not checked:
every system here may stop when its bounded inputs are used up.

| Run | Question | Instance |
|---|---|---|
| `BridgeSafety` | Is a mutation ever run twice, is an answer ever misread, through broken connections, a restart and frames over the limit? Does the bridge implement the contract of its callers? | 1 caller, 2 calls, 2 connections, 1 retry, 1 request per tick, 1 break or 1 restart |
| `BridgeShared` | Do two threads on one client keep apart, does an epoch name one connection, and does a call that holds the lock return? | 2 callers, 1 call each, 2 connections; small reads, large reads and blocked commands; 2 requests per tick, 1 yield |
| `DispatchSafety` | Undo steps, batch prefixes, preconditions and replies, and does every request end? | 2 requests out of all single commands and eleven batches, 2 slots (one MIDI, one audio), 2 tempos, 2 retries, 2 edits of the user |
| `Handlers` | Does every command do in the Set what it answers? | 1 command, 2 edits of the user, 1 exception; 3 attempts, fades of 3 steps, curves of up to 4 steps, browsers of depth 2 |
| `CueLocators` | Are locators, playhead and quantization as the reply tells? | 1 request (create, delete, bulk of two, jump), 3 places of which one snaps to another, 2 ticks of watching, 2 edits |
| `RealtimeSafety` | Are stale packets kept out, the queue bounded, stops applied and XY moves whole? | 2 armings, 3 kinds of packet, 1 sequence number each, limit 2 |
| `GrooveReceipts` | Do receipts tell what is in the Set? | 2 calls for one slot, 1 edit, 1 restart with either script |
| `Groove` | Is a bundle that is opened whole, do pages cover it, do rights and the store hold, under builders, servers and kills? | 3 files (two alike), 2 builders, 2 callers with 3 calls, 1 rewrite, pages of 1, up to 2 parents |
| `PanelSession` | Commands, snapshots, clips and cancellation, and do menu and page catch up? | 2 activations, 2 openings, 2 taps, 1 edit, 1 fault, 2 failures in a row end a session |
| `Tools` | Does a device go where it should, is a project one call's? | 2 loads into 4 kinds of chain, or 3 calls for one directory; 2 edits |
| `Acceptance` | Does the runner's report tell what it left behind? | 7 selections of profiles and fixtures, all probes, 2 faults |
| `GrooveCommitted` | Does `committed` mean what the document says? It does not (section 6). | 2 calls, 2 slots, no restart |

What the passing runs show, property by property:

- `AtMostOnce` - the requests of one call that change the Set never both begin to
  run. What could break it: a retry of a request that was sent, and that goes on
  in Live after its connection died. It holds because mutations are not retried.
- `OwnAnswer` - replies carry no identity, so a caller believes the first line it
  reads. That this is always the answer to its own request takes that a timeout
  closes the connection and that the lock is held to the end.
- `KeepsContract` - refinement of `CallContract`: every call is new, open, then
  ok, error, refused or unknown, once; it runs only after it was made; a mutation
  at most once and not after ok or error; a refused call never.
- `EpochNamesConnection` - as long as the epoch is that of a caller's snapshot, the client
  is connected as it was then, and what the call sends under it is on that connection.
  What could break it: the epoch is changed in two places, the socket in four, and
  another thread closes and connects between a snapshot and its call.
- `CallReturns` - a call that holds the lock gives it back, with the callers' threads and
  the operating system alone, unless it stays in the one operation without a deadline:
  `sendall` of a large frame, the first one over a connection (`SV/client.py:200`).
- `WritesUndoable` - whether a request owns an undo step is decided on the whole of
  it, whether a command writes is decided by each.
- `RepliesTellTheSet` - results of a batch are a prefix of ok, at most one error,
  and the history of writes agrees.
- `AdmissionLasts` - preconditions are evaluated once; they go on holding until a
  command of the batch itself waits for a tick.
- `RequestEnds` - attempts are counted, so also a setter that Live ignores for
  ever ends.
- `OkTellsTheSet`, `RefusedChangesNothing` - over all single commands, with writes that
  are delayed or ignored, exceptions and the user.
- `MoveKeepsClip` - a copy and a deletion with counts compared across ticks.
- `FadeKeepsPace` - no step is early and none is left out, with ticks that do not
  fit the interval.
- `QuitsSaved` - over all combinations of save, force and a missing save API.
- `WritesTheMeant` - two resolvers with different rules against one definition of
  what an address may mean, over all trees of the instance.
- `ReadsTellAll` - the browser search, with items that appear under two parents,
  lists each match once and misses none unless a limit stopped it or a shared item
  was met at another depth; a clip has overlaps exactly if some are counted.
- `RepliesTellTheLocators` - with toggles that Live snaps, delays or drops and one
  place touched by the user, every locator is as the reply says.
- `PutBack` - however an item fails, by an exception of Live too, the playhead is back, or the reply says it is
  not, and only then may the quantization stay suspended.
- `NoStaleMoveWhileArmed` - over the whole history of what the queue gave out and
  holds, for the token armed now, whatever was in flight when it was armed.
- `QueueBounded` - the length test and the append are apart, but only the receiver
  appends.
- `AcceptedStopIsApplied`, `XYBothUnlessLost` - once everything accepted has been
  drained, a stop has reached Live and an XY move was applied with both halves or
  none, unless making room in a full queue has cost it.
- `RefusedIsFinal`, `PartialIsAClip`, `CommittedIsWritten` - receipts against the
  history of writes. `CommittedIsWritten` leaves out exactly an audio track, an
  exception at the first command, and a batch that reached an older script
  (section 6).
- `OpenedIsWhole` - manifest, checksum and connection are three looks at a directory
  that another process rewrites.
- `PagesCoverRanking` - concatenated pages are the ranking of one bundle. For limits
  up to the cap on listed items only (section 6).
- `RightsNeverElevated` - over any number of generations, with a provider that
  claims what it likes.
- `AnsweredIsStored` - with writers of one artifact that share a temporary name, and
  servers killed between its system calls.
- `AppliedOnce`, `TakenIsTold` - a command is taken, not read; it makes one clip at
  most and is reported, or is lost with the very answer that carried it.
- `NoUnseenOverwrite` - the slot is looked at again before it is written.
- `InactiveIsCancelled`, `MenuGoes` - an operation that outlives its activation, one
  module-wide variable, and disposals that may fail. After a stop that has raised the
  menu action stays (section 6).
- `PanelCatchesUp` - snapshots are published only when they change, and the page asks
  on its own clock; in the end it shows what is there.
- `LoadedWhereItGoes` - indices computed from a chain read on one bridge against
  Live's own order, also for scripts that do not tell types.
- `ProjectOfOneCall` - two scaffolds of one directory exclude each other, and a build
  during a scaffold is refused or whole.
- `LeftoversAreFailed`, `AllClassified`, `TracksLast` - for every place at which one
  or two calls may fail, each with or without its effect. `TracksLast` covers what is put
  back in any case and what a probe has remembered, but not a cue that was made although
  its creation failed.

### Bounds, and why they are enough

- `MaxCalls`, `MaxConns` (2): the hazards of the bridge are between a call and its
  successor on the same connection or the next. `made < MaxConns` only stops new
  connections; a caller that finds none left takes the path of a refused connect.
- `Large`: frames that need not fit the buffers of a socket. How large these are is up to
  the system; what matters is whether `sendall` may have to wait for the reader. Each
  caller makes one call in `BridgeShared`: nothing is said there of a thread that waits
  for the lock while others take it again and again.
- `MaxRetries` 1: the code's default is 3. What matters is whether there is any.
- `MaxPerTick` (code: 16): 1 where one request holds up the next, 2 where several
  finish in a tick.
- `MaxSteps`, `MaxBreaks`, `MaxRestarts`: number of yields, resets and restarts. In
  `BridgeSafety` there is one fault of either kind (`OneFault`): with two connections
  a second one would leave none to go on with.
- `MaxRequests`, `MaxEdits` 2 in `Dispatch`: a request that leaves something behind
  and one that meets it, with the user between and during them. `Retries`: a first
  attempt and a second (a third in `Handlers`).
- `CuePoints`: places are farther apart than the tolerance, so one place that snaps
  and one it snaps to, which may be occupied, are all the relations there are; the
  third is elsewhere. Two ticks of watching (code: `CUE_OPERATION_VERIFY_TICKS`) are
  an early and a last one.
- `Handlers`: one command, because its generator is alone on Live's thread until it
  ends; what else happens in the Set is `UserEdits`. `StepLimit` 4, `RepeatLimit` 2,
  `TrackLimit` 2, `MaxFound`, `MaxDepth`, `ChildLimit`, `VisitLimit` (code: 500, 128,
  96, ...) are such that instances lie below, at and above each.
- `MaxEpoch`: 7 in `GrooveReceipts`, where it never stops a connection: with two
  calls and one retry each no more are made.
- `Tokens`, `MaxSeq`, `MaxQueued`: two armings to have an old token, and a limit
  that two packets reach (code: 256). `Accept` lets the network deliver any packet of
  a token that `arm` has handed out, any number of times and in any order. A
  controller uses a sequence number for one packet only.
- `Groove`: two builders, as two rebuilds that overlap; two callers, as two servers
  that share the store. `Together = FALSE` and `Early = {c1}` keep a builder from
  running while the store is written: the bundle a call has open does not change
  (`OpenedIsWhole`), and the two parts share nothing else. Builders are
  interchangeable, hence the symmetry.
- `PanelSession`: `Together = FALSE` keeps taps and edits away from runs with a second
  operation or activation, whose interplay is about `activeInvocation` and not about
  clips. One fault, as each of the properties is about a single failure.
- `Acceptance`: a fault before the mutations counts for two, so that two faults fall
  among the mutations and the cleanup, where one may hide the other.

### Fairness

- `Bridge`: weak fairness of what brings on a call that holds the lock (`Proceeds`):
  the operating system ends an attempt to connect to the loopback, a frame that fits the
  buffers is sent, a deadline that was set expires, what has arrived is read. Nothing is
  assumed of the socket threads or of Live, so nothing of a large frame being sent
  either; nor that a thread waiting for the lock is ever the next to get it.
- `Dispatch`: weak fairness of serving requests. Live calls `update_display` for
  as long as it runs and each handler returns. The user is under no obligation.
  `CuePoints` and `Handlers` state the same of their generator, `Acceptance` of the
  runner; no property of their runs needs it.
- `PanelSession`: weak fairness of the extension's callbacks (the host runs what is
  due), of the session loop and of the page's refresh timer. Whether the modal is
  closed, a session expires, the user taps or edits, and whether anything fails, is
  left open.
- `RealtimeChannel`, `GrooveApply`, `GrooveGenerate`, `ExtensionTools`: none; their
  properties are safety.

## 4. Proofs

| Theorem | Says | From |
|---|---|---|
| `BridgeProofs!TypeCorrect` | types; exactly the caller in its call holds the lock; who awaits is connected | `BridgeAssumption` |
| `BridgeProofs!MutationsRunOnce` | `PlainNames => (Spec => []AtMostOnce)` | `BridgeAssumption` |
| `BridgeProofs!EpochsNameConnections` | `Spec => []EpochNamesConnection` | `BridgeAssumption` |
| `BridgeProofs!AnswersAreOwn` | `Spec => []OwnAnswer` | `BridgeAssumption` |
| `BridgeProofs!BridgeKeepsContract` | `PlainNames => (Spec => KeepsContract)`: refinement of `CallContract` | `BridgeAssumption` |
| `DispatchProofs!TypeCorrect` | `Spec => []TypeOK` | `DispatchAssumption` |
| `DispatchProofs!ChangesCanBeUndone` | `Spec => [](UndoBalanced /\ WritesUndoable)` | `DispatchAssumption` |
| `DispatchProofs!RepliesAreTrue` | `Spec => []RepliesTellTheSet` | `DispatchAssumption` |
| `DispatchProofs!AdmissionIsKept` | `Spec => []AdmissionLasts` | `DispatchAssumption` |
| `DispatchProofs!GrooveTypeCorrect` | `GrooveSpec => []GrooveTypeOK` | `GrooveAssumption` |
| `DispatchProofs!RefusalsAreFinal` | `GrooveSpec => []RefusedIsFinal` | `GrooveAssumption`, `DispatchAssumption` |
| `DispatchProofs!PartialsAreClips` | `GrooveSpec => []PartialIsAClip` | the same |
| `DispatchProofs!CommittedAreWritten` | `GrooveSpec => []CommittedIsWritten` | the same |
| `HandlersProofs!TypeCorrect` | `Spec => []TypeOK` | `HandlersAssumption` |
| `HandlersProofs!SuccessIsReadBack` | `Spec => []OkTellsTheSet` | `HandlersAssumption` |
| `HandlersProofs!RefusalsChangeNothing` | `Spec => []RefusedChangesNothing` | `HandlersAssumption` |
| `HandlersProofs!MovesKeepTheClip` | `Spec => []MoveKeepsClip` | `HandlersAssumption` |
| `HandlersProofs!FadesKeepPace` | `Spec => []FadeKeepsPace` | `HandlersAssumption` |
| `HandlersProofs!QuitsOnlySaved` | `Spec => []QuitsSaved` | `HandlersAssumption` |
| `HandlersProofs!AddressesAreMet` | `Spec => []WritesTheMeant` | `HandlersAssumption` |
| `HandlersProofs!ReadsAreComplete` | `Spec => []ReadsTellAll` | `HandlersAssumption`, `ReadsAssumption`, `BrowsersAssumption` |
| `RealtimeProofs!QueueKeepsItsLimit` | `Spec => [](TypeOK /\ QueueBounded)` | `RealtimeAssumption` |
| `RealtimeProofs!StopsReachLive` | `Spec => []AcceptedStopIsApplied` | `RealtimeAssumption` |
| `RealtimeProofs!HalvesStayTogether` | `Spec => []XYBothUnlessLost` | `RealtimeAssumption` |
| `RealtimeProofs!NoStaleMove` | `Spec => []NoStaleMoveWhileArmed` | `RealtimeAssumption` |
| `CueProofs!TypeCorrect` | `Spec => []TypeOK` | `CueAssumption` |
| `CueProofs!PlayheadIsPutBack` | `Spec => []PutBack` | `CueAssumption` |
| `CueProofs!RepliesTellTheTruth` | `Spec => []RepliesTellTheLocators` | `CueAssumption` |
| `PanelProofs!TypeCorrect` | `Spec => []TypeOK` | `PanelAssumption` |
| `PanelProofs!AppliesOnce` | `Spec => []AppliedOnce` | `PanelAssumption` |
| `PanelProofs!OverwritesOnlyTheSeen` | `Spec => []NoUnseenOverwrite` | `PanelAssumption` |
| `PanelProofs!TakenIsAnswered` | `Spec => []TakenIsTold` | `PanelAssumption` |
| `PanelProofs!NoInactiveHandOver` | `Spec => []InactiveIsCancelled` | `PanelAssumption` |
| `GrooveProofs!RightsSafety` | `Spec => []RightsNeverElevated` | `SeedAssumption`, `GenerateAssumption` |
| `GrooveProofs!AnsweredSafety` | `Spec => []AnsweredIsStored` | `SeedAssumption`, `GenerateAssumption` |
| `GrooveProofs!OpenedSafety` | `Spec => []OpenedIsWhole` | `SeedAssumption`, `GenerateAssumption` |
| `GrooveProofs!PagesCover` | `Spec => []PagesCoverRanking` | `SeedAssumption`, `GenerateAssumption` |
| `ToolsProofs!OneProject` | `Spec => []ProjectOfOneCall` | `ToolsAssumption` |
| `ToolsProofs!DevicesGoWhereTheyMay` | `Spec => LoadedWhereItGoes`, an action property | `ToolsAssumption` |
| `ToolsProofs!LeftoversHaveFailed` | `AcceptanceSpec => []LeftoversAreFailed` | `SelectionsTyped` |
| `ToolsProofs!AllAreClassified` | `AcceptanceSpec => []AllClassified` | `SelectionsTyped` |
| `ToolsProofs!TracksAreLast` | `AcceptanceSpec => TracksLast`, an action property | `SelectionsTyped` |

They hold for any number of callers, clients, connections, commands, retries, slots,
requests, refs, tokens, locators, activations, files, builders, parents, devices and
chains, for browsers and clips of any size, for curves and fades of any length, for any
selection of groups and fixtures, any number of faults of the acceptance runner, and for
any bounds; `GrooveProofs` also for either value of `Together` and any `Early`, so there
bundles are opened and the store is written while builders run, and `PanelProofs` for
either value of `Together`.

The assumptions say what kind of thing a constant is, that `None` is none of these,
and what the code itself guarantees of its inputs: a batch is the only request
with several commands or preconditions (`DispatchAssumption`), a groove's batch is
one of the requests of the Set (`GrooveAssumption`), the points of a curve are sorted by
time (`HandlersAssumption`; `RS/automation.py:204`), a uri of Live's browser stands for one
item and a note has a length (`BrowsersAssumption`), only `bulk` has several items
and Live's grid leaves its own places alone (`CueAssumption`), the queue has room for
both halves of a move (`RealtimeAssumption`; the code's limit is 256), a session ends
after some number of failures other than none (`PanelAssumption`).
`PlainNames` says that callers spell commands as the catalogue does. It is needed:
the client looks the name up as it was given and Live strips it and lowers its case,
so a mutation in capitals would be retried. No caller in the repository does this.

No property above is inductive as it stands. What has to be added, component by
component:

**Bridge**

- *Types.* That what is sent is a request needs a call in progress to have a number
  and a command (`JobOK`), that a socket thread answers something needs it to wait
  for a request (`ServerOK`), and that a call ends with its own lock needs `LockOK`.
  `TypeInv` is their conjunction.
- *Mutations run once.* `AtMostOnce` speaks of what has started, so `OnceInv` has to
  speak of everything that may still start: every request that is known anywhere
  (in a frame, in the queue, active, or started) belongs to a call that was made, asks
  for that call's command and, if that is a mutation, is its first attempt
  (`KnownOK`); and a caller whose call is a mutation is at its first attempt
  (`FirstTry`). Two requests of one call that is a mutation agree in every field.
- *Epochs.* A snapshot may be older than any number of connections, so `EpochInv` says of
  every caller's that its epoch is not ahead of the client's and, as long as it is the
  client's, that the client is connected as it was then (`SnapOK`): each change of the
  connection raises the epoch (`EpochStep`). So a call past the epoch test has the
  connection of its snapshot for as long as it holds the lock (`BoundOK`), and what it
  sent lies there (`FramesOK`); from `OnceInv` comes that no frame of an earlier call is
  taken for one of this call.
- *Refusals.* `RefusalInv` says that whatever is known was sent by a call past the epoch
  test (`EnteredOK`), so a call refused at that test leaves nothing; the contract needs
  it.
- *Own answers.* Replies carry no identity, so `LaneInv` describes a connection as a
  lane: it holds nothing, or one request of the caller that awaits its reply, in
  exactly one place (in the frame, at the socket thread, in the reply). A connection
  that a client has left may hold anything, and no caller will ever read it.
- *The contract.* `ContractInv` adds that answers and replies on their way tell the truth
  of what has run (`RunInv`) and that a mutation whose call has ended with an answer has
  begun to run or never will (`SettledOK`). Each action then maps to one step of `CallContract`
  or to none. The first attempt at this proof failed for a good reason: two arms of the
  `CASE` in the mapping overlapped for a call that is not made yet, which TLC decides by
  taking the first and the logic does not decide at all.

**Dispatch and groove apply**

- *Undo.* The invariant adds that the request served is one that was sent
  (`UndoInv`); the crux is `WritersOwnUndo`: if any command of a request can
  write, the request is no dry run and owns a step.
- *Replies.* The history of writes is tied to the position in the batch: before it
  exactly the commands with an ok have written, at it at most a verified write that
  is not yet confirmed, behind it nothing (`TellInv`).
- *Admission.* What may put a clip into a slot after a batch was admitted is one of
  its own commands, or the user during a wait of one (`AdmitInv`).
- *Receipts.* Live's thread is the actions of `Dispatch`, so `RepliesAreTrue` is used
  for what a reply says of the Set. Added are: which requests are a call's, and that
  there is at most one of them (`OnceInv`), which slot they name (`BatchInv`), that a
  call that has ended has nothing under way if its receipt says so (`EndInv`), and what
  reply a receipt was drawn from (`ReceiptInv`). `EpochInv` keeps the parity of epochs
  and connections.

**Single commands.** All of `HandlersProofs` rests on what `todo` can be. A handler is
put together from pieces, and a *piece* (`Piece`) is a sequence of statements that may
stand anywhere in it: a write to either end of the loop is followed by its wait, and
nothing begins again. Concatenations and tails of pieces are pieces, so `TypeInv` holds of
whatever the read-backs put before the rest, and one lemma says what a step leaves
(`StepLeaves`): the rest, the rest behind some statements like the first, or nothing.

- *Success.* `WantInv`: a value that is asked for is still to be read back with nothing
  behind that reading to change it (`Pending`), or no statement left has another value
  (`Only`) and it is in the Set, or the user has edited it (`Settled`); and nothing that
  Live shows late contradicts it. That every handler begins so is the larger part of the
  proof. For a curve it says that the steps it comes to are as many as the times of its
  points: `ExpandedCounts` makes the bijection, the k-th step of an interval to its time,
  where points of the same time make no step.
- *Refusal.* What can refuse a command is its first statement and its last, so until then
  the Set is as it was (`RefuseInv`).
- *Move.* `MoveInv` lists where a move stands that no user disturbs, with what the lane
  holds there and what was counted (`Copying`, `Removing`).
- *Fade.* `FadeInv` ties what is left of the fade to the steps that were taken, each not
  before its multiple of the interval, since a deadline counts from the write before it.
- *Quit.* `QuitInv` says which of the calls `save` and `quit` are left: a quit that is
  left has its save before it, or is one that may come (`Justified`).
- *Addresses.* `CandidatesAreMeant` shows that the candidates of the envelope commands are
  exactly the parameters meant, and `ChainMeans` and `NamedIs` that what the resolvers find
  is one of them.
- *Reads.* The search is a recursive function of the turns, and two facts about sets of
  naturals stand in for the induction theorems: `Inductive`, that a set with 0 and with
  n + 1 for each n has all of them, and `Iterates`, that a function defined by what it is
  at the number before exists. `Searches` is the invariant of the loop: each key that was
  visited has a place which was listed if it matches, and whose children are on the stack
  or of keys visited too (`Opened`). `Left` decreases in each turn, so the search has ended
  when its turns are over (`SearchEnds`): the limits bound it, not the size of the browser.
  From an empty stack it follows level by level that each place is reached, or another of
  the same item at the same depth (`AllIsReached`). The overlaps need the next note of a
  pitch (`NextNote`), the least of those behind by start and position.

**Realtime channel**

- *The limit.* The test of the length and the append are two steps with the drain in
  between, so `RealtimeInv` adds that a receiver past the test has room for one
  (`RoomOK`), and what the receiver holds at each step (`RxOK`).
- *Effects.* Packets are followed as one trace: what was applied, what is queued, and
  what the receiver has in hand, in that order. Popping moves a command along in it,
  and only making room takes one out, which is remembered as lost (`EffectsInv`).
- *Order.* `OrderInv` needs that the sequence number last seen bounds all that
  the trace holds of the armed token (`Newer`), that a token not yet handed out is on no
  packet (`Unused`), and what holds between the three assignments of `arm` (`Fresh`).

**Cue points**

- *Playhead.* `BackInv` follows where the playhead is against where it was: while it
  is away the request is in a phase that still sends it back, and the quantization is
  suspended only in such phases, or after a reply that has confessed.
- *Locators.* `RepliesTellTheLocators` looks at the last item that counts for a place;
  `Tells` says the same of the items ended so far, so that each item that ends moves it
  on by one and no induction over the results is needed. As long as the reply would
  still promise something (`Clean`), `Located` relates the locators to those listed
  before the item: before a toggle is seen, only the place aimed at or the one the grid
  makes of it may have turned (`Forward`); while a stray toggle is reversed, that place
  lies on the grid, so that the second toggle hits it again, or the user has been there,
  and the reversal can succeed nowhere else (`Reverse`); then the name (`Naming`).
  `PendingOK` is needed for a toggle that Live delays: unless it was given up, it is the
  last one and the one that the request waits for.

**Panel.** A command is in one place at a time: in the mailbox of one helper, in the
answer that carries it, in the hand of one session (`HandInv`), or told or lost
(`CustodyInv`). Only where it has not yet written may it still write (`MadeInv`), and
what it may delete was seen when it was tapped (`SeenInv`). `OpeningInv` ties each
opening to the activation that made it and to the module-wide variable.

**Groove bundle, rights and store**

- *The bundle.* An inode whose tables were made holds the rows of one maker for good,
  since `Unlink` takes only its name away; a manifest names one build, and build ids
  are counted. So a checksum that agrees and a validated build id are of one bundle
  (`BundleInv`), although the three looks are steps apart.
- *The pages.* `Shown` says that what a caller has of a search is a prefix of the ranking
  of a builder that compiles no more, and that its cursor names these rows and the last
  item shown. The next page continues it, because the ranking is strictly ordered, so
  that the filter behind an item leaves exactly the tail (`RankedIs`, `RemainingIs`).
  It is strict for two reasons. The key of the sort orders any two artifacts that differ
  in content or level (`PrecedesIsStrict`). And the rows of an index differ in their ids and
  are of one build, so in nothing else: `RowsInv`, since `write_index` refuses a repeated
  id before it makes the tables. Sort and filter are stated by the rank of an item; that
  in a finite order every rank is taken once is `RanksAre`, a pigeonhole argument, which
  takes the place of an induction over the rows.
- *Rights.* An artifact's rights are looked up again whenever it is a parent, so
  `RightsInv` speaks of its level and not only of whether it may be applied: if the
  level is full, all its roots have full rights, and no root is blocked (`Clean`). It
  says so of what a call has made and of what lies at a temporary name as of what is
  stored, because `Replaces` moves these into the store. The crux is `MeetIsClean`.
- *The store.* `FilesInv` accounts for every inode at its own or at a temporary name:
  it is whole, or a writer of its artifact has it open, or one was killed on it
  (`Accounted`). The temporary names are in it because the next move makes them the
  names of artifacts. Steps of calls that write no file are one lemma
  (`ElsewhereKeeps`).

**Tools**

- *Project.* While a call writes, the files that are there are its own, unless the user
  has removed the directory under it; a scaffold that ended in success has all of
  them, and a bundle was read from a directory that no one was writing (`ProjectInv`).
- *Placement.* `LoadInv` says of the index a call has computed that it was computed from
  the chain it read. That this index is the last one that Live allows is a lemma about
  sequences of any length (`IndexIsBest`), from: the first place of a later role
  (`FirstOfIsFirst`), insertion there keeps an ordered chain ordered (`OrderedInsert`),
  and Live's own test (`FitsIs`). `LeastNat`, that a set of naturals which is not empty has
  a least element, comes from the well-foundedness of `<` and stands in for an
  induction over the chain.

**Acceptance runner**

- *Leftovers.* The probes are four programmes written out in the model, as they are in
  `runner.py`. What the proof needs of these sequences is stated once, for every probe by
  its index: where a probe changes a field, where it makes and deletes what it makes, and
  what it remembers for the cleanup before it writes (`ProbesOk`, `PlacesOk`), which field
  each restoration writes back (`RestoresOk`), that the additions touch their own fields
  only (`AdditionsOk`) and the reads none (`ReadsAre`). A step then goes in one of five
  ways: the call is served and the probe goes on, it fails before or after its effect, the
  probe ends with a passed row, something is lacking, or the probe was not selected
  (`GoesOn`, `Fails`, `Passes`, `Lacks`, `Skips`). `SetInv` says of each phase which fields
  may differ from the baseline. In the probes, that is what the probe at hand is changing,
  what is owed to the cleanup and has a row, and what a failed row tells of; the cleanup
  moves each field in the order of its restorations to "as it was" or "noted as broken",
  except that the time of a Set that is still playing cannot be put back, which ties
  the sixth restoration to the one that stops playback (`CleanupInv`).
- *Rows.* `RowsInv` counts the rows of the probes that have been passed (`Recorded`), phase
  by phase. An aborted run is the hard case: there only the closing of the rows makes them
  complete (`StartsKeepRows`).
- *Tracks.* That tracks come last follows from `AdditionsInv`: the additions do not begin
  before everything the cleanup owed is as it was.

What is left to TLC are the liveness properties (`CallReturns`, `RequestEnds`,
`MenuGoes`, `PanelCatchesUp`), which are out of the prover's reach.

The type invariants of the modules without a theorem are checked on the same instances.

## 5. What is abstracted, and what is not modelled

- The text of frames: parse errors, non-object requests and wrong field types are
  answered by the socket thread like a blocked command (`Block`). Failures to
  encode a request or to decode a reply are left out; they end the call with
  nothing left unread.
- Notes, parameter values, names. A move is its ref, a clip its maker, a batch its
  kinds of commands; a note of `Reads` is a pitch, a start and a length.
- Undo steps are those the script begins and ends. Live itself closes a step at
  the end of each tick (README.md of the repository says so), so a batch that
  waits takes several presses of Ctrl+Z. `end_undo_step` is taken to succeed.
- Python's assignments and list operations are atomic, as under the GIL.
- `Handlers`: one refusal stands for the hierarchy commands, which change nothing. The
  fade's last value is read in the tick of its last write. Reads that copy attributes
  of Live into an answer are not modelled, except the two in `Reads`; of
  `diagnose_midi_clip` only the overlaps are, not scales and drift.
- `CuePoints`: the tolerance and the choice among cue-time properties
  (`helpers.py`) are abstracted to places that are apart.
- `GrooveSeed`, `GrooveGenerate`: POSIX inodes (Windows refuses to unlink an open
  file). A provider's `artifact_id` is taken to be fresh, and its candidate to claim
  at worst all rights; protocol lines, registry and limits of the subprocess are one
  failure. MIDI parsing, taxonomy, facets and the transforms of notes
  (`deterministic.py` 328-476) are not modelled: functions of their input.
- `PanelSession`: the receipt store, the probes of the extension's start and the
  transforms of the panel are not modelled; nor is the length of a request, which
  the helper limits to 4 KB.
- `ExtensionTools`: the error for a project without entrypoint, `set_warp_state`, starting and stopping the WebSocket server, and
  the tools that pass their arguments to one call (that call is in `Bridge`).
- `Acceptance`: the Set is stopped at the start, `--fire-clip` is given; edits of the
  user, a missing MIDI track, ids of tracks that are absent, and the contents of
  fixtures are left out. The baseline has the colour of every track; without one the put-back and
  the cleanup skip it (`runner.py:1697`, `2654`). `probes/tcp_reads.run`, `probes/offline.run` and
  `restore.py` are not what the runner calls.
- Starting and stopping: bind, listen, `stop()`, `disconnect` of the script. What
  survives an unload depends on how Live drops the module and its threads.
- Snapshots, diffs, diagnostics, journeys and the command line: functions of what was
  read, without state. Music brain and audio analysis: numbers, nothing concurrent
  and nothing kept. Promotion: an offline decision over files.

## 6. Where the code and its documents disagree

The run `GrooveCommitted` shows this one: a batch that fails at its first command
matches no test of `_receipt_from_bridge` and falls through to `committed`
(`GI/apply.py:236`), while "`committed` means the batch completed"
(`docs/TOOL_REFERENCE.md:890`).

Seen while modelling, by component. None of these is excluded from a model without
being named in the property concerned.

- **Client and groove apply.** Only `_read_line` sets a deadline (`SV/client.py:168`), so
  `connect` (:141) and the first `sendall` of a connection (:200) have none. Every error envelope, also the socket thread's
  `TIMEOUT`, becomes `rejected` (`GI/apply.py:175`) although the batch may still run.
  The capability is cached under the epoch read after the lock was released
  (`SV/client.py:320`), perhaps that of a connection to another script. Commands
  spelled in capitals are retried (section 4).
- **Realtime.** `_enqueue` deletes the oldest entry whatever it is
  (`RS/realtime_server.py:84`), so overflow may drop half of an XY move ("Both or
  neither", :117), which `XYBothUnlessLost` allows for; the drain may empty the list
  between the length test and the deletion, and the `IndexError` costs the new
  command ("the newest value is the only one that matters", :18). Re-arming is three
  assignments, so a packet of the old token may be tested against the new refs, and
  one held between its two tests leaves its sequence number behind for the new token.
- **Cue points.** The quantization is not restored when the playhead cannot be sent
  back (`RS/cues.py:296`; `docs/KNOWN_BUGS.md:21` says it is). A locator that the user
  adds at the requested place during the move is deleted by the toggle
  (`cues.py:236-246`, `279-292`), and one added elsewhere may be deleted by the
  reversal (`cues.py:129`).
- **Single commands.** `set_arrangement_clip_properties` writes the name before it
  refuses `muted` (`RS/arrangement.py:277-283`); automation clears the envelope before
  it knows that steps can be inserted (`automation.py:386-427`); with `chain_index`
  alone it writes the volume of the track (`automation.py:341`;
  `docs/TOOL_REFERENCE.md:69`), as it does for a device's parameter that is called
  like one of the mixer's; `create_midi_track` does not verify the number of tracks
  (`tracks.py:364`); `set_parameter_value` answers ok for whatever a quantized
  parameter makes of the value; a clip that the user adds in the waiting tick passes
  for the copy of a move, and the original is deleted (`arrangement.py:224-225`).
- **Reads.** An item first met at the deepest level is not looked into when it is met
  again higher up, so its children may be missing (`reads.py:348-390`). The number of
  overlapping pairs may be too low, as only neighbours are compared
  (`composition.py:95-109`); whether there are any is exact.
- **Groove bundle.** Limits up to 50 are accepted, but results are cut to 32 items, or
  to the byte budget, with `truncated` false and the cursor after the full page:
  items are lost. A failed or killed rebuild leaves a bundle that cannot be opened. A
  file that changes between `compile_one`'s digest check and its parse gives content
  that differs from its `source_digest`. The rights declared for a duplicate are
  ignored (the first path wins). An artifact keeps its level when a rebuild lowers
  its source's.
- **Groove store and providers.** Two writers of one id share a temporary name: the
  second fails with `FileNotFoundError`, and one that is killed leaves a torn file
  that `put` takes for the artifact from then on. With `start_new_session`,
  `os.setpgid` fails on POSIX and the provider is always given up with
  `resource_limit`; writing to its stdin has no deadline; a timeout in the shutdown
  discards a valid candidate. The server's runtime configures no provider.
- **Panel.** `/api/selection` and `clear` commands have no sender. A `stop()` that
  raises in `finally` leaves `operation` set, and hands the same error to all who call it
  later (`helper-process.ts:387-390`), so that the menu action stays. A failed start whose
  helper outlives the kill raises `HELPER_TERMINATION_TIMEOUT` instead of its error, and
  the helper is left behind (:266). `releaseGate0Helper` may stop the helper
  of another activation (`actions.ts:60-67`, `extension.ts:107`). The clip that is
  replaced may not be the one that was shown, if both were there. One failed request
  ends the page's refreshing.
- **Tools.** The docstring of `_insert_index` begins with the "first" index Live accepts
  (`SV/device_insert.py:62`); the code, as the rest of the documents, takes the last one.
  `scaffold_extension` "never raises during disk writes", but an `OSError`
  is not caught and leaves a directory that blocks the retry; `build_extension` does
  not catch the timeout of npm. An insertion that times out is reported as
  unavailable and may still happen; a retry then inserts twice. `get_client` may make
  two clients (`server.py:133`). "A batch that aborted wrote nothing"
  (`_music_payload`) is not so if the notes failed after the clip was made.
- **Acceptance.** The name of the track is put back once, by its probe; a release may
  be certified with the track renamed (`runner.py:1781`, and the docstring at :16). An
  exception between two read rows marks mutations and WebSocket rows only
  (`runner.py:2894-2905`; its comment says every tool), so `finish()` raises and there
  is no report; so it does after an abort inside the mutations of the baseline, for
  `quit_ableton`, and always if `quit` is named and the mutations
  are selected. Tracks whose
  check fails after their creation are not among the artifacts.
