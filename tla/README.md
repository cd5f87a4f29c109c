# A TLA+ model of smf

smf is an RPC system on Seastar: a client, a server, a wire format with
compression filters, a client that reconnects by itself, a code generator that
turns flatbuffers schemas into services and clients, and a load generator with the
latency histograms it fills. This directory models these parts and the integration
tests around them and checks them with TLC on small instances. Every safety property
that a passing run checks is also proved with TLAPS, for every value of the constants.

Paths begin with `src/`, the root of the repository: its sources are below
`src/src/`, its documentation below `src/docs/`.

## The system

A *client* (`src/src/core/rpc_client.cc`) gives every request a 16-bit session
number and keeps a promise for it in `rpc_slots_`. A background fiber per
request waits for memory, then for the write semaphore, and writes one frame. A
reader fiber per connection parses replies and resolves the promise in the slot
of the session number. Any failure fails all slots. `stop()` and `reconnect()`
fail the slots and then close a gate that every fiber has entered.

A *server* (`src/src/core/rpc_server.cc`) has an accept loop, one session loop per
connection, and one fiber per request that runs filters, handler and reply. A
memory semaphore shared by all connections is waited for before a payload is
read. `stop()` aborts the accept loop, shuts the inputs down and closes the gate
of the request fibers.

A *message* is serialized, checksummed, maybe compressed by filters, written,
parsed in two steps (header, payload), and maybe decompressed by filters.

*smfc* assigns request ids (crc32 of the service name xor crc32 of the method's
signature) and *rpc_handle_router* looks a request up by its id.

The *load generator* (`src/src/include/smf/load_generator.h`) opens `concurrency`
clients on every core, runs a background fiber of serial requests on each, and waits
for all of them on a semaphore. Clients and servers measure every request in an
*histogram*; the rpc test and the demo client sum them up over the cores and write
them to files. `src/src/test_runner.py` runs the integration tests and judges them by
their exit codes.

| Part of the code | Modules | Proofs |
| --- | --- | --- |
| `rpc_client` | `RpcClient`, contract `RpcCall` | `RpcClientProofs`, `RpcClientCounts` |
| `rpc_server` | `RpcServer`, contract `RpcServe` | `RpcServerProofs` |
| `reconnect_client` | `ReconnectClient` | `ReconnectClientProofs` |
| envelopes, headers, filters | `RpcWire` | `RpcWireProofs` |
| smfc | `Smfc` | `RoutingProofs` |
| `rpc_handle_router`, generated services | `Routing` (extends `Smfc`) | `RoutingProofs` |
| `histogram` | `Histogram` (operators) | `LoadGeneratorProofs` |
| `load_generator`, rpc test, demo client | `LoadGenerator` (extends `Histogram`) | `LoadGeneratorProofs` |
| integration tests, `test_runner.py` | `TestPrograms`, `TestRunner` (extends `LoadGenerator`) | `LoadGeneratorProofs` |

`SumTheorems` has the facts about sums, running totals and powers that the proofs share.
`MC<Module>` gives the small instances, `MC<Module>*.cfg` the values of the
constants and the properties. `PROJECT.json` has the source lines of every
definition, the mutation of the code that each property detects, and the list of
hazards.

## How the code is translated

Seastar runs one continuation at a time on a core, so an action is the code
between two suspension points, with everything that runs without suspending
inside it. A future that may resolve in several ways gives several actions. A gate
is the set of fibers inside it and a flag; entering a closed gate throws. A
semaphore is its units and its waiters in order. `with_timeout` abandons the
future it waits for; the abandoned code goes on, and is modelled going on.
`DLOG_THROW_IF` throws in debug builds only (constant `Debug` of the client).

Payloads, filters and handlers are nondeterministic outcomes (they return, or
they throw); sizes are small numbers; a checksum is the body it was computed
from, and whether it is zero. Logging and the text of generated code are left out; latencies are modelled
with the load generator only.

Operators marked *Mutant* are wrong versions of the operator below them, each
a plausible slip; they are not part of the specification.

### RpcClient

| State | Code |
| --- | --- |
| `conn`, `nconn` | `conn_` (0 is null); connections are numbered as they are opened |
| `disabled`, `errored` | `rpc_connection::disable()` with both shutdowns; `error_` or end of file |
| `slots`, `session_idx`, `read_counter` | `rpc_slots_`, `session_idx_` (mod `SessionCount`), `read_counter_` |
| `gateClosed`, `mgmt`, `connecting` | `dispatch_gate_`, the pending `reconnect()` or `stop()`, the thread of `connect()` |
| `pc`, `sess`, `prom`, `got` | per call: where `send` is, the session, `work_item::pr`, the request its value answers |
| `writer`, `wconn`, `memQ`, `avail` | per call: `dispatch_write` and the stream it uses; `limits->resources_available` |
| `fiber`, `phase`, `rconn`, `reply` | per connection: `do_reads`, its `process_one_request`, the connection that one copied, the parsed header |
| `wire`, `heard` | requests that reached the server; replies that were begun to be read (external) |

`SendRejected`, `RawSend`, `OutFilterDone`, `OutFilterThrow`, `PromiseFailed`,
`PromiseReady`, `InFilter` are `send` and `raw_send`; `MemAcquire`, `WriteStart`,
`WriteReach`, `WriteDone`, `WriteFail` are `dispatch_write`; `ReadTop`,
`HeaderOk`, `PayloadOk`, `ReadError`, `ReadThrow`, `ReadTimeout` are `do_reads`
and `process_one_request`; `Connect`, `ConnectOk`, `ConnectFail`, `Reconnect`,
`ReconnectResume`, `Stop`, `StopDone` are `connect`, `reconnect` and `stop`.
`FailOutstandingFutures` is a part of every action whose code calls it.

Two constants restrict the callers. `Window`: no caller is given a session number
of which something is still in flight (65536 requests later, with the real
counter). `BareConnect = FALSE`: a client that had a connection is connected
again with `reconnect()`, as the exception at `src/src/core/rpc_client.cc:27` asks.
Callers wait for one `connect()` or `reconnect()` before the next and call
nothing after `stop()`. The client is modelled without TLS.

`RpcCall` is what a caller may rely on: a call is refused with nothing sent, or it
is resolved exactly once; it is transmitted at most once; a reply means that its
own request was transmitted; a failed call may have been, or may still be,
transmitted.

### RpcServer

| State | Code |
| --- | --- |
| `accepting`, `stop` | the `keep_doing` of `start()` and `stopped_`; how far `stop()` is |
| `nconn`, `open` | accepted connections; `open_connections_` |
| `err`, `disabled`, `shut` | per connection: `error_` or end of file; `disable()`; `shutdown_input()` by `stop()` |
| `loop`, `cur` | per connection: where its session loop is, the request it is reading |
| `memQ`, `avail` | `limits->resources_available` |
| `job`, `on` | per request: how far it is, its connection |
| `completed` | the counter `completed_requests` |

`Accept`, `AcceptEnd`, `Stop`, `StopAccepted`, `StopDone` are `start()` and
`stop()`; `SessionTop`, `HeaderOk`, `HeaderBad`, `HeaderThrow`, `MemAcquire`,
`PayloadOk`, `PayloadBad`, `PayloadThrow` are `handle_client_connection` and
`handle_one_client_session`; `FilterDone`, `HandlerDone`, `SendStart`,
`SendDone`, `FlushDone`, `JobThrow` are `dispatch_rpc` and `do_dispatch_rpc`.
`Cleanup` and `SessionThrows` are `cleanup_dispatch_rpc` and the end of a session
by an exception, and belong to the actions whose code runs them.

A size is a `uint32_t` on the wire. `handle_one_client_session` waits for that many
units, but `dispatch_rpc` takes it as an `int32_t` (`PayloadSize`, with `SignBit` for
2^31) and returns that many: from `SignBit` on a negative number, so a refused payload
takes further units instead of returning its own, and the semaphore may go below zero. Such a
payload is never accepted, since `max_flatbuffers_size()` is `SignBit - 1`.

`RpcServe` is the contract: a request is taken up, run and answered at most once,
answered only after it ran, and `stop()` resolves only when nothing taken up is
left, after which nothing runs and nothing is written.

### ReconnectClient

A fiber is one call of `connect()` and the retries it leaves behind. `phase` says
where it is: `draining` (inside `client_->reconnect()`, before the client's gate
is closed), `dialing`, `asleep` in the backoff, `broken` (the promise of the
client's gate was replaced because another fiber closed it again: the attempt
fails). `link` is `client_->is_conn_valid()`, `shut` says whether the client's gate is
closed, `gate` is `reconnect_gate_`, `bo` is `bo_`. `Replaces` is what a second
`reconnect()` does to the first: it puts a new promise, or a new gate, where the first
one waits, and a fiber that finds a gate it did not close fails. `failures` and `wanted` are history variables for the properties. The
jitter of the sleep is left out.

### RpcWire

One message: `Serialize` (`rpc_typed_envelope::serialize_data`), `OutFilter` (one
step of `rpc_filter_apply` with a compression filter), `Send`, `ReadShort`,
`ParseHeader`, `ParsePayload`, `InFilter`, `Deliver` (the check for a payload still
compressed, in `do_dispatch_rpc` and `raw_send`). `Init` takes every payload, every
chain of filters on both sides, compression allowed, disabled or a flag outside of the
enumeration (`Unknown`), payload headers announced or not, and a meta field (request id
or status) that is set or zero. `HeaderAccepted` and `PayloadAccepted` are all the
checks of `parse_header` and `parse_payload`; of a flag outside of the enumeration only
the upper end is checked, so one below it gets as far as `Deliver`. The body may be
damaged on the way, or cut short; the header may not (it carries no checksum). Codecs
are exact inverses and xxhash is taken to tell bodies apart; `ZeroSum` says which
bodies, compressed or not, happen to have a checksum of zero.

### Smfc and Routing

`Smfc` is `main`, `codegen::parse`, `codegen::gen` and the three generators. The
schema is edited (`AddService`, `AddMethod` at any position) and `smfc` is run on
it again: `Main`, `Parse`, one `Gen` per language, `Return`, each of which may fail.
Of the generated code the handles, the cases of the switch and the ids that the
clients send are kept. `Routing` adds the programs built from it: a server linked
with the C++ output (`BuildServer`, `RegisterService`), clients of all languages
that stay in use (`BuildClient`), and `rpc_handle_router::get_handle_for_request`.

### Histogram and LoadGenerator

`Histogram` has `record`, `operator+=` and `seastar_histogram_logform` as operators on
a record of the accepted samples, `sample_count` and `sample_sum`. The hdr library is
external: it refuses values above its maximum, keeps three significant figures (a
duration is counted as `Lowest` of it, and `Class` is what is told apart), adds bucket by
bucket, and its logarithmic iteration ends with the first level that covers the largest
sample. The 26 exported buckets end at 10 * 2^25 microseconds, some 335 seconds; the
comment at `src/src/core/histogram.cc:109-110` says "around 6000 seconds".

| State of `LoadGenerator` | Code |
| --- | --- |
| `args`, `main`, `code` | `load_generator_args` and the cores; where the chain of `main()` is; the exit code |
| `server`, `gen`, `conn`, `home` | per core the `rpc_server` and the `load_generator`; per channel its connection and the core that accepted it |
| `bench`, `limit` | per core: `benchmark()` and its semaphore |
| `fiber`, `sent`, `calls`, `req` | per channel: `invoke()`, the iterations that are over, the calls made, the request in progress |
| `jobs` | per channel: the fibers of the server for its connection |
| `took` | history: per channel, how many of its calls lasted how long |
| `chist`, `shist`, `reduced`, `acc`, `file` | the histograms of clients and servers, `map_reduce`, the files |

`ServerStart` to `Write` are the chain of `main()`; an exception skips to the hooks at
exit (`StopServer`, `StopLoad`), the last registered first. `BenchBegin`, `Launch`,
`Launched`, `BenchEnd` are `benchmark()`; `Iterate`, `Answered`, `Lost` are
`load_channel::invoke()` on a client of which only `RpcCall` is kept, and `MeasureEnds`
is the end of its measurement; `Dispatch`, `Reply`, `JobEnd` are the fiber of a request
on the server, measured to its end, which comes after the reply.

### TestPrograms and TestRunner

The other integration tests await one thing after the other, so each is a script, and
the steps say what each may come to. `missed` records that what the test says it
expects did not happen, and the steps differ in what follows:

- `Check` and `CheckBackoff` throw, and the test fails: rpc_multiple_remote_addrs and
  hystrix, the `Strict` tests;
- `CallMustFail` and `CallOrReconnect` catch every exception, also the one thrown
  because the expectation was not met (rpc_send_timeout, rpc_reconnect_with_timeout);
- `TimedCall` drops the result of the call and fails only for one that was too quick,
  though the first request "should" succeed and the second one time out
  (rpc_backpressure);
- `SendHeader` waits for a timeout that does not come, since its header has no meta and
  is refused at once, and looks at nothing (rpc_recv_timeout);
- `WriteStep` catches what `app.run()` throws, and `main()` returns 0 (histograms).

`TestRunner` is `main()` of `test_runner.py`:
`LoadTestConfiguration`, `SetUpTestEnvironment`, `RunSubprocess`, `Waited` (with the
repetitions of `execute`), `CleanTestResources`. `ProgramStep` is a step of the program
it waits for: a script, or the rpc test of `LoadGenerator`. The demo client, started
from a shell, runs without the runner.

## What is checked

| Run | Instance | What it shows |
| --- | --- | --- |
| `client_safety` | 2 calls, 2 sessions, 2 connections, fair | A promise is pending exactly while it is in a slot; no call waits on a dead connection; no slot exists behind a closed gate; `conn_` is not null under a fiber; no two readers share a stream; memory is conserved; the client implements `RpcCall`; every accepted call is resolved; `stop()` and `reconnect()` get past the gate |
| `client_reuse` | 3 calls, 2 sessions, 1 connection | Replies reach their own call though numbers are reused; frames are not interleaved |
| `client_wrap` | 2 calls, 1 session, `Window = FALSE` | When a session number collides with one in use (release build), the slot table and `read_counter_` survive |
| `server_safety` | 3 requests, 2 connections | Ended sessions are forgotten; replies are not interleaved; every unit of memory is free, held by a request, lost with a timeout, or the difference made by the narrowing of a size, which alone takes the semaphore below zero; the server implements `RpcServe` |
| `server_live` | 3 requests, 2 connections, fair | `stop()` resolves and ends every session but one that waits for memory; a request waiting for memory gets it unless units are gone with a payload that timed out or threw, or with a size from 2^31 on |
| `reconnect` | 3 fibers, fair | The backoff is the table entry of the number of failures; somebody is trying while a connection is wanted; after `stop()` attempts under way end, none starts, no fiber sleeps again, and when it resolves no fiber and no connection is left; a connection comes about; `stop()` resolves |
| `wire` | 4 payloads, chains of up to 2 filters on each side | What reaches the handler is what was sent; header and body stay in step; what is not to be compressed is not; a message is refused only if it is damaged, has no meta, uses an extension, has a checksum of zero or is too large, and ends after that only if the receiver lacks the filter or does not know the flag |
| `routing` | 2 services, 2 methods, 2 edits, 2 registrations | Clients of any age and language reach their own method or none; exit 0 means that all files are there and current |
| `bench` | 2 channels on 1 or 2 cores, up to 2 requests each; 7 scripts with every `test.json`; fair | No fiber outlives its benchmark; a channel sends its share unless its own connection breaks; the clients' file has every call that hdr tracks once, under the value it is counted as; exported buckets have fixed bounds and the samples up to them; a test passes only if it ran as often as asked with its clients stopped, and, for the two strict tests, what it expects happened; files are removed only after success; the runner, which has no timeout, ends |

Three more runs are expected to find a violation; see the next section.

**Bounds.** Two connections are enough for a read left over from the first to meet
the second; three calls over two sessions enough for a number to be reused while
another call is in flight; one session enough for every second call to collide. One
call or request needs all of the memory and the others half, so that the queue of
the semaphore forms; on the server that one also has `SignBit` bytes, as 2^31 is both
the sign bit and the default limit. Three fibers of `connect()` let one retry break another while
a third sleeps. Two filters on each side give both orders of the two codecs and the
same codec twice; one payload is over `MaxBuffer` unless
zstd compresses it. Two edits are enough to add a method before and after an existing
one between two generations. Two channels on one core share a semaphore, on two
cores they are summed by `map_reduce`; the command lines include one that asks for no
requests, one with too little memory and one with no connection. Of the two latencies
one is counted as a value of the second bucket though it is above its bound, and one is
above the maximum: buckets are filled or padded, and samples refused. Other
numbers of filled buckets are left to `LogformExports`, which is proved for any number. `MaxConn`, `MaxFilters`, `MaxEdits`, `MaxServices`
and the sets of calls, requests and fibers are the only bounds; `read_counter_`,
`avail` and `completed` stay finite by themselves. Deadlock is not checked: every
one of these systems may come to rest (all calls made, `stop()` resolved).

**Symmetry** is used for calls or requests of equal size, in runs without liveness.

**Fairness.** Weak fairness on the continuations of a started fiber: the reactor
runs what is ready. Filters, handlers and writes terminate, a connection attempt
succeeds or fails, timers fire (`with_timeout` around each read of the client, and
around the payload on the server), an aborted accept throws, a stream that was shut
down ends. Strong fairness for `SendStart` on the server, since the write semaphore
is served in order and a waiter is passed over at most by those before it. For
`reconnect_client`, strong fairness of `DialOk` says that the server can be reached
now and then, and strong fairness of `Dial` that the client's gate drains during the
second or more that the other fibers sleep. `bench` needs only weak fairness of the
whole step, since its runs are finite: connections are accepted or refused, and a
request is answered unless its connection breaks. In the other runs nothing makes a
user call, a peer send or a server answer.

## Where the code and its comments disagree

Three disagreements are kept as runs that must find a violation:

- `client_stale_reader`: a `process_one_request` abandoned by a timeout goes on.
  When it fails after a reconnect it marks its own connection, which
  `src/src/core/rpc_client.cc:221` copies for this case, but then calls
  `fail_outstanding_futures`, which disables the *new* connection and fails its
  calls (`ReadFailsItsOwnConnection`).
- `server_units`: a payload that times out or throws never returns its units of the
  memory semaphore (`NoUnitsLost`).
- `wire_status`: a reply whose handler set no status has meta 0 and is refused by
  `parse_header`, although the comment in every generated method says that a status
  is "Not imposed by smf whatsoever" (`StatusNotImposed`).

The modules state some more properties that comments or assertions claim and the
code does not have. Adding one to a configuration of its module as INVARIANT or
PROPERTY, with the constants named here, gives the counterexample.

| Property | Code | What it contradicts |
| --- | --- | --- |
| `RpcClient!RecvTimeoutAfterHeader` | `rpc_client.cc:266` times the wait for the header too, so an idle client gives up | `rpc_client.h:27` |
| `RpcClient!FailedConnectionIsShutDown` | `rpc_client.cc:226` sets the error first, so the shutdown is skipped | `rpc_client.cc:201`, "This is critical" |
| `RpcClient!SlotIsFree` with `Window = FALSE` | `rpc_client.cc:91` wraps onto a slot in use | the assertion at `rpc_client.cc:94` |
| `RpcClient!OneParserPerConnection` with `BareConnect = TRUE` | `rpc_client.cc:144` allows `connect()` on a failed connection whose reader is not done | the assertion at `rpc_recv_context.cc:86` |
| `RpcClient!GateDrains` with `MaxMem = 1` | `rpc_client.cc:182` waits for ever for an envelope larger than the limit | `rpc_client.h:33` |
| `RpcServer!UnitsReturnedInFull` | `rpc_server.cc:225` narrows the size to an `int32_t`, which `:229` returns | "Critical to understand memory ownership", `rpc_server.cc:243` |
| `RpcServer!CompletedAreAnswered` | `rpc_server.cc:216` counts without a reply | the metric's text, `rpc_server.cc:57` |
| `RpcServer!ActiveConnectionsNonNegative` | `rpc_server.cc:313` counts a connection down that its destructor counts down again | the metric's text, `rpc_server.cc:42` |
| `RpcServer!FilterThrowInterrupts` | `rpc_server.cc:235`: an exception of a filter does not reach the connection | `rpc_server.cc:264` |
| `RpcServer!StopWaitsForSessions` | `rpc_server.cc:166` waits for request fibers, not for session loops | `rpc_server.h:128` |
| `ReconnectClient!ConnectsOnce` | two fibers may both dial; the second connection replaces a valid one | `rpc_client.cc:144` |
| `LoadGenerator!RequestsPerConnection` | `load_generator.h:79` divides the requests by the connections, truncating before `ceil` | "number of request per concurrenct connection", `integration_tests/rpc/main.cc:103` |
| `LoadGenerator!FileHasEveryCall` | hdr refuses a call longer than `kDefaultHistogramMaxValue`, and `histogram.cc:49` does not look | the file of `integration_tests/rpc/main.cc:178` |
| `LoadGenerator!SumCountsSamples` | `histogram.cc:29` adds the buckets, neither `sample_count` nor `sample_sum` | the meaning of `+=` |
| `LoadGenerator!ServerFileHasEveryCall` | a server fiber is measured when it ends, after the reply the client waits for | the two files of `integration_tests/rpc/main.cc:178` |
| `LoadGenerator!StopsAfterFailedStart` | `rpc_server.cc:155` follows `listener_`, which is null when `start()` threw | the hook at exit of every test |
| `TestRunner!ExpectationsCount` | `rpc_send_timeout/main.cc:56` catches the exception of the line before; `rpc_backpressure` and `rpc_recv_timeout` do not look at the outcome | "SHOULD HAVE TIMED OUT", `rpc_send_timeout/main.cc:55`; `rpc_backpressure/main.cc:54`; "expecting timeout", `rpc_recv_timeout/main.cc:61` |
| `TestRunner!RemovesItsOwn` | `test_runner.py:123` looks for the prefix anywhere in the path | the message "Removing tmp dir", `test_runner.py:128` |
| `RpcWire!SupportedIsParsed` | `rpc_recv_context.cc:109` takes a checksum of zero for a missing one | `rpc_recv_context.h:17` |

## What is proved

The theorems hold for every set of calls, requests, payloads, fibers, names and
samples, every number of sessions, connections, cores and channels, all sizes, and
filter chains and schemas of any length. TLC evaluates the assumptions on the
constants in the runs:

- `ClientAssumption`, `ServerAssumption`, `WireAssumption`, `LoadAssumption`: the sets
  of calls and of requests are finite, sizes are positive (and have 32 bits on the
  server), and the rest are numbers or
  truth values. `SmfcAssumption`: checksums are numbers, the words on the command line
  are words. `TestAssumption`: a test.json names a program there is, and the rpc test is
  run once, as its own says.
- `HistogramAssumption`: durations are numbers, finitely many of them occur, none is
  counted as a larger one, the base of the buckets is at least 2 and the last bucket is within what the hdr library tracks.
- `IdsDistinct`: the ids of different methods differ. The generator does not check
  this, and without it no lookup by id can be right. `Xor` is a constant operator of
  which nothing else is assumed; the run gives it the bitwise one.
- `NoHandleAssumption`: a null handle is not one of a method.

Each theorem rests on an inductive invariant of its component, proved with one lemma
per action or group of actions, since the properties are seldom inductive alone.

**Client.** `RpcClientProofs!Invariance` proves the inductive invariant `IInv`,
under no restriction of the callers and in both builds. `PendingIffInSlot` needs that
a slot holds a call of that very session (`SlotShape`) and that a call without session
has nothing anywhere (`CallShape`). `ClosedGateHasNoSlots` needs that the gate is
closed exactly while `stop()` or `reconnect()` drains it (`GateShape`). `WriteShape`
and `ReadShape` tie writes and reads to opened connections. From it follow
`PromisesAccountedFor`, `NoCallOrphaned`, `ClosedGateClean`, `ConnNeverNullInUse` and
`FramesNotInterleaved`. `DeliveredOnce` adds that a reply is held by one reader or
was given to one call. With `~BareConnect`, `OneParser` shows that each stream has
one reader. Under `Window`, `RepliesMatch` adds `Matched`: whatever is in flight with
the session of a call finds that call in the slot, or nobody. `Refinement` (under
`Window`) shows that every step of the client is a step of `RpcCall` or leaves its
variables alone.

`RpcClientCounts` has what needs counting. `CounterCounts` shows what `read_counter_`
counts: calls that were given a session and no reply, the failed ones included. So it
does not underflow (`TypeCorrect`). The replies handed out (`DeliveredOnce`) are fewer
than the requests heard of, and `CounterNeverZero` follows by counting.
`MemoryInvariant` shows that the free units of memory and the sizes of the writes in
progress add up to the limit: every step takes the units of one call, returns them, or
moves none.

**Server.** `RpcServerProofs!ServerInvariance` proves an invariant with one conjunct
per group of variables: `open_connections_` is exactly the connections not disabled,
a disabled connection has an error, an ended loop belongs to a disabled connection,
and a session reads at most one request, which no other session reads. From it
follow `ServerTypeCorrect`, `EndedSessionsClosed` and `RepliesNotInterleaved`.
`ServerRefinement` adds that the gate is empty once `stop()` resolved, and maps the
server to `RpcServe`. `ServerMemory` accounts for the units of memory as the client's
theorem does. Here the units of a payload that timed out stay with it for ever, and a
request whose size was narrowed keeps the difference; the semaphore is below zero only
after such a request.

**Reconnecting.** `ReconnectClientProofs` proves `BackoffFollowsFailures`,
`SomeFiberTries` and `StopEndsAttempts` for any number of overlapping `connect()`s.
The step of the clamp table is the next entry, so the number of entries below `bo_` grows by
one with each failure up to the last entry. `KeepsTrying` needs that a connection that
is up is not wanted: only then is the fiber that finds a valid connection and ends not
the last one trying. `StopEndsAttempts` is a property of steps: an attempt looks at the
gate when it starts and again when it has failed, and `stop()` resolves on an empty gate.

**Wire.** `RpcWireProofs!WireInvariance`: the header describes the body as it was
before the connection (`Fits`), its flag names the body's codec (`FlagFits`), data
and meta are those that were sent and damage does not pass the checksum
(`Carried`), and a codec the receiver can undo still has its filter to come
(`Undone`). From it follow `MessagesDeliveredIntact`, `HeadersFitBodies`,
`FiltersHarmless` and `DisabledNeverCompressed`.

**smfc and routing.** `RoutingProofs!RoutingInvariance`: in a run of smfc each language
asked for is still to come or has a file generated from the schema as it is
(`RunProgress`), and all that servers and clients are built from was generated from
some service (`Built`). `ExitMeansGenerated` follows. `HandlesStaySame` needs no
history of the schema at all: the id in a client and the case in a server are computed from
names alone, ids are distinct, and the first matching case and the first matching
service are therefore those of the method.

**Histograms.** `LogformExports` is about `seastar_histogram_logform()` by itself: for
any samples, any number of buckets and any base, the exported buckets are the bounds
with the samples up to each. The levels that the hdr iteration begins before its total
is complete are the first ones, and from the last of them on the running total stays
(`BegunFirst`), so padding with the last count is right; the padded bounds continue the
powers (`PowersAdd`).

**Load generator.** `FibersInvariant`: no background fiber is left when `benchmark()`
has ended or its generator is gone. The free units of the semaphore and the running
fibers of a core add up to `concurrency` (`Units`, by counting; stated by itself in
`UnitsInvariant`), so the wait for all units ends when no fiber holds one. It needs that
a benchmark only waits when all fibers were launched (`Fibers`), that `invoke()` never
throws before it returns a future, because there is at least one request
(`SomethingToSend`), and that the program leaves the benchmark phase only when all cores
have ended theirs (`Phases`). `LoadInv` adds that a fiber that is done has sent its
share (`Clients`), every call but the one in progress is measured (`Measured`) and
counted as hdr counts it or refused (`Recorded`, per class of durations), the
servers count every sample they record, also those above the maximum (`Served`), and the
sum of `map_reduce` is that of the channels of the cores visited (`SummedUp`). From it
follow `ChannelsInvariant`, `FileInvariant` and `MetricsInvariant`.

**Test runner.** `PassedTestsRan` and `EvidenceInvariant` rest on `RunnerInv`: the runs
that are over and those to come add up to `repeat_times`, cleaning up comes after a run
that returned 0, and where a script is says what became of its client and, in the strict
tests, of its expectations (`ScriptInv`). `RunsAreLoads` shows that a behaviour of the runner is one of
`LoadGenerator`, which carries the theorems above over to `RunnerSpec`, the
specification that the run `bench` checks.

**How sums and recursion are proved.** Sums are folds of the community modules over sets
of any size. The provers cannot use induction theorems that take a predicate as an
operator. `SumTheorems` therefore states induction with sets: a set of numbers has a
smallest element (`SmallestNumber`), and a set of sets that has {} and, with a set, what
a fold reaches next has all finite sets (`SubsetInduction`). From these it proves that a
fold exists (`FoldExists`), that sums may be taken in any order and in parts, and that the
recursive function of the powers is what its definition says (`PowersExist`).

**Only model-checked.** Liveness under fairness is out of the prover's reach:
`CallCompletes`, `GateDrains`, `StopCompletes`, `StopEndsSessions`, `MemoryWaitEnds`,
`EventuallyConnected` and `RunnerEnds` stay with TLC. So does the disagreement of each of
the violated properties with the code, which is a counterexample and no theorem.

## What is not modelled, and why

- TLS of client and server: its streams behave as plain ones; `connect()` moving
  the credentials away is in the list of hazards.
- Damage of the header: it has no checksum, so nothing can be promised about it.
- Two management calls (`reconnect()`, `stop()`) of one client at the same time:
  left to the callers, except for what `reconnect_client` does.
- Of the load generator the printing of durations and rates, and TLS; of the histogram
  the recording functions that only tests use, and the text form.
- Memory after decompression: units are acquired for the size on the wire (hazards).
- The demo server, the benchmarks of allocation and checksums, the histogram tests and
  the formatting tools: straight-line programs without state of their own.
- `rpc_bad_msg_t`, which only has to compile, and the environment and arguments that
  the runner passes on.
- Logging, random numbers, formatting, typed buffers: no state that anything else
  depends on.
- The text of generated code beyond handles, switch and ids.

## Possible extensions

- The contracts `RpcCall` and `RpcServe` composed over a connection that loses what is
  in flight, with at-most-once execution end to end, and memory units against
  decompressed sizes.
