# my-http-rust-server in TLA+

A formal model of `my-http-rust-server`, an HTTP/1 and HTTP/2 server written on
tokio. A connection is one task that reads lines until they tell the protocol;
an HTTP/1 connection stays one task, an HTTP/2 connection becomes several: one
for the connection, one per stream, one per dispatched request and one reader,
which share nothing but bounded channels, cancellation tokens and a semaphore.
Both are modelled, model-checked with TLC and in part proved with TLAPS. Paths
are relative to the repository, and `http2_stream.rs:303` stands for
`src/src/http2/http2_stream.rs`, line 303.

## 1. The system

| component | state | operations | talks to |
|---|---|---|---|
| server, accept loop (`server.rs`) | listener, router | register, build, accept, spawn a connection | spawns connections |
| protocol detection (`connection.rs`) | the lines read so far | `create_connection_context`, `verify_protocol` | hands the socket to an HTTP/1 or HTTP/2 connection |
| HTTP/1.x connections (`network_connector.rs`, `connection_reader.rs`, `http_request_context.rs`) | the request line and header lines read, the builder of the request, keep-alive | `loop_http1`, `loop_http11`, `handle_`, `should_close`, `response` | dispatcher, by a call |
| HTTP/2 handshake (`http2_connection.rs:58-79`, `connection_reader.rs`) | options of the client | `handle_preface`, `handle_settings` | precedes the connection task |
| HTTP/2 connection task (`http2_connection.rs`, `http_connection_context.rs`) | the context: channels and tokens per stream, open header block, count of active streams, client's window, largest streams, GOAWAY, error; `pending_frames` | the arms of the `select!` of `serve`, `handle_connection_error`, `handle_stream_error` | everything below |
| reader task (`http2_reader.rs`) | socket | read a frame, send it on | connection (channel of 100) |
| stream task (`http2_stream.rs`) | state of RFC 7540 5.1, collected blocks, decoder states, request under construction, response not yet sent, stream's window | the arms of the `select!` of its `serve` | connection (channel of 100 either way) |
| dispatch task (`http2_connection.rs:165`) | permit, token | acquire, run the handler, reply | stream task, semaphore |
| frame handlers (`frame_*.rs`, `common_frame_handler.rs`) | none | `validate`, `process`, `maybe_ack` | connection's context |
| header decoder (`http2_header_decoder.rs`) | HPACK table; the machine of one pass | `decode_headers`, `decode_trailers` | connection |
| settings, options (`frame_settings.rs`, `http2_conn_options.rs`) | options of either side | judge parameters, combine, update | handshake, connection |
| dispatcher, router (`dispatcher.rs`) | five maps from path to handler | register, look up | dispatch tasks, HTTP/1 |

**How they interact.** The accept loop spawns a task per socket. It reads lines
until one names a version; an HTTP/1 connection then reads a request, calls its
handler, writes the response and turns, all in the same task; an HTTP/2
connection exchanges SETTINGS and enters `serve`. There, a frame goes socket → reader → connection. The
connection validates it, applies its effect on the context, creates the stream
task if it is the first of its stream, and forwards it. The stream task
collects header blocks and sends them back to the connection to be decoded
(there is one HPACK table for the connection); the answer comes back through
its inbox. A complete request is handed to the connection, which spawns a
dispatch task; that one replies to the stream task, which turns the response
into frames and sends as much as its window allows to the connection, which
writes them as far as the connection's window allows. Errors travel to the
connection, which answers with RST_STREAM and cancels the stream's token, or
with GOAWAY and cancels the root token and ends.

**What is hard.** Every one of those arrows is a message that can be overtaken
by a reset, by the end of the connection, by a second frame of the same stream
or by a cancellation. A stream task decides by half a dozen fields set by
different messages; the connection waits for room in a stream's channel outside
its `select!`; the two windows are debited by two tasks at two times; `serve`
has several exits and only one cleans up. An HTTP/1 connection is sequential, but
its client need not wait: requests lie one behind another in one buffer, may be
cut short at any line, and the code decides piece by piece, with four readers,
where one ends and the next begins. `PROJECT.json` lists these hazards
with their lines and the properties aimed at them.

**What makes each part correct** (sections 6 and 7 say where it is not).

- *Stream task*: it does not panic; at most one request to the decoder is under
  way and its answer finds the task waiting for it; a request is handed over
  once and answered once; what goes to the decoder is one whole header block.
- *Connection task*: it keeps its side of the contract with the stream tasks;
  it writes a response in order and within the client's credit; streams open in
  order; nothing after GOAWAY; GOAWAY covers what was dispatched; nothing hangs and no task is left
  over; every request is answered.
- *Header decoder*: it accepts only well-formed blocks (it refuses some that are, section 7).
- *HTTP/1*: a handler is given the request its client framed; none is served
  twice or out of order; each answer says truly whether it is the last; a framed
  request is answered; the end of the socket ends the task, wherever it comes.
- *Handshake*: it ends with both SETTINGS acknowledged and with the options the
  client asked for, or not at all.
- *Router*: a request gets the handler that is registered for its method and path.

## 2. The modules

```
Http2Frames ── StreamStateMachine ── Http2Stream ─┬─ StreamContract ─┬─ MCStreamContract
     │                                            │        ▲         └─ StreamContractProofs ── HeaderBlockProofs
     └── FrameHandlers ─────────────────────┐     │        │ INSTANCE                                ▲
                                            └─ Http2Connection ── ConnectionProperties               │ INSTANCE
                                                                     ├─ ConnectionProofs ────────────┘
                                                                     │     └─ ResponseProofs ─┐
                                                                     ├─ FlowControl ──────────┴─ FlowProofs
                                                                     │     └──────────┐
                                                                     └─ MCConnection ─┼─ MCFlowControl
HeaderDecoder ─┬─ MCHeaderDecoder                                                     └─ MCDecodeOrder
               └─ HeaderDecoderProofs

Socket ── Preface ─┬─ Http1Connection (with Router) ──┬─ NetworkConnector ── ConnectorProperties ─┬─ MCSockets
                   └─ Http2Handshake (with Settings) ─┘                           │ INSTANCE      └─ ConnectorProofs
                                                                                  ▼                    │
                                                                         PersistentConnection     FramingProofs
```

| module | what it stands for |
|---|---|
| `Http2Frames` | a frame as a record of the fields some decision reads (kind, stream, END_STREAM, END_HEADERS, ACK, length, padding, one value) and the errors of `http2_errors.rs` |
| `StreamStateMachine` | the RFC 7540 5.1 machine of `http2_stream.rs`, and the change of the active count each transition asks for |
| `Http2Stream` | a stream task: `task[s]` holds the fields of the Rust struct, `inbox[s]` its channel, `toConn` the connection's, `cancelled[s]` its token, `connUp` whether `serve` still receives |
| `StreamContract` | **the abstract specification**: the stream tasks against any connection that keeps five promises (frames of a stream in order, blocks uninterrupted, a decoding request answered at most once, a dispatch answered at most once, no delivery to a task that is over). Its client is any, or one that keeps to the grammar of a request. The properties of the stream tasks, and their inductive invariants, are stated here |
| `FrameHandlers` | the `validate` of every handler, in the order of its checks, as one verdict per frame; panics included |
| `Http2Connection` | the reader, the connection task and its context, the dispatch tasks, together with the stream tasks; `Contract` is its refinement mapping to `StreamContract` |
| `ConnectionProperties` | the properties of the composed system, and the inductive invariant of its responses |
| `FlowControl` | flow control from the client's end: the initial window it has announced and the credit it has given, against the DATA written, and the inductive invariant that relates the two |
| `HeaderDecoder` | `decode_headers`/`decode_trailers`: the pass over the fields, one action per field, the independent definition of a well-formed block, and what the pass remembers of the fields behind it |
| `Socket` | what the client writes, request by request and line by line, how far it has got when it ends its side or vanishes, and where the reader stands |
| `Preface` | `create_connection_context` and `parse_preface`: detection, the request line of each later request, and the end of the socket at every read |
| `Router` | registration while the server is built, look-up |
| `Http1Connection` | `handle_` and the two loops: header, `content-length`, body, building the request, dispatch, response, keep-alive |
| `Settings` | the verdict on SETTINGS parameters, and the options they give |
| `Http2Handshake` | the start of `Http2Connection::serve`, up to its loop |
| `NetworkConnector` | the task of one connection, composed of these, with the application that registers routes and a client that may do anything |
| `PersistentConnection` | **the abstract specification** of what an HTTP/1 client may rely on: answers in order, one each, by the right handler, the last one announced as the client wished |
| `ConnectorProperties` | what a framed request is, the properties, and the refinement mapping to `PersistentConnection` |
| `StreamContractProofs`, `HeaderBlockProofs` | theorems about stream tasks under the contract |
| `ConnectionProofs`, `ResponseProofs`, `FlowProofs` | theorems about the HTTP/2 connection, which import those by its refinement |
| `HeaderDecoderProofs` | theorems about the pass over a header block |
| `ConnectorProofs`, `FramingProofs` | theorems about HTTP/1 and the handshake |
| `MC*` | alphabets of frames; history variables where a property is about history |

**How state corresponds.** A step of a model is what the code does between two
points where another task can intervene: a channel that may be full, a token,
the semaphore. A task that waits for room in the connection's channel
holds its message in `task[s].out`; the connection that waits for room in a
stream's channel holds it in `blocked`, and takes part in nothing else
meanwhile, as in the code, where that `send` is awaited outside the `select!`.
`ctx` is `Http2ConnectionContext1`, field by field, without the options and
without `window_size_of_server`, which the code writes and never reads.
`root`, `cancelled` and `fresh` are the cancellation tokens: `fresh[s]` is the
one that `get_stream_token_by_stream_id` makes anew for a stream whose token was
removed (`http_connection_context.rs:246`). `wire[s]` is what was written on a
stream, `wire[0]` on the connection. `stage[s]` is not in
the code: how far a request has been forwarded, which the contract needs to
say what an uninterrupted block is; nor is the contract's `client`, whether
the client keeps to the grammar of a request (section 3).

*Before HTTP/2's loop, and in HTTP/1,* there is one task, and `at` says where it
is: `detecting`, then `line` (a later request line), `headers`, `body`,
`dispatching`, or `magic`, `settings` and `serving`, or `closed`. Each step is
one awaited read with all that follows up to the next read or write. `preface` is the
`PrefaceMessage`, `acc` the buffer `acc` of `handle_`, `dispatched` the requests
`RequestContextBuilder` has built, `responses` and `written` what was written,
`routes` the five maps of the router, `options` `http2_options_from_client`. A
request is the sequence of its lines, each reduced to what a reader tells apart;
`octets` is a text with no line feed, which `read_until` returns together with
the line behind it. Nothing in `Socket` marks where a request ends for the server: the
model finds out as the code does, and goes astray as the code does.

**What is abstracted.** Payloads are gone; the outcome of decoding is chosen
from a set (plain, with a `trailer` field, malformed, compression error, other
error), the size of a response's body from `Sizes`, and the handler is any code
that returns. In `Http2Connection` the handshake is over in the initial state, and the client's
options play no part, because the code never reads them (section 7); what that means for
its initial window is `FlowControl`'s. `GoawayIds` is the number of identifiers that the mask of
GOAWAY lets through (2^27, `frame_goaway.rs:59` and 76), and `LastStreamId` applies it both to
what is written and to what is read. HEADERS and DATA of a
response are two frames, as `http2_stream.rs` builds them; at most one DATA
frame is ever held back by a stream's window, because a request is dispatched
once (`DispatchedOnce`). The count of active streams wraps at `CountModulus`
(2^32 in the code), which is how a release build subtracts below zero. The
idle timer may fire whenever the connection is in its `select!`.

## 3. The runs

| run | module, specification | question | result |
|---|---|---|---|
| Client | `MCStreamContract`, `MCSpec` | do the stream's promises hold against *every* client and every connection that keeps the contract, and those about trailers against every client that keeps to the grammar of a request? | passes |
| Traffic | `MCFlowControl`, `ScenarioSpec` | requests, blocks in two frames, bodies, trailers, resets, credit, SETTINGS, PING, GOAWAY, refused and ignored streams, a panic in a handler, a window overflow: order, credit, GOAWAY, contract | passes |
| Progress | `MCFlowControl`, `ScenarioFairSpec` | is every request answered, does every task end? | passes |
| Headers | `MCHeaderDecoder`, `Spec` | does one pass let only well-formed blocks through? | passes |
| Sockets | `MCSockets`, `ClientSpec` | what does a client of HTTP/1, framed or not, and of the HTTP/2 handshake get, wherever it stops? | passes |
| DecodeOrder, Parked, Orphans, Stuck, AfterReset, SmallWindow, EofSpin | | what comments of the source say (section 6) | violated |

`KeepsContract` is the refinement: the composed system is checked, and in section 4
proved, to implement `StreamContract!Spec`, so what is proved of the contract holds
of the streams of the concrete connection. `ServesAsPromised`
is the other refinement: the lines, buffers and readers of `NetworkConnector`
implement `PersistentConnection` for as many requests as the client frames. What
the client writes after them is arbitrary, and is not among the questions of the
abstract specification, but must not disturb the answers to them.

Four of the properties are inductive invariants, or parts of one, that a proof
rests on and that say something by themselves: `TasksInStep` (what a task knows
of the messages under way for it), `TrailersInStep` (what a task knows of an orderly
client), `ContextFaithful` (what the connection knows of tasks that act on
their own) and `PassRemembers` (what three variables know of the fields behind
them). `AnsweredForGood` is an action property: once no answer to a stream's
request is due, none ever is.

**Orderly clients.** `Grammatical` is the grammar of RFC 7540 8.1, frame by
frame: a header block, DATA, and at most one block of trailers, the last of them
with END_STREAM. The variable `client` of `StreamContract`, chosen at the start and
never changed, says whether the client keeps to it. That restricts the
frames and nothing else: the answers of the decoder and of handlers, cancellation,
RST_STREAM, WINDOW_UPDATE and PRIORITY at any time, and the end of the connection
stay arbitrary. `NoPanic` and `TrailersInOrder` are claimed of orderly clients only,
because the code fails others (section 7); all else is checked against any.

**History variables.** `MCStreamContract` counts forwarded frames.
`FlowControl` adds up the credit the client gave, per stream and for the
connection, and keeps the smallest initial window it has announced. `MCDecodeOrder` records the order in which blocks ended and in
which they were decoded.

**Bounds, and why they are enough.**

- *Streams*: `{1, 3}` wherever two streams can disturb each other (the shared
  channel, the permit, the connection's window, the order of identifiers);
  `{1}` in `Client`, whose properties are each about one stream while all other
  streams are in the environment's nondeterminism.
- *Frames*: 3 or 4 from an alphabet of 3 to 10 (1 to 3 in the violated runs). Four are HEADERS,
  CONTINUATION, DATA, trailers; or a block, its interruption and a reset. An
  orderly client has five in `Client`: HEADERS and CONTINUATION, DATA, and trailers in two frames.
- *Scenarios*: in `Traffic` and `Progress` the client chooses one of several
  alphabets first and keeps to it, so that frames that have nothing to say to
  each other are not mixed: requests, trailers and frames of the connection in
  `Traffic`; two requests that contend, and one with a body and trailers, in `Progress`.
- *Channels*: 2 each way (100 in the code), so that a sender finds the channel
  empty, part full and full; 1 in `Stuck`, where a full channel is the point;
  3 into a stream in `Client`. The reader's channel holds one frame.
- *Permits*: 1 for two requests, the smallest contention.
- *Windows*: `InitWindow = 1` and bodies of 2, so that every response is held
  back until a WINDOW_UPDATE of 2 comes; `MaxWindow = 8` (2^32 - 1 in the code)
  is small enough that an increment of 8 overflows it.
- *Announced windows*: in `Traffic` the client starts from the window the server
  assumes, 1, and a SETTINGS frame may lower it to 0; in `SmallWindow` it announces 1
  where the server assumes 2.
- *GoawayIds*: 4 for the identifiers 1 and 3, so that they fit, as all do that a client
  reaches within 2^26 requests. With 2, where 3 does not fit, TLC finds
  `GoawayCoversDispatched` violated (section 7).
- *MaxStreams*: 3 in `Traffic` and `Progress`: each stream is counted twice
  (section 7), so that trailers on the one open stream, and a second stream, are
  within the limit, and HEADERS that come while both are open are refused.
- *Headers*: lists of at most six fields of sixteen: the four required
  pseudo-header fields, one more, and one out of place or repeated.
- *Sockets*: any two of twelve HTTP/1 requests one behind the other, or three of
  a few (the version, the wish to close and the body each differ), or one of
  eleven HTTP/2 clients; the client ends its side or vanishes after any line.
  Two requests are the least in which one can be taken for part of the other; the
  third shows that the loop does not remember the one before the last. The
  frame sizes 20 to 30 and the window 8 stand for the limits of RFC 7540, 6.5.2,
  and the frames lie on both sides of them.

**Fairness.** `Fairness` is weak fairness of the connection's steps as a whole,
of the reader's end, and of each stream task and each dispatch task: tokio polls
every task that has been woken. Nothing is assumed of the client, which may stop
sending, never send credit and never close, nor of the idle timer, nor of which
ready arm of a `select!` is chosen. That a dispatched handler returns is an
assumption on the application, not on this code. `RequestsAnswered` is checked
with trailers that hold an announced field or are malformed. It excepts a
request that announced trailers and ends without them, and trailers with no
announced field are not among those of the run: in both cases the code leaves
the request unanswered (section 7). The channels of 2 cannot be filled on both
sides at once by three frames: `Stuck` shows what happens to a client that does
fill them, and `RequestsAnswered` is not claimed for it.

In `ClientSpec` and `FairSpec` of `NetworkConnector` the only assumption is
weak fairness of `Task`, the steps of the connection's one task, for the same
reason; `RequestsServed` and `ConnectionEnds` rest on it and on nothing the
client does.

**Deadlock** is not checked: a connection really stops, and a client with no
frame left to send leaves everything at rest. What may not come to rest is said
by the liveness properties instead.

## 4. The proofs

`StreamContractProofs` proves, for **every** set of streams, alphabet of frames,
channel capacity, initial window and set of body sizes, that `StreamContract`'s
`Spec` implies

| theorem | property | in words |
|---|---|---|
| `TypeCorrect` | `TypeOK` | types, and the client's window within its u32 |
| `StaysInStep` | `TasksInStep` | the inductive invariant itself |
| `NeverHalfClosedLocal` | `ServerClosesLast` | the server never ends its side of a stream first, and END_STREAM of the client is never forgotten |
| `TrailersAnnounced` | `TrailersWereAnnounced` | the `unwrap` of `maybe_trailers` (`http2_stream.rs:286`) cannot fail, for any client |
| `HeadersDecodedInStep` | `HeaderDecoderInStep` | at most one block of headers is with the decoder, and its task waits for it |
| `RequestDispatchedOnce` | `DispatchedOnce` | a request is dispatched at most once and answered at most once |
| `NeverAnsweredAgain` | `AnsweredForGood` | once its response has been handled or given up, a request is not handed over again and no second response is on its way |

and `HeaderBlockProofs`, which builds on it,

| theorem | property | in words |
|---|---|---|
| `BlocksStayInStep` | | a task that collects a header block is sent nothing but the rest of it |
| `HeaderBlocksWhole` | `WholeHeaderBlocks` | what is sent to be decoded as headers is one whole block, for any client |
| `TrailersStayInStep` | `TrailersInStep` | each task knows where in its request an orderly client is, or refuses trailers |
| `NeverPanics` | `NoPanic` | no `unwrap` of a stream task fails with an orderly client (`http2_stream.rs:286`, 602) |
| `TrailersDecodedInOrder` | `TrailersInOrder` | trailers reach the decoder as one whole block, and the answer finds the task waiting |

**Assumptions.** `StreamsAssumption`, `WindowAssumption` and
`CapacityAssumption` (of `Http2Stream`: stream identifiers are positive, the
initial window is within the largest, channels hold something),
`FramesAssumption` and `SizesAssumption` (of `StreamContract`: the alphabet is of
frames, sizes are naturals). TLC evaluates all of them on the instances.

**Argument.** None of the properties is inductive: that a second answer cannot
come for a decoded block follows from there being one request, which follows
from the task's decoder state, which follows from what it has seen of the
stream. `TasksInStep` ties these together. `Coherent` says which fields of a
task go together (dispatched only after END_STREAM; a completed header block
without announced trailers only if trailers are through; at most one message to
send). `HeadersAwaited` and `ResponseAwaited` relate a task's field to *all* the
places a request or its answer may be: about to be sent, in the connection's
channel, held by the connection, in the inbox, and for a dispatch the set
`owed`. `OneAtATime` says that at most one of these places is occupied, and
once. The task that is over, or not started, is covered by `Live` and by the
emptiness of its inbox. Each action moves a message from one place to the next;
the lemmas say what appending to and taking from a channel does to the sets
`Requests` and `Replies`, and there is one step of the proof per action.

`AnsweredForGood` needs `TasksInStep` in both states of a step: a stream that is
answered has a task that was dispatched or is over, and the invariant leaves no
place from which a request or a response could come back.

`WholeHeaderBlocks` is about a task's `headers`, which grow frame by frame while
the connection, by the contract, refuses other frames as long as `stage` says
that a block is open. The task lags behind: between it and `stage` lie its inbox
and the message the connection holds. `BlocksInStep` speaks of that whole line of
messages. `Uninterrupted` says that wherever a block is open in it, the next
frame is a CONTINUATION, and `BlockInv` that a block still open at its end is
open for `stage`; `Collected` says what the collected frames are in each state of
the decoder. A frame appended to the line, and the head of it read, are two
lemmas (`LineAppended`, `LineTail`), and the actions of the contract are
instances of one or the other, or leave the line alone.

For `NoPanic`, being in step with the header decoder is not enough: that the
header map is still there when trailers come back from the decoder follows only
from the client not having sent them twice. `HeardSoFar` reads off a
task's fields how far it has heard its request, a member of `Stages`. The task
again lags behind the client, so `LeadsOn` says that the messages it has yet to
read lead, frame by frame and each within the grammar, from there to `stage`;
`Along` is the path, a function from positions of the line to stages. A frame
that is appended extends the path and one that is read shortens it
(`AlongAppended`, `AlongTail`), so an orderly client makes every frame that a task
reads one that fits what it has heard. The exception is a task
that no longer follows its client: one whose stream has been reset, or whose headers
announced no trailers, refuses frames and stays where it is. `Deaf`
describes it: it will refuse any trailers, and so cannot panic over them. `Orderly` and
`TrailersAwaited` then say of trailers what `Coherent` and `HeadersAwaited` say of
headers, and `NoPanic` is part of the invariant. The whole blocks of
trailers follow as those of headers do, from the same lemmas: `Sound` has the type of the
request as a parameter.

**`ConnectionProofs` and `ResponseProofs`** prove, for every set of streams, alphabet of
frames, limit, window, capacity and any number of frames and permits, that `Spec`
of `Http2Connection` implies

| theorem | property | in words |
|---|---|---|
| `TypeCorrect` | `TypeOK` | types: the window of the connection within its u32, the count of streams within its modulus |
| `KnowsItsStreams` | `ContextFaithful` | what the context says of the streams is true of their tasks |
| `ImplementsContract` | `KeepsContract` | the refinement of `StreamContract` |
| `TasksKeepPromises` | | so what the two modules above prove of stream tasks and any client holds of the tasks of this connection |
| `GoawayCovers` | `ShortIdsCovered` | while identifiers fit its mask, no GOAWAY names a stream below one that was dispatched |
| `NothingAfterGoaway` | `SilentAfterGoaway` | after GOAWAY nothing is written |
| `ResponsesOrdered` | `ResponseInOrder` | what is written on a stream is one response, in order, each part once |

**Assumptions.** Those of `Http2Stream` and, for `Http2Connection`, `ClientAssumption`
(the client's frames are frames of the model's streams or of the connection) and
`LimitsAssumption` (limits and the modulus are natural numbers, the modulus
above what the limit on streams lets the count reach, as 2^32 is; at least one
identifier fits the mask of GOAWAY).

**Argument.** The invariant is `ConnectionInv`: `TypeOK`, `ContextFaithful` and the
`TasksInStep` of the contract, all three needed together. A step of the connection
keeps the contract only because its context is right about the stream
(`Forward` demands that an open block is not interrupted, the code compares
`inflight_headers_frame_stream_id`); the context is right only because a stream
task sends nothing before it is started; and the types of messages are those the
contract's tasks send. `Implements` has one case per action of `Http2Connection`
and names the step of `StreamContract` it is, or the stutter. The tasks' own steps are the same formulas on
both sides (`SameTask`). The theorems of the stream modules are then imported through
`Tasks == INSTANCE HeaderBlockProofs`, not proved again.

For GOAWAY, `GoawayIsLast` joins its two properties: when it is written the
connection task has ended, so that nothing is taken from a channel, the context does not
change and nothing is written; and it names the largest stream seen, as far as the mask
goes. `ContextFaithful` says that no dispatch is of a larger one, whenever it runs.

For `ResponseInOrder` the invariant is `ResponsesInStep`. A response leaves its task as HEADERS and
DATA in one message, or as HEADERS alone with the DATA held back in `pending` until
credit comes, and passes through the message to be sent, the channel and the
wire. `InOnePlace` says that each part is in at most one of these places,
`HeadersFirst` that DATA is never ahead of its HEADERS, and `Begun` that a
response of which anything exists is `Answered`, so that, by the action property
of the contract, no second one is ever made. This holds whatever else the channel
carries for that and for other streams, and across a reset, after which
the code still writes (section 6, AfterReset).

**`FlowProofs`** proves, under the assumptions of `ConnectionProofs` and
`FiniteAssumption` (identifiers have 31 bits, so the streams are finitely many) and
`ClientWindowsAssumption` (windows are natural numbers), that
`FlowSpec` of `FlowControl`, which is `Spec` of `Http2Connection` with the client's
account of the windows it announced and the credit it gave, implies

| theorem | property | in words |
|---|---|---|
| `CreditNeverExceeded` | `CreditRespected` | the DATA written never exceeds what the client has allowed: on the connection for every client, on a stream for one that never announces a smaller initial window than the server assumes |

`FlowSpec` does not keep the client to a scenario, as the run Traffic does: it may
send any frames of the alphabet in any order, and announce any window of
`ClientWindows` in its first SETTINGS, and smaller ones later. The server starts every stream with 65535
whatever the client has announced, so that without the condition the claim about streams, which
is part of `AllowanceRespected`, fails (section 6, SmallWindow). The connection's window is
65535 for every client, and needs none.

**Argument.** The server keeps a stream's window in the task of the stream, the
connection's in `ctx`, and lowers them at different times: the first when the
response is made or the held-back DATA is taken from `pending`, the second when it
is written. A WINDOW_UPDATE
counts in the client's account when the reader has read it, which is as late as a client
can count it, and for the server only when it has passed
the reader's channel and, for a stream, `blocked` and the task's channel. The invariant,
`CreditKept`, says what holds in between, in terms of `credit`, what a client that announces
the server's initial window has allowed:

- `WindowKept`: the window of a task plus all WINDOW_UPDATEs on their way to it is at most
  the credit of its stream. This is claimed only of a task that is not over: what is
  left in the channel of another is never read.
- `DataKept`: a DATA frame on its way (message to be sent, or channel) is within
  its stream's credit, and so is what was written. A stream writes DATA once, and none is written
  while some is on its way: that is `ResponsesInStep` of `ResponseProofs`,
  without which the sum on a stream could not be bounded.
- `ConnectionKept`: all DATA written plus `ctx.window` plus the connection's
  WINDOW_UPDATEs in the reader's channel is at most the credit of the connection.

TLC found `CreditKept` to hold in all states of Traffic before it was proved. Most steps
neither write DATA nor touch a window; `Quiet` says so of a step,
`QuietKeepsCredit` is proved once, and `OtherStepsQuiet`, `StreamFrameQuiet` and
`LeavingQuiet` show which steps are quiet. Three are not: the reader reads a frame
(`ReadingKeepsCredit`), a task takes a step (`TaskKeepsCredit`; `TaskInWindow`
has the window of a task before and after), the connection handles a response
(`WritingKeepsCredit`).

The sums are `SumFunction` of the community module `Functions`, a recursive function of
sets defined by `CHOOSE`. That its equation has a solution, and only one, is what one would
prove by induction on cardinality. `CountUp` takes the place of induction: a set of
numbers up to N that has 0, and n + 1 with each n below N, has N, since it could
otherwise be moved up by one into itself without 0, against the pigeonhole theorem
(`FS_PigeonHole`). From it follow `SumIs`, that any element may be taken out of a sum
first (`SumTakeOut`), and what a sum over a queue becomes when an element is
appended, removed or changed (`SumAppended`, `SumTail`, `SumChanged`).

**`HeaderDecoderProofs`** proves, for every alphabet of fields and lists of any length,

| theorem | property | in words |
|---|---|---|
| `PassIsFaithful` | `PassRemembers` | the three variables of the pass tell the truth about every field read |
| `AcceptsOnlyWellFormed` | `OnlyWellFormed` | only well-formed requests and trailers are let through |

from `FieldsAssumption` (the alphabet is of fields). `PassRemembers` is inductive as it stands;
its steps rest on what one more field adds to a list and to the sets of positions (`FieldAdded`,
`CountAdded`, `PseudoAdded`). The list is a sequence of unbounded length, and
no induction over it is needed, because the induction is over the steps of the pass.

**`ConnectorProofs` and `FramingProofs`** prove, for every set of requests of any
lines, any number of them, and any routes, paths and handlers, that `Spec` of
`NetworkConnector` implies

| theorem | property | in words |
|---|---|---|
| `TypeCorrect` | `TypeOK` | types, and the reader stands where a client can have written |
| `NothingServedTwice` | `NeverServedTwice` | no request reaches a handler twice, or before an earlier one, framed or not |
| `FramedHandledAsSent` | `HandledAsSent` | as long as the client frames its requests, handlers are given these, whole and in order |
| `HandshakeAgreed` | `HandshakeAsAgreed` | an HTTP/2 client is served with the options its last words give; only a first frame that may be refused is refused |
| `PromiseKept` | `ServesAsPromised` | the connection implements `PersistentConnection` for the requests its client frames |

**Assumptions.** `RequestsAssumption` (lines are of the kinds `Socket` lists, at
least one, and at most one of a request is a request line), `RoutesAssumption` and
`RoutableAssumption` (routes and requests are over the same paths and methods);
for the handshake `SettingsAssumption` (the default `max_frame_size` is the
smallest the RFC allows, `http2_conn_options.rs:43`) and `ParametersAssumption`
(a frame has a list of identifiers and unsigned values).

**Argument.** `TypeOK` is not inductive: that a dispatched request has a method
that can be looked up depends on what was parsed before its header was read.
`Parsed` adds that the first word of the preface and the first empty line of the
header are there to be found, and which request a task is at. For
`NeverServedTwice` the invariant is `InOrder`: whatever request line the preface
holds has been passed by the reader, whatever was dispatched is earlier than it,
and `PassedAt` only grows as the reader goes on. For `HandledAsSent` it is
`Aligned`: while the first n + 1 requests are framed, a reader that has made n
calls stands at the beginning of request n + 1, or within it with exactly the
lines read so far in `acc`, or before the body that its header announces. It
rests on what the readers make of a framed request (`HeaderRead`, `LengthTold`),
and these on the existence of a last element of a finite set of numbers
(`LastExists`, by the pigeonhole theorem of the library). For the refinement
`Answering` adds that there is one response per call, except the one under way
and unless a write has failed, and that the connection's protocol is the first
request's. Each step then maps to a step of `PersistentConnection` or a stutter: a
client that writes a framed request asks (`ClientAsks`), a response that is
written answers if it is to a framed request, and whatever closes the connection
ends it (`StepImplements`).

For the handshake the invariant is `Handshaking`, which says for each place the
task may stand what it has written and which options it has. It leads to
`HandshakeAsAgreed` by two lemmas: the parameters `Valid` passes are those that are
not `Forbidden`, and what the recursive function in `Updated` gives for a list of
parameters is what the last of each identifier gives (`UpdatedIs`). Its recursion
is shown to have a solution by writing one down, and any solution to agree with the
last parameter by looking at the last position up to which it does
(`LastExists` again), which takes the place of induction.

## 5. Only model-checked

- Liveness (`EveryTaskEnds`, `RequestsAnswered`, `RequestsServed`,
  `ConnectionEnds`): the prover has no means for
  `ENABLED` and fairness.
- `NoPanic` and `TrailersInOrder` are proved of the contract, for orderly clients,
  and not carried over to `Http2Connection`, whose refinement maps `client` to
  `"any"`: the connection may refuse frames of an orderly client before they are
  forwarded, so that what its tasks are sent need not be in the grammar.
- The properties that are violated (section 6).

## 6. What the code does otherwise than it says

Each is a run that is expected to be violated, with one property that states
a comment of the source.

- **DecodeOrder.** Each stream task sends its own block to the decoder when it
  is scheduled, so blocks of two streams may be decoded in another order than
  they were encoded, against one HPACK table (`http2_stream.rs:256`).
- **Parked.** DATA for which the connection's window is too small goes to
  `pending_frames` and never leaves (`http2_connection.rs:221`).
- **Orphans.** The exits of `serve` through `return` and `?` cancel nothing, and
  the stream tasks wait for ever (`http2_connection.rs:132`, 223, 237, 257).
- **Stuck.** The connection waits for room in a stream's channel, that task for
  room in the connection's (`http2_connection.rs:437`). Also the idle timer
  cannot end it.
- **AfterReset.** A response already in the channel is written after the
  RST_STREAM of its stream (`http2_connection.rs:327`).
- **SmallWindow.** The client's SETTINGS have no effect. The options are stored and
  nothing reads them (`http_connection_context.rs:181`); `window_size` looks into
  `decoded_payload`, which is never filled, and so always returns 65535
  (`frame_settings.rs:110-121`). A client that announces a smaller initial window is sent
  more than it has allowed on a stream.
- **EofSpin.** A client that ends its side before a line names a version keeps
  the loop of the detection turning: `read_until` returns 0 at once, again and
  again (`connection.rs:85`).

## 7. Divergences seen while modelling that have no run

The models contain these behaviours; they need no interleaving to be seen.

- The response's HEADERS carry END_STREAM although DATA follows
  (`http2_stream.rs:303`).
- A frame inside an open header block ends `serve` with `Ok(())` and no GOAWAY,
  although a connection error is meant (`http2_connection.rs:126-133`).
- Only HEADERS raise the identifier that new streams are compared with, and only
  those that create their stream: once PRIORITY has created stream 3, HEADERS open
  it and then stream 1, against the comment at `http2_connection.rs:385-390` (line 393).
- The mask of GOAWAY, `0x7FFF_FFF`, has 27 bits, the field 31
  (`frame_goaway.rs:41`, 59). From identifier 2^27 on GOAWAY names a stream below one that
  was dispatched, which the client may then send again. A GOAWAY that is read is cut
  short likewise (line 76), so that more frames are ignored than it asks for
  (`http2_stream.rs:1034`).
- `add_stream` and the task's first transition both count the stream
  (`http_connection_context.rs:284`, `http2_connection.rs:280`), although line 78 of the
  former says that active streams count: with a limit of 100 the 51st concurrent
  request is refused.
- Windows are limited to 2^32 - 1, not 2^31 - 1 (`http2_stream.rs:413-420`,
  `frame_window_update.rs:120-128`).
- A stray CONTINUATION after the request's headers is taken for trailers
  (`http2_stream.rs:668-687`), and decoded trailers that come after dispatch
  unwrap a header map that is gone (`http2_stream.rs:601-603`): only clients
  outside the grammar reach either.
- Trailers none of whose fields was announced get no reply, and the request is
  never dispatched (`http2_connection.rs:250-262`); several `trailer` fields
  replace one another.
- Trailers are refused like new streams when the count is at its limit
  (`frame_headers.rs:271`).
- `content-length` is refused and `:authority` required
  (`http2_header_decoder.rs:117-127`).
- Padding is compared with `>` where the comment has "or greater"
  (`frame_data.rs:122-130`).
- A stream that depends on itself is a connection error rather than a stream
  error (`frame_headers.rs:226-231`, `frame_priority.rs:137-142`).
- An answer for a stream task that has ended ends the connection (`?` at
  `http2_connection.rs:237` and 257).
- The timer of five seconds also ends connections whose handlers are slow
  (`http2_connection.rs:296`).
- No WINDOW_UPDATE is ever sent, so a client stalls after 65535 octets.
- The other options of the client (header table, push, concurrent streams, frame and
  header list size) have no effect either (`http_connection_context.rs:181`).
- A request that announced trailers and ends without any is never dispatched
  (`http2_stream.rs:444-449`, 582-586).
- A handler that panics in a dispatch task leaves its stream unanswered
  (`http2_connection.rs:181`).
- A PING is accepted as the client's first frame in place of SETTINGS, and other
  frames end the task through `unwrap` or `?`, with no GOAWAY
  (`connection_reader.rs:265-270`). Octets that are not the HTTP/2 preface are
  printed and accepted (`connection_reader.rs:219-222`).
- A request without a header field is not answered: the end of the header is
  looked for in what follows the request line, so the empty line alone does not
  end it and the next request is taken for its header (`connection_reader.rs:92`).
- `transfer-encoding` is ignored, and the chunks are read as the next request
  (`connection_reader.rs:129-155`).
- The version of a connection is that of its first request
  (`connection.rs:85-120`); later ones may differ and are served as the first.
- "HTTP/1 must not loop" says `network_connector.rs:210` (in Korean); with keep-alive it
  does.
- A path registered twice "will be overrided" according to the message of the
  error that refuses it; the first handler stays (`dispatcher.rs:130`).
- Every response is written with its body, also to HEAD (`connection.rs:144`).

## 8. Not modelled, and why

- **Bind and accept errors of the server, a second connection**: connections
  share only the router, which is immutable by then, so one stands for all.
- **SETTINGS after the handshake**: `Http2Connection` has their verdict and their
  acknowledgement; their options are stored and never read.
- **Status lines, header maps, conversions** (`http_status.rs`, `http_object.rs`,
  `http_type.rs`): plain data no decision rests on.
- **`parse_header.rs`, `http_11_headers.rs`, `task.rs`**: an empty trait, an empty
  struct and comments, used by nothing.
- **Bytes**: parsing and serialising frames, HPACK (`fluke_hpack`,
  `fluke_h2_parse`), the text of HTTP/1 lines, and the accounting of octets
  received (`window_size_of_server` is decremented and never read,
  `http_connection_context.rs:318`).

## 9. Plan

Done, in the order of importance: stream task, contract, frame handlers,
connection with reader and dispatch tasks, header decoder; then socket,
detection, HTTP/1, handshake, settings and router, composed as one task and
refined to a persistent connection. Proofs of the stream contract, of the
connection's refinement of it, of GOAWAY, of the order of responses, of flow control
and of the header decoder; of the HTTP/1 reader and its refinement, and of the handshake.

*Modelling, next:* a timed variant of `Http2Connection` in which the idle timer
restarts with each message; `window_size_of_server` and the missing
WINDOW_UPDATE; HTTP/1 bodies in several reads.

*Proofs, next:*

1. That the octets of DATA a client sends are what `window_size_of_server` was
   lowered by, once the model has that field: `SumAppended` and `SumTail` are the
   lemmas it needs.
2. `NoPanic` for `Http2Connection` with an orderly client: a contract whose client
   is orderly up to the first frame the connection refuses.
