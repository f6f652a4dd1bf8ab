# Strega in TLA+

Strega is an HTTP server for FPGAs written in Vitis HLS (C++). It sits between
a hardware TCP/IP stack and an application: it asks the stack for the bytes of
each request, splits them into a request line, headers and a body, and sends
back what the application answers. Everything inside is a dataflow network:
small processes that run for ever, keep a few `static` registers each, and
communicate through bounded FIFOs (`hls::stream`) whose reads and writes block.

There is no error return, no timeout and no log in such a network: when two
processes disagree about how many words a packet has, every later packet is
shifted, and when two of them wait for each other, the server is silent for
ever. Simulation with a handful of packets, which is what the tests under
`src/hw/hls/*.spec.cc` do, meets neither. These modules are about that, and
about the one part of the repository where processes share more than streams:
the nginx module against which Strega is measured, with its pool of
connections, its timeouts and a worker that may die.

Contents: [1 the system](#1-the-system), [2 the modules](#2-the-modules),
[3 how code becomes TLA+](#3-how-code-becomes-tla), [4 what is
checked](#4-what-is-checked), [5 what the runs found](#5-what-the-runs-found),
[6 what is proved](#6-what-is-proved), [7 what is not
modelled](#7-what-is-not-modelled), [8 plan](#8-plan).

## 1 The system

| component | state it keeps | operations | talks to |
|---|---|---|---|
| **request processor** `hw/hls/request_processor.cc` | `state`, `sessionID`, `hasHeaders`, `hasBody` of `state_machine`; `request_issuer` has none | per notification: ask for the bytes, wait for the answer, take the beats | TCP stack (notification, rx_req, rx_rsp, rx_data); headline parser; payload parser; application |
| **headline parser** `headline_parser.cc`, **method parser** `method_parser.cc` | `state`, the line and the flags of one headline; the method table is constant | read, parse the method, (extract the endpoint,) write | `headline_in` (16), `headline_out` (1) |
| **request payload parser** `req_payload_parser.cc` | `state`, one beat | first beat after the headline is headers, the others body | `payload_in` (16); application |
| **response processor** `response_processor.cc` | `state`, the response in work | ask to send, retry or flush, then headers, CR LF, body | application; TCP stack (tx_req, tx_rsp); status code parser; aligner |
| **status code parser** `status_code_parser.cc` | `state`, one code | code to status line | `resp_status_code`, `resp_status_line` (16) |
| **response aligner** `response_aligner.cc` | `state`, `prevWord`, `prevLength` | packs words that are partly filled into full ones | `tx_aligner` (16); TCP stack (tx_data) |
| **listen port** `listen_port.cc` | none | asks the stack to listen | TCP stack (listen_req, listen_rsp) |
| **top level** `http.cc`, **wrappers** `wrapper_*.cc` | none | instantiate the others | |
| **TCP mock** `hw/mock` | `state` of the two directions | plays one endless client; takes the answers; answers listen requests | top level |
| **health check** `examples/health_check` | progress of three processes | answers every request with one fixed response | top level |
| **static pages** `examples/static_pages` | `service_running`, `strm_internal`, memory pointer | answers with a page from memory, stops on DELETE | top level; host memory |
| **RTL control** `hw/rtl/http_control_s_axi.sv` | AXI4-Lite register file, two channel FSMs, interrupt registers | reads and writes of the host | host; kernel |
| **nginx ZeroMQ module** `benchmarks/nginx-zmq/ngx_http_zmq_module` | per nginx process a pool of connections (`m_front`, `m_back`, `m_next`) | one blocking send and receive per HTTP request, each polled until it succeeds, fails or the time is over | nginx; ZeroMQ worker |
| **ZeroMQ workers** `benchmarks/nginx-zmq/*.cc` | none between messages | receive, process, reply | nginx module through a router and a dealer socket |
| **benchmarks, hosts, packaging, tests** | | | |

What is hard in it, and what would have to be true:

* *Interleaving.* Four processes on the request path, three on the response
  path, three of the health check application. Request line, headers and body
  of one request take different ways; only the order of the FIFOs ties them
  together. **A request carries its own session, method and flags; its headers
  and body are its own; none is lost, doubled or moved.** The registers of
  `state_machine` are overwritten by the next notification while earlier
  requests are still on their way.
* *Protocol sequence.* `tcp_rx_data` carries the beats of successive transfers
  with nothing between them but `last`. **At most one transfer is in flight.**
* *Partial failure and retry.* The TCP stack may refuse a response (connection
  closed) or put it off. **A refused response is drained completely, a
  postponed one asked for again, and neither takes a word or the status line
  of another.**
* *Deadlock.* Every write can block (`headline_out` has a depth of one).
  **Every notification with bytes becomes a request; every response is
  settled; what a request announces arrives; the whole server answers, and
  with the mock in the place of the network it comes to rest only when all is
  answered.**
* *Timeouts and failures of the nginx module.* A connection is used for one
  request after the other; a reply may come after its request has timed out, a
  send may fail, the worker may die with a request in hand. **A pooled
  connection is as good as a new one; none is lost or shared; a reply goes to
  the request it answers; every request ends.**
* *Numeric edges.* Flags round lengths down to words, the stack rounds up;
  lengths have 16 bits; the aligner handles an 8-bit length as six bits, and
  offsets of zero as `range(-1, 0)`. **Packets leave the aligner whole, packed,
  in order and ended by `last`.**

PROJECT.json lists these as hazards, each at its line and with the properties
that would catch it.

## 2 The modules

    MethodParser <- RequestData <- RequestProcessor
                                     |      ^   ^
                     (implements)    |      |   +-- StaticPages
                    RequestDelivery <+      +------ HealthCheck
                                                      | (INSTANCE)
                    ResponseData <- ResponseProcessor +
                                     | (implements) ResponseDelivery
                    ResponseAligner - (implements) -> PacketStream
                                     |
                    TcpMock: HealthCheck + ResponseAligner (INSTANCE) + mock

    ZmqHandler
        | (implements) PooledService

    proofs, each extending the module it is about:
    RequestProcessorProofs <- RequestPayloadProofs <- StaticPagesProofs
                                                   <- HealthCheckProofs <- TcpMockProofs
    ResponseProcessorProofs, ResponseAlignerProofs, ZmqHandlerProofs

| module | models | state and actions |
|---|---|---|
| `MethodParser` | `method_parser.cc`: the table, the match of a row, the choice among rows | pure operators |
| `RequestData` | the records of `http_lib.h` and `tcp_utils.h` on the request path | beats of a transfer, flags of a length |
| `RequestProcessor` | `request_processor.cc`, `headline_parser.cc`, `req_payload_parser.cc` | one variable per FIFO; `sm`, `hp`, `pp` are the static registers of the three state machines; one action per `case` |
| `RequestDelivery` | what the application is owed: three streams, each a function of the transfers | abstract specification of `RequestProcessor` |
| `ResponseData`, `ResponseProcessor` | `response_processor.cc`, `status_code_parser.cc` | `sm`, `sc`; one action per `case`; the aligner as reader of `tx_aligner` |
| `ResponseDelivery` | responses settled one by one, the packets of the accepted ones whole and in order | abstract specification of `ResponseProcessor` |
| `ResponseAligner` | `response_aligner.cc`, at the grain of byte lanes | `al` holds `state`, `prevLength`, `prevWord`; one action per `case` |
| `PacketStream` | packets cut into full words | abstract specification of `ResponseAligner` |
| `HealthCheck` | `examples/health_check/kernel.cc` between both paths (`http.cc`) | extends `RequestProcessor`, instantiates `ResponseProcessor`; `consume`, `produce` are the places of the loops |
| `StaticPages` | `examples/static_pages/static_pages.cc` on the request path | `preq`, `pres` are the places in the two nested loops and their locals |
| `TcpMock` | `tcp.mock.cc`, `listen_port.cc`, composed by `connectivity.cfg` with `http_top` and the health check | extends `HealthCheck`, instantiates `ResponseAligner` behind `tx_aligner`; `rx_mock`, `tx_mock` are the two state machines; one action per `case` |
| `ZmqHandler` | `conn_pool.c`, `ngx_http_zmq_module.c`, the loop of `dealer-hw.cc` | `pool` and `conns` are the two structs, a connection named by the request it was made for; `handler` is the loop a process is in; `inbox`, `worker`, `replies` hold the messages; one action per way out of a loop |
| `PooledService` | what the nginx module promises: each request answered once, by one process, over one connection, which is used again only if it served well | abstract specification of `ZmqHandler` |
| `RequestProcessorProofs`, `RequestPayloadProofs` | | theorems about `RequestProcessor`: notifications and requests; headers and bodies |
| `ResponseProcessorProofs`, `ResponseAlignerProofs` | | theorems about the response path and the aligner |
| `HealthCheckProofs`, `StaticPagesProofs` | | theorems about the two applications on the request path |
| `TcpMockProofs` | | theorems about the closed system of the emulation build |
| `ZmqHandlerProofs` | | theorems about `ZmqHandler` |
| `MC*` | | small instances for TLC |

Each definition that stands for code is listed in PROJECT.json under `map` with
its lines. A definition whose comment begins with `Mutant:` is a deliberate
error, written next to the definition it varies; no specification uses it.
Replacing the one by the other must break the property PROJECT.json names.

## 3 How code becomes TLA+

* **One action is one invocation of a process**, that is the `case` its `state`
  selects. A blocking `read` of an empty FIFO and a blocking `write` to a full
  one are guards of the action; `.empty()` tests are guards whose negation is a
  step that changes nothing. A case that reads one FIFO and writes another
  does both at once: in the code the value waits in a register in between,
  which is one more element of buffering and no new order of the streams.
* **Processes are free-running.** The top levels are `ap_ctrl_none` dataflow
  regions: there is no common clock edge at which all processes step, and
  every interleaving is allowed. A stricter schedule only restricts the
  interleavings, so what holds here for every reachable state holds there.
  `consume_request` is a region of its own with two loops; they run side by
  side and both end before either starts again, which also covers running
  them one after the other.
* **Registers without a reset value** start as `Unset`. The type invariants and
  `RegistersWritten` (in the proofs) show that none is read before it is written.
* **Data is what the properties tell apart.** A beat of the request path is
  (transfer, position, text of the line for the method parser); a word of the
  response path is (response, part, position, bytes kept). In the aligner a
  byte is (packet, position) and sits in a lane. So "no byte is lost or moved"
  is a statement about these labels.
* **Undefined results** are choices: `range(-1, 0)` in `alignWords` may disturb
  the lowest lane or not; the `last` that `shiftDown` never writes is either
  value. `damaged` in `ResponseAligner` records which packets met one of the
  two steps that lose bytes (section 5), so that everything else can still be
  required of all the others; `PacketStream` says how far damage may reach: the
  packet itself, only if it is longer than a word, never the next one.
* **Environment.** The TCP stack is external: it sends any notification,
  answers each read request with `ceil(length / 64)` beats, `last` on the final
  one, and answers each request to send with any of the four values of the
  two-bit `error`. The application of `RequestProcessor` takes from its
  three FIFOs in any order; that of `ResponseProcessor` writes three streams,
  each at its own pace. The word of data that reaches the aligner has at least
  one byte and fills its lanes from the lowest one.
* **Time** in `ZmqHandler` is one flag: `late` says that `clock() - start` has
  reached the timeout of the request, which both loops measure from the same
  `start`. A loop looks at the socket before it looks at the clock, so a reply
  that is there is taken, late or not. libzmq is external: a REQ socket that
  may send may also fail to, and one that awaits a reply may not send. A
  closed socket takes what it had received with it, and perhaps what it had
  not yet sent.
* **History variables** (`notified`, `served`, `app`, `settled`, `aligned`,
  `sent`, `taken_by_tx`, `received`) record what crossed the border; no guard of
  the code's processes reads them. `answer` of `ZmqHandler` does so too, and
  tells which requests have yet to come.

## 4 What is checked

| run | instance | distinct states | shows |
|---|---|---|---|
| `request` | 2 sessions, 3 notifications of 0, 2 or 7 bytes (closed; headline only; four beats), all depths 1 | 402 749 | `TypeOK`; `OneTransferAtATime`; `ServedAsNotified`; `RequestsMatchServed` and its strengthening `RequestPipeline`; `RefinesDelivery`; `EveryNotificationAnswered`, `PromisedPayloadArrives` |
| `aligner` | words of 4 lanes, up to 4 words cut into packets in every way, depths 1 | 34 662 | `TypeOK`; `PacketsSeparate`; `BufferFollowsStream`; `RefinesPacketStream`; `PacketsForwarded` |
| `aligner_ends` (violation) | up to 3 words | | `EndsByLastOrLength` fails |
| `response` | 2 kinds of response (one word each part; two words each part), lengths below 16, 3 responses, depths 2 | 53 524 | `TypeOK`; `StatusLineOfCurrent`; `PartsOfCurrent`; `RefinesDelivery`; `EveryResponseSettled` |
| `response_tested` (violation) | the same responses, one of them, and lengths of 8 values | | `AnnouncedAsTested` fails |
| `health` | both paths and the application, 2 sessions, 2 notifications of 0 or 6 bytes, depths 1 | 292 858 | `ServerTypeOK`; `AnswersGoToTheirSessions`; `BytesAsAnnounced`; `EveryRequestAnswered`, and no deadlock |
| `health_stall` (violation) | requests without body, 6 notifications | | `KeepsAlive` fails |
| `pages` | 2 sessions, 2 requests, POST or DELETE, two beats of body; pages of 3 + 3 bytes | 202 115 | `PagesTypeOK`; `AnswersUpToDelete`; `PagesStayInStep`; `DrainsItsOwnRequest`; `StopsOnDelete` |
| `pages_offset` (violation) | headers of 3 bytes in words of 2 | | `BodyFromItsOffset` fails |
| `mock` | the emulation build: both paths, aligner, listen port, application and mock; 2 rounds, words of 5 bytes, a response of 5, 1, 2 and 1 bytes where the code has 64, 29, 2 and 16, depths 1 | 343 584 | `MockTypeOK`; `AnswerArrivesWhole`; `NeverStuck`; `ListenKeepsTurning` |
| `zmq` | 2 processes, 3 requests with no body or one the worker's buffer does not hold, REQ or PUSH | 65 622 | `TypeOK`; `PooledReady`; `HeldOrPooled`; `ReplyIsOwn`; `RefinesService`; `EveryRequestEnds` |
| `zmq_pool` (violation) | 1 process, 3 requests | | `NoProcessDies` fails |

**Bounds, and why they are enough.** Words have 2 bytes (4 lanes in the
aligner, 5 bytes in `mock`): every relation between a length and a word the code tests, less,
equal, a full word more, a partly filled last word, has an instance, and four
lanes have an offset that is half a word and one that is not. FIFOs are one or
two elements deep: a shallow FIFO blocks in more states than a deep one, and
the theorems of section 6 hold for every depth. Two notifications are the
fewest in which a register can be overwritten under an earlier request; three
fill every stage behind the first. `LengthValues`, the number of values of a
length or size, is 8 or 16, so that all lengths of a run fit, but for
`response_tested`, where it is 8 and 3 + 3 + 2 wraps as 64 KB do in 16 bits.
The lengths of `request` have no payload
beat that the flags leave unannounced (in words of 2 bytes, 3 and 5 would): a
fourth length is too much for a run with three notifications. `mock` has such
beats, and the theorems about the request path are about all lengths. No run
uses symmetry. `MaxNotifications`, `MaxResponses` and `MaxWords` are
guards of the environment's actions and of nothing else. In `zmq`, two
requests are the fewest in which one can meet a connection the other used, the
third can then find what the first two left in the pool; two processes share
the worker. Each request comes once; since an answered request changes nothing
any more but the pool, more requests only repeat what the pool and the worker
can hold.

**Deadlock** is checked everywhere but in `pages`, `pages_offset` and
`health_stall`: static pages stops on purpose, and the server may then block
with requests nobody takes; `health_stall` is about a server that does stop.
In the other runs the only state with nothing to do is `Poll` (`Rest` in
`HealthCheck`), in which every process polls an empty FIFO, and in `zmq` the
end (`Done`), when every request has been answered. `mock` has no such action:
listen_port never rests, so deadlock says nothing of the path of a request
there. `NeverStuck` does: it spells out what each process waits for (`CanGoOn`:
the FIFO it reads is not empty, the one it writes not full) and says that one of
them has it as long as a round is not answered. Each round of the mock takes a bounded number of
steps, so where the path can always go on until all is answered, it is.

**Fairness.** A process of an `ap_ctrl_none` region is a circuit that is
invoked again as soon as it ends, so each is weakly fair; the same is asked of
what the TCP stack and the application owe: answer, deliver, take.
`Fairness` of `RequestProcessor` and `ServerFairness` of `HealthCheck` ask for
less, weak fairness of all of that together (`Work`, `ServerWork`): somebody
who can go on does. It is enough there, because every step of `Work` brings a
transfer nearer to its end and only notifications, which are not fair
(clients may fall silent) and end in the instance, add new ones. `MockFairness`
asks it of the ring of listen_port only.
Strong fairness of `TcpSettle`: the stack may put off a response any number of
times but not for ever. The code has no bound on retries, so without this
assumption one session that is never writable holds back all others; it is
listed as a hazard. In `ZmqHandler` each process of nginx runs (`Proceed`) and
its clock does (`Expire`); the worker owes nothing, and the failures of libzmq
are not fair, so nothing but the timeout can be what ends a loop. Without
`zmq_timeout` in the configuration (-1, stored in an unsigned number) the
clock never matters: `TimeoutFinite` names that assumption.

The refinements (`RefinesDelivery` twice, `RefinesPacketStream`,
`RefinesService`) are the widest properties: `RequestDelivery`, for instance,
allows exactly the three streams the application is owed, in any relative pace
except that a body does not run ahead of its headers.

## 5 What the runs found

1. **Residue without `last`** (`aligner_ends`). `response_aligner.cc:399` stores
   `last` in `prevWord`, and `:408` overwrites `prevWord` by the result of
   `shiftDown`, whose `last` is never written. A packet whose final word
   overflows ends with whatever is there; the readers in
   `response_processor.spec.cc:121` and `tcp.mock.cc:157` wait for `last`.
2. **Residue from the wrong lanes** (`aligner_ends`). `shiftDown(prevLength,
   ..)` keeps the lanes from `prevLength` on, where the first unsent lane is
   `BUFFER - prevLength`: bytes are doubled or lost unless the buffer is half
   full. The run's property asks for one of the two ways to find the end of a
   packet, `last` or the announced length; in its counterexample, a packet of one
   byte and a full last word, both are gone: five bytes leave as seven and no word has
   `last`. The health check response (64, 29, 2 and 16 bytes) never meets either;
   a page of `static_pages`, whose words are all full, meets both.
3. **A request without body stalls the health check** (`health_stall`):
   `consume_request` waits for a body of every request.
4. **The body of a static page is read from the wrong word** (`pages_offset`)
   unless the headers fill their last word.
5. **A pointer nobody set** (`zmq_pool`). `get_conn` takes the front of the pool
   and makes its `m_next` the new front (`conn_pool.c:63`); `init_conn`
   allocates with `malloc` and leaves `m_next` unset, and only the release of
   another connection sets it. With one request at a time, which is how a
   blocking handler works, nothing ever does: the front is an arbitrary
   pointer while the connection is out, and stays one if the request fails or
   times out and the connection is freed instead of released.
6. **The tests expect another length** (`response_tested`).
   `response_processor.spec.cc:128` and `http.spec.cc:298` want the announced length to
   be the size of headers and body. `response_processor.cc:57` adds the two bytes of the
   CR LF between them, which is sent, so that both tests fail on every response. The code agrees
   with itself here, and `ResponseDelivery` counts the CR LF as the code does. The
   sum is also cut to 16 bits, so that a response of 64 KB or more is announced modulo 65536
   and written in full: for those even the code does not agree with itself, and
   `RefinesDelivery` holds, and is proved, for responses that fit only.

Of the same kind as the last and without a run, since no text of the repository
says otherwise: `static_pages.cc:54` and `:55` put sizes of files, 32 bits wide
(`host.cc:110`), in the `ap_uint<16>` fields of `http_response_spt`
(`http_lib.h:129`). The size of a file of 64 KB or more is announced modulo 65536,
and the file is written in full. `SizeField` of `StaticPages` does what the code does.

Also seen while modelling: `static_pages.cc:77` and `:86` keep every byte of every word
(marked TODO) while fewer are announced; the status line is made and thrown
away (`response_processor.cc:90` is commented out); the response to a zero
`prevLength` in `PULL_N` relies on `range(-1, 0)`; `static_pages.h` declares a
parameter more than `static_pages.cc` defines; the comment of
`request_processor.cc:104` says `!raw.last` "equals to (hasHeaders ||
hasBody)", where lengths of 65 to 127 and of 129 to 191 bytes have a beat the
flags do not announce (it is delivered in its place all the same); the mock
announces 50 bytes and delivers three words (`tcp.mock.cc:61`, `:87` to `:121`),
so that its requests always bring what the health check drains and never show
the stall of point 3, and it copies 18 bytes of a text of 16; `lenToKeep`,
which nothing calls, keeps 15 lanes for a length of 36; `kernel.xml` declares
the kernel `ap_ctrl_hs` where the RTL drives no `ap_done`; the
nginx module sends zeros in the place of a body that nginx has spooled to a file
(`c1->buf->pos`), and reports the error of `zmq_close` instead of that of the
send (`ngx_http_zmq_module.c:232`); `MAX_PAYLOAD_SIZE 64 // 100 MiB` in
`dealer-hw.cc`.

## 6 What is proved

Eight modules hold the theorems. Each is about every value of the constants,
where a run is about one small instance, and has the same shape: an inductive
invariant in named parts, a lemma for every action, and the theorem from both.
The invariants were checked by TLC on the instance of the run before they were
proved. The assumptions are the named ones of the modules and no others:

| assumption | says |
|---|---|
| `WordBytesAssumption`, `LengthsAssumption`, `LinesAssumption` | a word has bytes; lengths are naturals; a request line has `METHOD_DEPTH` bytes |
| `DepthAssumption`, `InnerAssumption`, `ResponseAssumption`, `PagesAssumption` | FIFOs hold at least one element; lengths and sizes have values; responses are made of the sets given; files are not empty |
| `ResponseDataAssumption` | no part of a response is empty |
| `BoundAssumption` | the bound on the notifications of a behaviour is a natural |
| `SizesAssumption` | the health check's response has two words of headers and one of body, as in its code |
| `AlignerAssumption` | a word has two lanes at least |
| `MockAssumption` | the mock announces less than a word, as its 50 bytes are, and its headline is a request line |
| `ZmqAssumption` | sizes are naturals; `NULL` and `WILD` are what they are for |

Five theorems have a hypothesis of their own, named below: four are about sizes
(those of the health check meet them, and point 6 of section 5 says what
happens where a length does not fit), one is what an application takes for granted.

### The request path

| theorem | statement |
|---|---|
| `TypeCorrect` | `Spec => []TypeOK`: values have their types, no FIFO exceeds its depth |
| `OneTransfer` | `Spec => []OneTransferAtATime` |
| `TransfersKeepTheirStage` | `Spec => []RequestPipeline` |
| `RequestsInOrder` | `Spec => []RequestsMatchServed` |
| `AskedAsNotified` | `Spec => []ServedAsNotified` |
| `ImplementsRequestDelivery` | `Spec => RefinesDelivery`: the request path implements `RequestDelivery` |

`TypeOK` is not inductive alone: it allows `Unset` in a register that is about
to be written to a FIFO. `TypeInv` adds `RegistersWritten` (in the states that
read a register it holds a value) and `TransferKnown` (there is a transfer
when beats are due).

`RequestsMatchServed` is about the end of the pipeline and says nothing of
what is still in it. The inductive invariant `IInv` is `TypeInv`,
`OneTransferAtATime` and `RequestPipeline`: **every accepted transfer is in
exactly one stage** (taken, `http_request`, `headline_out`, `headline_parser`,
`headline_in`, or awaited by `state_machine`), the stages hold consecutive
runs of transfers, and what a stage holds is the session, the flags and the
line or method of its own transfer. The step lemmas (`OrderSmIdle` ...
`OrderAppRequest`) are one per action, with `StageCounts` and `StagesFrame` for
the stages an action does not touch and `BeatTaken`, `NextBeat` for the
arithmetic of beats.

`ServedAsNotified` says which notifications have been asked for. Written with a
filter of the sequence of notifications it would need an induction over that
sequence; it is stated by rank instead, `AnnouncedUpTo(notified, i)` being the
number of notifications with bytes among the first `i`, a cardinality. The
proof carries the number of notifications taken so far (`Noticed(n)`) as the
witness of the existential the property is.

The payload side adds `PayloadInv` (`PInv` is both). The beats drawn from
`tcp_rx_data` but not yet offered are a `Chain`: each is the first payload beat
after the one before it, where transfers that have only a headline are skipped,
from the last beat offered to the last one drawn. One conjunct for each state
of `req_payload_parser` says where the chain begins (`AwaitsHeaders`,
`HoldsHeaders`, `AwaitsBody`, `HoldsBody`). With that a write to
`http_request_headers` or `http_request_body` is a step of `RequestDelivery`,
and every other action leaves the three streams as they are. `RequestDelivery`
has no recursive operator: its step names the next beat by its place, as the
code's order does.

### The response path and the aligner

| module | theorem | statement |
|---|---|---|
| `ResponseProcessorProofs` | `TypeCorrect` | `Spec => []TypeOK` |
| | `StatusLineKept` | `Spec => []StatusLineOfCurrent` |
| | `PartsKept` | `Spec => []PartsOfCurrent` |
| | `SettledInOrder` | `Spec => [](OneRequestToSend /\ SettledAsPlanned)` |
| | `ImplementsDelivery` | if `LengthsFit`, `Spec => RefinesDelivery`: implements `ResponseDelivery` |
| `ResponseAlignerProofs` | `TypeCorrect` | `Spec => []TypeOK` |
| | `PacketsKeptApart` | `Spec => []PacketsSeparate` |
| | `BufferFollows` | `Spec => []BufferFollowsStream` |
| | `ImplementsPacketStream` | `Spec => RefinesPacketStream` |

`state_machine` reads words, not responses: that the next word of headers is one
of the response in work depends on how far every earlier one was sent or
flushed. The invariant ties the two together. `Runs` says that a FIFO of words
holds consecutive words of its part up to the place where the application
writes next, `HeadersNext` and `BodyNext` at which word the head must be in
each state; `OneRequestToSend` says that a retry settles nothing and a refusal
or an acceptance settles exactly the response in work. `ResponseDelivery` settles
a response with the bytes of its packet, not with what is left of their number
in 16 bits, so the refinement is for responses whose length fits (`LengthsFit`,
which `PlannedFit` carries to the ones the application plans).

The aligner's invariant is about bytes. `Gone(p)` counts those of packet `p`
that have left; in `PULL_N`, `Gone` and `prevLength` together are the position
of the next byte to be read, and the first `prevLength` lanes of `prevWord` are
the bytes in between (`PullInv`); before the first word and in `RESIDUE` there
is a statement of the same kind (`RestInv`, `ResidueInv`). `Settled` says that
every packet before the one in work has been sent whole, or is damaged, and
`DamageInv` that **damage never reaches a packet that has not begun to be
read**: the two undefined steps of section 5 may spoil the packet they occur in,
and the state they leave behind is as good as after a packet that was sent
properly. This is what makes the refinement hold, where `PacketStream` may give
up a packet, only one that is longer than a word, and never the next.

### The applications

| module | theorem | statement |
|---|---|---|
| `HealthCheckProofs` | `ServerTypeCorrect` | `ServerSpec => []ServerTypeOK` |
| | `ServerRequestsInOrder` | `ServerSpec => [](RequestPipeline /\ RequestsMatchServed)` |
| | `AnswersGoHome` | `ServerSpec => []AnswersGoToTheirSessions` |
| | `AnswersCarryTheirBytes` | if `headers_size + body_size + 2 < LengthValues`, `ServerSpec => []BytesAsAnnounced` |
| | `ServerImplementsDelivery` | `ServerSpec => Spec /\ RefinesDelivery`, with the `Spec` of `RequestProcessor` |
| `StaticPagesProofs` | `PagesTypeCorrect` | `PagesSpec => []PagesTypeOK` |
| | `DeleteIsTheLast` | `PagesSpec => []AnswersUpToDelete` |
| | `StreamsStayInStep` | `PagesSpec => []PagesStayInStep` |
| | `EachRequestDrained` | if `EveryRequestHasBody`, `PagesSpec => []DrainsItsOwnRequest` |
| | `PagesImplementDelivery` | `PagesSpec => Spec /\ RefinesDelivery` |

`HealthCheck` is the composed server. Its invariant `ServerInv` begins with the
`IInv` of the request path, whose step lemmas are used again: the composition
gives the request path another taker, the application, and nothing else.
`AnswerInv` continues the pipeline behind the application: the answers wait in
`http_response` in the order of the requests taken, `answering` is the one
`state_machine` works on, each carries the session of its own transfer, and at
most one is asked for. `ServerTypeOK` spans both paths, and the types of the
response path are an invariant of their own, `TxPathOK`, in layers: the words of
the application, the requests to send and their answers, the status lines, the
aligner, and that a register is read only after it was written. One lemma for
each process of the path says which layers it touches; `TxPathFrame` does the
rest. Hence **the i-th answer the TCP stack is asked to send
goes to the session of the i-th request**, whatever waits, is refused or is
retried on the way.

`BytesAsAnnounced` relates two processes that never speak to each other,
`process_notify`, which announces, and `produce_response`, which writes words
for ever without being told of a request. `WordsInv` says that the headers in
their FIFO come in pairs, and that what has gone to the aligner is four words
for each accepted answer, then as many of the one in work as its state says.
The hypothesis keeps the announced length from wrapping: 111 < 65536 in the
code, 6 < 8 in the run.

`PagesInv` also rests on the `IInv` of the request path. For `PagesStayInStep`
it holds, for any size of the two files, that the words written are
`WordCount` of each part times the responses answered and some `k` of the part
in work, `bytes_sent` being `k` words (`PagesWritten`). `DrainsItsOwnRequest`
needs the payload side too (`StreamsInv`: the j-th beat of headers is that of
transfer j, and bodies follow each other). Its hypothesis is what the
application takes for granted, that every request has headers and a body: where
one has none, `process_request` waits for it and takes the one of the next
request. In the run it is true: 8 bytes in words of 2 are four beats.

Both applications are environments the request path was proved for: every step
of theirs is a step of `RequestProcessor` or none (`ServerStepOfRequestPath`,
`PagesStepOfRequestPath`). So **each theorem about the request path is one about
the servers**, the refinement of `RequestDelivery` among them.

### The emulation build

| theorem | statement |
|---|---|
| `MockTypeCorrect` | `MockSpec => []MockTypeOK` |
| `MockAnswersWhole` | if `SizesFit`, `MockSpec => []AnswerArrivesWhole` |
| `MockNeverStuck` | if `SizesFit`, `MockSpec => []NeverStuck` |

`TcpMock` is everything at once, from the notification of `rx_mock` to the last
byte `tx_mock` takes, and the only module in which the response aligner reads
what an application has written. `SizesFit` says that an answer fits the two
words the aligner makes of its four (111 bytes of 128 in the code, 9 of 10 in
the run) and that the announced length is not cut (111 < 65536, 9 < 16). Without
it points 1 and 2 of section 5 are met, and the theorems are false.

The invariant of the request path does not carry over: the mock announces 50
bytes, which are one word, and delivers three. `MockInv` keeps its types only,
adds those of the other processes (of the response path `TxPathOK` again, with the
aligner and the mock as its environment), and that a word has its place in its part.
`RoundInv` counts what is under way, process by process along the circle:

* `Exchange`: `rx_mock` and `state_machine` are at one transfer at a time. Of its
  three words, `Delivered` have been written and `Drawn` read, and `last` is on
  the third; notifications, read requests and their answers add up.
* `Headlines`: the headlines between `state_machine` and the application are as
  many as the transfers that are served and not yet requests of the application.
* `Payload`: of the two words of payload of each transfer, how many
  `req_payload_parser` has read and how many are offered to the application, in
  each of its states; the parity of the count is what tells headers from body.
* `Consumption`: `consume_request` takes the headers and the body of a request in
  either order and never those of two.
* `SizesMade`, `Asked`, `StatusUnderWay`: the answers that are made have the sizes
  of the application; one answer is asked for at a time, of `tx_mock` and with one
  status line under way; none is refused, so nothing is ever flushed.
* `WordsWritten`: the words in the two streams of `produce_response` are those of
  the answers from the one in work on, in order.
* `AnswerUnderWay`: while `tx_mock` consumes, `Sent` words of the answer have been
  written to the aligner, `Read` read by it, `Taken` of its two taken by `tx_mock`.
  What each word on the way holds follows (`Pieces`, `Packs`), and so do the
  state of the aligner and the bytes in its buffer (`Aligning`); before and after,
  aligner and streams are empty (`Quiet`).

`RoundStep` has one lemma for each process and each part it touches. The steps of
the aligner are taken from `ResponseAligner` itself, for the four words of an
answer: the first is full and leaves as it is (`FirstAnswer`), the second leaves `headers_size - WordBytes` bytes in the buffer, CR LF and body
are shifted behind them (`NextAnswer`, `JoinedWord`).

`NeverStuck` follows from the counts, without another invariant. Where no process
can go on, the payload is drained, since `consume_request` takes whichever part is
offered (`StuckPayload`); the aligner is empty, since `tx_mock` takes what it sends
(`StuckAligner`); so the response path waits for an answer and for nothing else
(`StuckAnswers`), the headlines are all taken (`StuckHeadlines`), and `rx_mock` is
through with every transfer (`StuckExchange`). Then all is answered. It is a
statement about every depth of every FIFO, `headline_out`, with its one element,
included.

### The nginx module

| theorem | statement |
|---|---|
| `TypeCorrect` | `Spec => []TypeOK` |
| `PooledConnectionsReady` | `Spec => []PooledReady` |
| `NoConnectionLost` | `Spec => []HeldOrPooled` |
| `RepliesAreOwn` | `Spec => []ReplyIsOwn` |
| `ImplementsService` | `Spec => RefinesService`: the handler with its pool implements `PooledService` |

They hold for every set of processes and of requests, all content lengths, every
buffer size, all three kinds of socket, and with or without a timeout. None of
the properties is inductive: that a reply is
the right one depends on what was in flight when the connection went to the
pool, and that nothing was depends on which process had it. The inductive
invariant `IInv` puts the four together: `HandlerInv` (a process in a loop has
a request and a connection of its own, and its pool is empty, since it handles
one request at a time), `PoolInv` (so a pool holds one connection at most,
open and ready), `OwnerInv` (an allocated connection is in one of the two, and
its `m_next` is still what `malloc` left), `MessageInv` (a message is in one
place, and if its connection is still allocated, the owner waits for the reply
to exactly this message). `OwnerInv` is also why the finding of section 5 is
more than an accident: the branch of `rel_conn` that sets `m_next` is never
taken. The proof has a lemma per action, and two for the two ways a loop can
end (`PooledAtEnd`, `FreedAtEnd`); for the service, `ServiceStep` maps every
action to a step of `PooledService` or to none.

### Only model-checked

* What is about liveness: `EveryNotificationAnswered`, `PromisedPayloadArrives`,
  `PacketsForwarded`, `EveryResponseSettled`, `EveryRequestAnswered`,
  `StopsOnDelete`, `ListenKeepsTurning`, `EveryRequestEnds`. Fairness and `ENABLED`
  are out of the prover's reach.
* The five violations of section 4, which are counterexamples.
* Which row of the table `MethodParser` chooses for a line: the proofs use that it
  is a method, and that request line and request are given the same one.

## 7 What is not modelled

* `http_control_s_axi.sv` is the Vitis template of a register file. In `http.sv`
  its `ap_start`, `ap_done`, `ap_idle` and `ap_ready` lead nowhere, and no host
  program starts the kernel or reads its registers: there is no behaviour of
  this system in which its handshake matters. `http.sv` and `http_core.sv` are
  wiring.
* `wrapper_easynet.cc` and `wrapper_coyote.cc` copy words between the streams of
  a network shell and those of `http_top`; the types are declared in headers
  that are not in the repository, and the second is unfinished.
* The host programs load a bitstream and set arguments; of `static_pages/host.cc`
  the layout of the memory is modelled (`mem_response`). The PCIe and hybrid
  benchmarks measure one transfer after the other.
* Of the nginx module: the assembly of the message from the chain of buffers,
  the configuration, `free_pool`, which nothing calls, and the header and body
  of the answer. Of the ZeroMQ workers: those without the buffer, which are the
  same loop, and the load generators. `zeromq.cc` uses names it does not
  declare.
* The text of status lines and headers; IP addresses, ports and `closed` of a
  notification, which no process of the server reads; `lenToKeep`, which
  nothing calls; the reset of registers while the server runs.
* Keep masks with holes or without any lane in use: the code counts them as
  empty; no source of words makes them.

## 8 Plan

Done in this order, most central first: request path, aligner, response path,
compositions with the two applications, the emulation build as a closed system,
the nginx module with its pool and its worker; then the proofs, of the request
side, the nginx module and its refinement, the response path and its
refinement, the payload side and its refinement, the aligner and its
refinement, the composed server, static pages, and the emulation build.

Every safety invariant and every refinement that a run checks is now a theorem. What could come next:

1. The response path inside the composed server as an implementation of
   `ResponseDelivery`. What it promises of the bytes is proved (`BytesAsAnnounced`);
   the refinement needs the places of `produce_response` in the words of
   `ResponseDelivery`.
2. `static_pages` in front of the response path and the aligner, once
   `static_pages.cc:86` keeps the bytes it announces: a page whose words are full
   meets points 1 and 2 of section 5, and the corrected aligner would have to be
   proved for it.
