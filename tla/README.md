# Verification of skp-go

TLA+ models of the concurrent core of this repository, checked with TLC on small
instances, and theorems about nine of them proved with TLAPS. Paths are relative
to `src/`; `skynet_go/` and `skpPublic/` are abbreviated where they are obvious.

1. [The system](#1-the-system)
2. [Modules](#2-modules)
3. [Runs](#3-runs)
4. [Fairness](#4-fairness)
5. [Proofs](#5-proofs)
6. [Where code and documents disagree](#6-where-code-and-documents-disagree)
7. [What is not modelled](#7-what-is-not-modelled)
8. [Plan](#8-plan)

## 1. The system

The repository holds two programs. **skynet_go** is an actor runtime in Go with a
message queue (mq) built on it. **skpProxy, skpRoute and skpMonitor** are an older
set of servers that forward packets between TCP connections by server ID; they
share `skpPublic/`.

| Component | Source | State | Operations | Hard behaviour |
|---|---|---|---|---|
| rpc runtime | `rpc/server.go` | `state`, `waitMsg`, `SendNumber`, `recvNumber`, `goroutineNumber`, `Cache`, context | `NewServer`, `Start`, `Stop`, `StopSelf`, `Addoroutine`, `run`, `isStopping` | senders take no lock and do not look at the state; two counters are compared with two loads; a restart may keep or replace the channel |
| rpc calls | `rpc/rpcD`, `rpcE`, `rpcU` | pooled `Msg` (type, method, error, reply, `Pending`) | `Send`, `SendReq`, `Call`, `CallReq`, `RPC_DoMsg` | the same object is reused by other requests; the side that gives it back differs; handlers panic |
| timers, Wait | `rpc/server.go`, `rpc/wait.go` | a goroutine per timer | `RunOnce`, `Ticker`, `Timer`, `Wait` | a late answer after a timeout |
| mq server registry | `mq/server/server.go`, `client.go`, `mq/client.go` | maps by instance, harbor and topic; flags, connection and mutex of each client | `AddClient`, `OnMqRegister`, `OnMqDel`, `Error`, `Close`, `CloseSelf`, `GetClient` | two kinds of locks in both orders; flags written without a lock; `Close` waits for goroutines that want its mutex |
| mq routing | `mq/server/hConsumer.go`, `qProducer.go` | a queue per topic and tag with its messages, its current client | `OnMqMsg`, `GetSQProducer`, `GetConn`, `OnWriteMqMsg` | a client is found, and fails or stops before it is written to; two readers make the queue of a topic at once; readers wait for a full queue |
| mq connection and framing | `mq/mqConn.go`, `vector.go` | read buffer, connection | `SetConn`, `ReadMqMsg`, `WriteMqMsg` | several writers to one connection; reads that end anywhere; a connection that breaks within a frame |
| mq local connection | `mq/conn.go` | a pair of channels of byte slices | `Read`, `Write`, `Close` | closing does not wake the closer's own reader; writers wait when the channel is full; a slice may be longer than the reader's buffer |
| mq client library | `mq/client/*.go` | `pendingMap`, flags, connection, mutex | `Start`, `Call`, `CallNoReply`, `Close`, reader and writer | replies out of order, a lost connection during `Close`, concurrent `Close`s |
| skp sockets, manager, service | `skpPublic/skpSocket/*.go` | `ReadChan`, `WriteChan`, `CloseChan`, `IsCloseChan` with its mutex; lists of sockets per server ID | `SkpRead`, `SkpRun`, `SkpWriteChan`, `SkpCloseChan`, `SkpServerConn`, `SkpAddTcpSocket`, `SkpDeleteTcpSocket`, `SkpListerClose`, `SkpCloseAllTcpSocket` | a push with a mutex held; channels that are closed while others hold the socket; dialling while shutting down |
| skp protocol | `skpPublic/skpProtocol/skpProtocol.go`, `skpTcpSocket.go` | `Datas`, packets in `ReadChan` and `WriteChan` | `SkpAppendData`, `SkpCheckHead`, `SkpGetData`, `SkpSkipData`, `SkpSetAddrSocket` | packets travel as slices of the array that the reader goes on filling and the run loop writes into |
| logger, errorCode | `logger/logger.go`, `errorCode/errorCode.go` | one logger: `mu`, `buf`, `flag`, `prefix`, `level`, `out` | `Output`, `FormatHeader`, setters, `NewErrCode` | `Output` releases its mutex halfway; `NewErrCode` fills the same buffer without it |
| skp objects, utilities; encodes, defaultConf, utility | see `PROJECT.json` | little or none | encoding, printing | none that depends on the order of steps |

How they interact:

- Every reader (`SHConsumer`, `CHConsumer`), writer (`SHProducer`, `CHProducer`) and
  queue (`SQProducer`) of the mq is an **rpc server**: others send it messages with
  `Send`, and `Close` stops it with `Stop(true)` or `Stop(false)`.
- In the mq server, each accepted connection has a reader and a writer. A register
  message makes the reader enter the client in the maps. A queue finds the client of its topic
  there and writes **directly** to the client's connection, next to the client's
  own writer. A failure found by any of the three calls `Error`, which leaves the
  maps and starts a goroutine that runs `Close`.
- In the mq client, a `Call` puts an entry in `pendingMap`, hands the message to
  the writer and waits; the reader finds the entry by the number in the reply.
  `Close` itself makes two Calls to the broker, waits for the second one with
  `Timer`, then stops the writer and the reader.
- A skp socket has a reading goroutine and a run loop. The run loop of one socket
  writes to the `WriteChan` of another, found by server ID in the manager's map or
  dialled on the spot. What it writes is a slice of the memory of its own reader.
- Every goroutine of skynet_go logs to one logger, and every error that is made
  (`NewErrCode`) formats its text in that logger's buffer.

What makes each component correct:

- *rpc runtime*: `Stop(true)` returns, and only when what was sent before it has been
  handled; no goroutine outlives its `Start`; the counters never cross.
- *rpc calls*: a `Msg` serves one request at a time; each caller gets the answer to its own
  request; a callback runs once; every `Call` returns, also when the handler panics.
- *registry*: one client at the service of a topic and tag; a working client is always found, a
  closed one never; failure of a client is final; lookups and `Close` end.
- *routing*: the requests of one sender for one topic are written in order, once, none
  lost; a message is delivered while there is a subscriber that works.
- *mq client*: a reply goes to its own `Call`; each `Call` and `Close` ends or has a
  reason not to, and these reasons are known; the broker is told of the end in the right order.
- *framing*: messages arrive whole, in order, once.
- *skp*: no send on a closed channel; a closed socket ends and leaves the lists; the
  service gets to its end; packets are passed on whole, in order, with the right address.
- *logger*: a line is one header and its message; no line shows a file that was not looked up.

`PROJECT.json` lists the components with their status, and 40 hazards, each at the
line where it bites with the properties that would show it going wrong. Where the code
does go wrong, the hazard has a note instead: what goes wrong is an exception of
some property, which names it.

## 2. Modules

| Module | Models | How |
|---|---|---|
| `RpcServer` | `rpc/server.go` | Every load and store that another goroutine can see is a step of its own: a send is `Announce` (count), `ReadCache` (evaluate the channel), `Push`; `isStopping` reads the state, `recvNumber` and `SendNumber` in separate steps; `Stop` is `StopMark`, `StopCancel`, `StopReturn`. `ctl` is the program counter of whoever holds the mutex. |
| `RpcMailbox` | what `rpc.Server` promises | Accept, Perform, BeginStop, EndStop, Restart; no counters, channels or goroutines. `RpcServer` implements it (`ImplementsMailbox`). |
| `RpcCall` | `rpcD`, `rpcE`, `rpcU` | One `Msg` pool, one running server, requests of the kinds `Send`, `SendReq`, `Call`, `CallReq`; `flavour` is the package, `Handle(w, end)` runs the handler with a chosen outcome. |
| `MqRegistry` | `mq/server`: maps, life of a client, lookup by queues | `pc` has one entry for each reader, writer, closer and queue; `clientLock` and `topicLock` are the mutexes; `topics` are those that have a `TopicClients`, which `LoadTopic` and `EnterTopic` look up and make; the remote side is `remote`. |
| `MqClient` | `mq/client` | Jobs are the Calls of the application and the three requests of the protocol; `closer` says where each goroutine is in `Close`; `out` and `in` are the connection. Uses the rpc servers of the reader and the writer by what `RpcMailbox` promises. |
| `MqSession` | what the client library promises of its requests to the broker | Issue, Answer, Return, HangUp; no numbers, caches, goroutines or locks. `MqClient` implements it (`ImplementsSession`). |
| `MqBroker` | `hConsumer.go`, `qProducer.go`, on top of `MqRegistry` | Extends `MqRegistry`: the same goroutines, with the requests they carry. `topicTag` is the table of queues, `cache` the channel of each, `cur` what it is writing, `dest` and `queue` what a reader holds and the queue it found or made for it. A queue looks for a client only while it has a message; its lookup and its errors are `MqRegistry`'s actions. |
| `MqDelivery` | what the mq server promises of requests | Join, Take, Accept, Give; no maps, locks, channels or connections. `MqBroker` implements it (`ImplementsDelivery`). |
| `MqStream` | `mq/mqConn.go`, `mq/vector.go`, `mq/conn.go` | Bytes are `<<message, position>>`; writers write size and body in two steps; a reader takes a prefix of any length up to `ReadMax`, and frames off its buffer. With `local`, the connection is a channel of slices, a read takes one slice. |
| `SkpSocket` | `skpPublic/skpSocket` | `run` and `reader` are the program counters of a socket's two goroutines; packets are counted, not told apart; `holder` is `CloseChanMutex` while `SkpWriteChan` pushes; `token` and `monitor` count what is in `CloseChan` and `WaitMonitorChan`; the service is one more process. |
| `SkpStream` | `skpTcpSocket.go`, `skpProtocol.go` | The bytes of one connection. `heap` holds the arrays, and `Datas`, `ReadChan` and `WriteChan` hold slices `[array, from, len]` of them, so that who overwrites whose bytes is in the model. One of the sockets that packets are passed on to is followed; `away` are the packets that do not go there. |
| `Logger` | `logger/logger.go`, `errorCode/errorCode.go` | `mu` is the goroutine that holds `l.mu`; `buf` is a sequence of pieces, each with who appended it; `pc` says where each goroutine is in `Output` or `NewErrCode`. |
| `RpcServer_proofs`, `RpcCall_proofs`, `MqServer_proofs`, `MqClient_proofs`, `MqStream_proofs`, `SkpSocket_proofs`, `SkpStream_proofs`, `Logger_proofs` | theorems about the module they extend; `MqServer_proofs` is about `MqRegistry` and `MqBroker` | [section 5](#5-proofs) |
| `MC...` | the instances that TLC checks | [section 3](#3-runs) |

Each definition that models code is mapped to its lines in `PROJECT.json`, "map".

The modules share these conventions. A step is everything a goroutine does up to the next point where another
goroutine could tell the difference; what a handler does at its end (leaving a
list, resetting a field, giving back a lock) belongs to the same action. A mutex
is the goroutine that holds it, or its holder's program counter. Variables marked
*history* exist for the properties only, and no guard reads them. Operators whose
name is explained as *mutant* in a comment are faulty versions of the operator
after them; no specification uses them, they are there to show that a property
does fail when the code is wrong.

What each model abstracts from:

- `RpcServer`: a message is an identity; the handler is one step; callers that wait for the
  mutex are not represented. `Addoroutine` is called on a server that is not
  stopped, as `mq/consumer.go:48-50` does. Goroutines that leave by `state` and by
  the timer are told apart (`armed`), because only the second kind waits for messages.
- `RpcCall`: the server is running throughout (stopping is `RpcServer`'s subject).
  A reply is the pair of the request it answers and whether it reports success.
  `sync.Pool` may drop an object at any time (`Collect`).
- `MqRegistry`: queues always have a message to write. Subscriptions are for the tag `*`.
  A peer registers once on a connection, and stops subscribing and closes after that: this is an
  assumption about the environment, which `mq/client` meets (`Start` is its only `OnMqRegister`,
  and it never reconnects); the server itself does not check it. What a registered peer may send that
  the server does not accept ends its registration without a reply (`Refuse`,
  `hConsumer.go:58-63`). `RegisterTags` is a registration for another tag, in which `Subscribe` panics. These, the silence or the
  message that is refused before a registration (`RefuseUnregistered`), and an `OnMqClose` without an
  `OnMqStopSubscribe` come from the peers in `Unruly` only, a bound for TLC; the theorems hold for every `Unruly`,
  that of all clients included.
- `MqBroker`: responses do not have a queue, they are among what the writer of a client
  writes. Clients register with a fixed instance (`InstanceOf`), some before the start
  (`Early`), with topics and instances of their own, as `OnMqRegister` ensures; which of
  them may leave is `Leaves`. A topic has two queues here, so that a wrong store would split its requests.
- `MqClient`: the connection carries whole messages (their bytes are `MqStream`'s
  subject). The broker answers in any order, closes the connection in a goroutine
  of its own after `OnMqClose`, and may do so before its reply is read, as
  `mq/server/client.go:172-180` does. It may refuse the registration, and then
  reads and answers nothing more while the connection stays open (`client.go:133-160`); a
  peer may never answer a Call; a request of a peer may be dropped, by `CHConsumer.DoMqMsg`
  (`hConsumer.go:42-45`, `56-59`) or by a handler that panics before its callback. `OnWriteMqMsg` that panics
  (`MarkPanics`) looks like success to its caller, as `rpcU` leaves `msg.Err` nil; that a `Msg` without any earlier
  reply makes the caller panic is `RpcCall`'s subject. The application makes Calls only after
  `Start` returned. A writer that is not full never blocks (the code's cache is 1000).
- `SkpStream`: one socket that packets are passed on to is followed. Which packets go there is left
  open (`away`), so that it may be any of those that `SkpServerConn` picks or dials
  (`skpManage.go:348-398`), and the rest are for others, for the monitor's answer, or dropped. Lengths
  stand for the code's (heads of 40 and 80 bytes, arrays of 16 K, reads of 4 K). Peers keep to the
  protocol: the `HeadSize` they send is that of the head. `SkpCheckHead` does not compare it with anything.
- `Logger`: a piece (header, message) is appended in one step. `intruded` is history: another
  goroutine used the buffer since this one began. `isPanic` and panics are left out.
- `MqStream`: each call of `Write` is whole with regard to other calls, as
  `net.TCPConn` guarantees. A garbled size (`Garbled`) is decoded to whatever it may be.
- `SkpSocket`: `serverID % 100` picks one of 100 locked buckets of the map; server IDs here
  have a bucket each, with one lock for the bucket and the map in it. Peers read what is written to them.
  Answers of a monitor come on any socket; `ServerAddrMap`, which they are written to, is left out,
  and so is the one answer that `SkpGetMonitorIPList` takes as the server starts.

## 3. Runs

| Run | Instance | Properties | Distinct states |
|---|---|---|---|
| `server_safe` | 2 messages, 2 goroutines, channel of 1, 2 channels, 1 restart of either kind | `IInv`, `DrainOnStop`, `GoroutinesBounded`, `LeaveDrained`, `ImplementsMailbox`, `StopReturns`, `DueHandled` | 169,564 |
| `call_safe` | 2 requests of any kind, 2 `Msg` objects, 2 goroutines, channel of 1, all packages and outcomes | `MsgExclusive`, `OwnAnswer`, `CallbackOnce`, `CallReturns` | 87,178 |
| `call_failure` | the same with one goroutine, rpcD | `FailureReported` **is violated** | |
| `registry_safe` | 2 connections, one of them of an unruly peer, 2 instances, 1 topic, 1 queue | `OneSubscriber`, `ErrorHasConn`, `Routed`, `GoneFromMaps`, `FailedForGood` | 1,762,053 |
| `registry_instance` | 3 connections, 1 instance, 2 topics | `HarborOfOneInstance` **is violated** | |
| `broker` | a subscriber of the topic that sends 2 requests to it and may leave, a second client that sends 1 and may register later, two queues of 1 | `InOrder`, `ImplementsDelivery`, `LookupEnds`, `Delivered`, `CloseEnds` | 89,307 |
| `client` | 1 Call, 1 request of a peer, 2 goroutines that call `Close` over TCP, 1 over a local connection | `PendingExact`, `ErrorHasConn`, `ClosesInOrder`, `ImplementsSession`, `Answered`, `CloseReturns` | 742,735 |
| `stream` | TCP and local; 2 producers, 2 messages of 1 and 3 bytes, size of 2 bytes, reads of up to 2, channel of 2 slices, 2 connections | `FramesWhole`, `Arrives` | 67,219 |
| `skp` | 1 accepted socket, 1 dialled, 1 server ID, channels of 1, `WaitMonitorChan` of 1, peers that fail, refused packets, a timer for the dialled one, 3 packets in all | `TypeOK`, `NoSendOnClosed`, `TokenFollowsFlag`, `EndedNotListed`, `NoneListedAfterClose`, `ClosedSocketEnds`, `ServiceCloses` | 128,914 |
| `skp_stream` | 4 packets of 3, 5, 3 and 4 bytes, heads of 2 and 3, arrays of 6, reads of up to 4, channels of 2; the peer is a client, a server, or was dialled; any of the packets go elsewhere | `RelayedWhole`, `AllRelayed` | 836,645 |
| `logger` | 3 goroutines, 2 levels, 2 prefixes | `WholeUnlessIntruded`, `FileIsKnown` | 2,326,860 |
| `logger_race` | the same with 2 goroutines | `AtomicWrites` **is violated** | |

`TypeOK` of `RpcCall`, `MqRegistry`, `MqClient` and `MqStream` is in no run: it is proved (section 5).

Why the bounds are enough for what the properties are about. For safety the question is
settled by the theorems of section 5, which hold for every bound; what
follows says why the instances show the interesting cases, and matters for liveness:

- `server_safe`: with two messages and a channel of one, a sender blocks while
  another message is queued and a third step is in a handler or between the two
  loads of `isStopping`. Two goroutines make the case in which one leaves while
  the other works. One restart with `isNewCache` true and one with false cover
  what the second life of a server inherits.
- `call_safe`: two requests and two objects let one object be used by both
  requests in turn and by none; two goroutines finish in either order.
- `registry_*`: the conflicts are between a client and its duplicate (two connections;
  three for the finding, in which a refused one makes room for the third), and between
  one client's goroutines and one queue. One of the two peers is `Unruly`: it may be silent, be refused, subscribe
  to another tag, or close at once, before, while and after the other one, which does as `mq/client` does,
  registers, fails and goes. Both connections may find the topic without an entry.
- `broker`: with a queue of one, three requests put one in the queue's hands, one in its
  channel and one in the hands of a reader that waits; two are of the subscriber and may be out of order, the
  third, of the other client, contends for the queue and for its creation: both readers may find the topic without a
  queue, and with two queues a store that does not look first (`StoreQueue`) is seen to split the requests.
  The first subscriber may fail before, during and after a write,
  and the second may take its place at any time after.
- `client`: together with the three Calls of the protocol there are up to four pending entries.
  Up to four goroutines are in `Close`: the two of the application and those
  the reader and the writer start. With a local connection, which never fails, the application has one (`LocalUsers`). Failure may hit at every step.
- `stream`: the sizes make a read end before, within and after the size, within
  and at the end of a body; two producers mix frames; the longer body does not fit the buffer of
  a local reader, and the shorter one does; the local channel fills.
  The last connection does not break, or `Arrives` would promise nothing.
- `skp`: a socket may write to itself or to the other one; both channels fill with one
  packet; one socket fills the list of the server ID (`ListMax` = 1), so that
  `SkpServerConn` first tries a listed socket and dials when that one is closing. The timer runs out for the dialled socket (`TimesOut`); the
  accepted one closes itself over a refused packet, which has the same effect at the same place. Two answers of a
  monitor are one too many for `WaitMonitorChan` (room for 5 in the code).
- `skp_stream`: one packet is nothing but a head and one is longer than a read; an array holds
  no two of the long ones, so that `Datas` moves to a new array with packets of the old one still
  on their way, and is filled in place behind packets on their way.
- `logger`: three goroutines are one that builds a line, one that intrudes, and one that
  waits for the mutex or goes between its two sections.

`CHECK_DEADLOCK FALSE` is set throughout: these systems do stop. All requests may
be over, all sockets closed, a server stopped for good, and the lock cycles that
the liveness properties name end a behaviour. That a wait is not for ever is what the liveness properties say.
`registry_safe` uses the symmetry of clients, instances, topics and queues, the logger runs that of goroutines; they check no liveness.

What the runs show:

- **rpc runtime.** `Stop(true)` keeps its promise against senders that block on the
  full channel. Two provisos are in the code, and the properties name them:
  `Start(false)` keeps messages of the earlier run in the channel and sets the counters to
  0, so that only a start that found nothing left over (`clean`) counts exactly; and a
  sender that reads `server.Cache` between the two halves of `Start(true)` is
  `Stranded`: counted in the new run, queued on the old channel.
- **rpc calls.** Sharing of `Msg` objects is sound and every `Call` returns. `OwnAnswer`
  has one exception, a handler that panicked: `rpcD` then reports success (section 6), and since
  `Msg.Init` (`rpc/server.go:40`) does not clear `Reply`, a `CallReq` of `rpcU` gives its callback
  the reply of whichever request used the object before.
- **registry.** Two clients are never at the service of one topic, also when both of them make its entry.
  Safety of the maps holds. A registration that is refused gets no reply (`client.go:133-160`), and since
  `SetState` has marked the client stopped, the `Close` it asks for returns at once: the connection
  and its goroutines stay.
- **routing.** The requests of a sender stay in order, each written once, through failures of the
  subscriber and the making of a queue by two readers; all that maps, locks and channels do to them is
  `MqDelivery`: one line for each topic, whose oldest request goes to a client of the topic. A queue delivers while a subscriber
  works, with three exceptions, each of which TLC needs. `Faithful`: a client whose failure
  another goroutine found is still `q.client`, its connection is refused, and the queue looks for no
  other one (`qProducer.go:32-46`). `PushCycle`: the queue wants the mutex of a subscriber in
  `Error`; `Close` holds it and waits for that client's reader; the reader waits for room in
  the queue. `CloseCycle`: `Close` waits with `c.mutex` held for a goroutine that wants it in `Error`.
  A lookup ends but for the opposite order of `c.mutex` and `t.mutex` (`LockCycle`), and
  `Close` ends but for `CloseCycle` and a reader that waits for a queue nobody empties.
  A queue tests the flags of its client (`qProducer.go:38`) before it writes and not as
  it writes, so that a message may still follow `StopSubscribe`
  (compare the comment at `mq/server/client.go:167`); no property says otherwise.
- **mq client.** Replies never go astray, and Close goes through its steps in order; what
  the application and the broker see of it is `MqSession`. `Close` and with it
  every later `Close` hangs when the connection breaks while `OnMqStopSubscribe`
  is unanswered (`StopSubscribeLost`), and on a local connection whose reader is
  waiting (`ReaderAsleep`). Both exceptions are needed: without either TLC finds a
  behaviour that hangs. Calls that are pending when the connection is lost are never
  answered (`Lost`), nor is `Start` when the broker refuses the registration, nor a Call that the
  peer drops (`Unanswered`): there is no timeout, and `Answered` says that there is no other reason.
- **framing.** Frames arrive whole and once, unless a frame is begun within another
  one, which the run reaches (`mixed`): a queue and the client's own writer share
  the connection and each writes size and body separately. On a local connection
  a message longer than the reader's buffer (`TooLong`) panics the reader, since `Read` returns the
  length of the slice and not of what it copied (`mq/conn.go:72`); shorter ones arrive.
- **skp.** No send on a closed channel, no ended accepted socket in a list. Run loops that
  write to full channels in a circle wait for one another with their mutexes held
  (`InDeadlock`), a run loop that handles an answer of the monitor may wait for room in `WaitMonitorChan`, and others for
  it (`MonitorStuck`), and a reader may wait for room in a channel nobody reads
  (`ReaderStuck`); there is no fourth way for a closed socket not to end.
  Packets are passed on whole although they are slices of the reader's array: `SkpSkipData`
  never gives room back in front, and `SkpAppendData` only writes behind what was read,
  so that no packet on its way is overwritten.
- **logger.** A line is built by one goroutine and is whole, unless an error is made
  meanwhile (section 6); the same goes for the text of an error. `SetFlags` between
  the two sections of `Output` never makes it print a file that it did not look up.

Each property of a passing run has a mutant: a plausible mistake in one mapped
operator with which TLC finds that property violated in the same run.

## 4. Fairness

Nothing forces anyone to call an API, a peer to send, a connection to break or a
handler to fail. Fairness is asked only of goroutines that have begun something:

- *Weak fairness per goroutine.* The Go scheduler runs every runnable goroutine, handlers return,
  timers fire.
- *Strong fairness of a send to a channel* (`RpcServer`: `Push`; `RpcCall`: `Enqueue`).
  Senders blocked on a channel are served in the order in which they came, so that one
  sender cannot be passed over for ever.
- *Strong fairness of a case of a select* (`RpcServer`: `Receive`; `SkpSocket`: `EndLoop`).
  `select` picks at random among the cases that are ready.
- *Strong fairness of taking a mutex, or of a send to a full queue* (`MqBroker`: readers and
  queues). `sync.Mutex` hands itself to a waiter that has waited for more than a
  millisecond (its starvation mode), and senders are served in turn. The writer and
  `Close` of a client are weakly fair.
- *The environment.* In `MqClient` the broker reads on, closes when it has been asked to, and answers
  its own three requests while the connection stands and it has not refused the registration; peers owe nothing; in `MqStream` a producer is given a new connection in the end; in `skp`
  peers send finitely many packets (`MaxData`), since a run loop that is never
  idle may be kept from the rest of its work by its peer; in `skp_stream` the peer's bytes arrive
  and the socket written to goes on writing.

`MqRegistry` and `Logger` state no fairness; their runs check safety.

## 5. Proofs

Checked by TLAPS for every value of the constants that satisfies the module's
`ASSUME`: any number of messages, goroutines, connections, clients, topics, sockets and
server IDs, any size of the channels, any lengths and any bound on restarts. What the
`ASSUME`s ask for is that

- the sets that are counted (messages, requests, clients, queues, sockets) are finite;
- the names for "nobody" and "none", which stand for `nil`, `""` and a free mutex, name no
  member of the sets, and sets whose members live in one map do not overlap;
- channels have room for one message, and there is a goroutine to serve them, as
  in every call of `NewServer`; there are as many `Msg` objects as requests (`sync.Pool` makes
  new ones);
- a read has room for the size in front of a message, and no body is empty: `MqMsg` has
  required fields, so that it does not marshal to nothing;
- no skp packet is empty (it includes its head), and an array is longer than a read;
- clients that are registered from the start have different topics and instances, as
  `OnMqRegister` leaves them.

Every invariant and every action property of the passing runs is stated by a theorem, and
so is each of the three refinements.

**`RpcServer_proofs`.** `IInv` is `TypeOK` and five parts. `ControlInv` relates the state, the
holder of the mutex and the goroutines that are alive. `PlaceInv` says that a message is in one
place: at one position of one channel or with one goroutine. `CountInv` says that the
counters are the sizes of the history sets `sent` and `counted`, and that a goroutine
that is comparing has read no more than the present `recvNumber`. `CleanInv` says that
after a clean start nothing uncounted can reach the current channel. `DueInv` is the
aim: when the last goroutine has left, what was due is handled. None of
the wanted properties is inductive without them. The argument: a goroutine leaves
when the `recvNumber` it read equals the `SendNumber` it reads later. Both only grow, and
`counted` is a subset of `sent`, so that the read value is at most `recvNumber`, this at most
`SendNumber`, and equality forces `counted = sent`: all that was announced is handled.
The proof needs `recvNumber` to be read **first**, which is the order in which Go
evaluates the two calls in `rpc/server.go:172`. Theorems: `TypeCorrect`, `Invariance`, `StopDrains` (`DrainOnStop`),
`CountersNeverCross` (`CountersOrdered`, which no run checks by itself: it is a consequence of `IInv`), `NobodyLeavesEarly` (`LeaveDrained`), `GoroutinesCounted`
(`GoroutinesBounded`), and `MailboxRefined`: each step of `RpcServer` is a step of
`RpcMailbox` or invisible, under the refinement mapping at the end of `RpcServer`.

**`SkpSocket_proofs`.** The invariant has four parts. `TypeInv` is `TypeOK` and, for
each socket that writes, that it has a destination. `FlagInv` says that `IsCloseChan`
is up exactly when there is one token or the run loop has taken it, that there are never two, that a writer
between its test of the flag and its push holds the mutex with the flag down, and that
the connection of a run loop that is over is closed. `ListInv` follows an accepted socket from being listed to
being unlisted. `CloseInv` says that the agents which `SkpCloseAllTcpSocket` has gone by have empty
lists, and that these stay empty.
Theorems: `TypeCorrect`, `Invariance`, `ChannelsSafe` (`NoSendOnClosed`), `FlagMeansEnd`
(`TokenFollowsFlag`), `AcceptedUnlisted` (`EndedNotListed`), `NothingLeftListed`
(`NoneListedAfterClose`).

**`RpcCall_proofs`.** `SlotInv`: the request that uses a `Msg` is the one whose method and
arguments are in it, so that two requests never share one. `PlaceInv`: a queued `Msg` is in
the channel, with one goroutine, or answered, and in one of these places only. `ReportInv`: what
the `Msg` says of how its handler ended, in each of the three packages. It is the place that
makes it work: who gives the object back to the pool differs between requests with and without
`Pending`, and each side may do so only because the other one has let go of it. Theorems:
`Invariance`, `TypeCorrect`, `MsgsExclusive` (`MsgExclusive`), `AnswersOwn` (`OwnAnswer`),
`CallbacksOnce` (`CallbackOnce`).

**`MqServer_proofs`, the registry.** The three maps are under no single lock, so the invariant says, for each
client, who may still change what of it. While `OnMqRegister` runs, the state of the
client is `{"Stop"}`, so that no failure counts and nobody deletes it (`Registration`). Two clients may make the entry of a topic at once; an entry that was made is
never replaced, and `IsOk` lets one client in (`OneOrNone`). Whoever
deletes it later has said so, and a client that is being deleted never registers again
(`Deletion`). A deletion that is complete is what starts `Close` (`Gone`), which holds `c.mutex` from
the moment it takes the connection away until the reader has left and `Stop` is set
(`Closed`). `Ident` and `Fresh` say that a client is in the maps only under its own instance and
topic, `Routing` that it stays there. A connection that was deleted for its silence may register
afterwards, and is excepted from `Gone` as from `GoneFromMaps`. Theorems: `Invariance`, `TypeCorrect`,
`SubscriberUnique` (`OneSubscriber`), `ErrorFindsConn` (`ErrorHasConn`), `RegisteredRouted` (`Routed`),
`ClosedAreGone` (`GoneFromMaps`), `FailureFinal` (`FailedForGood`).

**`MqServer_proofs`, the routing.** In `MqBroker` the same goroutines have requests in their hands. Its
steps are those of `MqRegistry` and the ones in which a reader hands on a request, which change
nothing that the registry's invariant looks at but the place of that reader (`HandsOnKeeps`), so that
the invariant holds there too (`RegistryInvariance`), and with it what it is for: `RegistryHoldsUnderLoad`.
Of requests, `BInv` says for each topic that its queue holds, for each
sender, exactly the requests between the last one written and the one in the sender's reader, with
increasing numbers (`QueuesOrdered`); that a queue has nothing before it is entered for its
topic and is not exchanged for another one after that, though two readers make it at once; and that
it is in the middle of a write only with a message (`QueueInv`). Both invariants together give the
refinement: the oldest request in the line of a topic is the next one of its sender, and the client
that a queue writes to has the queue's topic. Theorems: `QueueInvariance`, `RequestsInOrder` (`InOrder`),
`RegistryInvariance`, `RegistryHoldsUnderLoad` (`OneSubscriber`, `ErrorHasConn`, `Routed` and `GoneFromMaps`
of `MqBroker`), `DeliveryImplemented` (`ImplementsDelivery`).

**`MqClient_proofs`.** `NumberInv`: numbers are dealt in order, and the entry under a number is that of
the job which has it. `WayInv` follows a job through the cache, the writer, the broker and
back: it is in one place at most, and has no answer before the reader took its reply from the
connection. `MutexInv`, `TimerInv` and `OrderInv` are about the goroutines in `Close`: `c.mutex` keeps them
apart, `OnMqStopSubscribe` has returned before `MqClose` is started, and, unless `Timer`
gives up, the connection is taken away only when `OnMqClose` has been answered, which takes a
writer and a reader that are not in the middle of `IsError`. Theorems: `Invariance`, `TypeCorrect`,
`RepliesFound` (`PendingExact`), `ErrorFindsConn` (`ErrorHasConn`), `EndInOrder` (`ClosesInOrder`).
For the refinement of `MqSession`, `SessionInv` adds what lasts whatever `Timer` does: the
registration is over before anything else begins (`RegisterInv`), and the connection is given up
only by a goroutine that has started `Timer`, which comes after `OnMqStopSubscribe` has returned
(`HangUpInv`). Theorems: `SessionInvariance`, `SessionImplemented` (`ImplementsSession`).

**`MqStream_proofs`.** `FramesWhole` has two halves. That no message is read twice holds even where
frames are mixed, and rests on the last byte of a message (the slice of its body, on a local
connection): one producer has the message (`OwnInv`), writes it to the end once, and the
last byte is in one place, once, on its way to the reader (`CopyInv`). That what is read
is a beginning of what was written holds where no frame was begun within another one. There
`FrameInv` says that the bytes in the buffer and on the wire are the rest of a sequence of
frames. Induction over the sequence is avoided: `Framed` says it by neighbours:
behind byte *k* of a message is byte *k* + 1, behind the last one the first of some message,
and the messages that end in the rest are those that were written and not yet read, in
order. For a local connection `SliceInv` counts slices instead, two for each message. `AloneInv`
says that an unmixed connection has one producer within a frame. Theorems: `TypeCorrect`, `Invariance`, `FramesArriveWhole` (`FramesWhole`).

**`SkpStream_proofs`.** The invariant says where each packet is. There are numbers *w* and *d* so
that packets up to *w* have been handled, those up to
*d* have left `Datas`, and the rest of what was read is in `Datas`, byte for byte; the run loop may have packet
*w* + 1 in hand. What waits in the channel of the other socket are packets with growing numbers (`idx`),
and what is due between one and the next of them is nothing (`FlowInv`). A slice on its way holds one packet, as it was sent or with its address
written in, and stands before what `SkpRead` still writes to (`Holds`). That no two slices overlap need not be
said: each byte tells the packet that it is of. What a step writes is either behind all slices of
its array or in the head of the packet in hand. The positions of packets in the stream, and what
is due after each of them, are recursive functions of the number of packets. They are unfolded one step at a
time by a lemma, and their consequences (`OffGrows`, `DueSteps`) follow by induction in the form of a set,
which the library's well-founded sets give without an operator as parameter (`Induction`).
Theorems: `Invariance`, `PacketsPassWhole` (`RelayedWhole`).

**`Logger_proofs`.** `HolderInv`: who is inside one of the two sections of `Output` holds `l.mu`, and who is
there without having asked for its caller's file has held it since it saw the flags. `BufferInv`:
what a goroutine that nobody has intruded on finds in `l.buf` at each of its steps. Theorems:
`Invariance`, `LinesWhole` (`WholeUnlessIntruded`), `FilesKnown` (`FileIsKnown`), and
`AtomicWithoutErrors`: `Spec /\ [][NoError]_vars => []AtomicWrites`. The last one completes the
finding of `logger_race`: what `logger.go:76` says of `mu` is true of every behaviour in which no error is made.

**Only model-checked**: all liveness, which rests on fairness and `ENABLED`, beyond
this prover. `FailureReported`, `HarborOfOneInstance` and `AtomicWrites` are violated.

## 6. Where code and documents disagree

| Run | What |
|---|---|
| `call_failure` | `rpcD`: when the handler panics, the recovery skips `msg.Err = err` (`rpcD/server.go:105`) and `Call` returns nil. The tests expect an error from a handler that fails (`rpcD/server_test.go:196-199`). |
| `registry_instance` | Deleting a refused duplicate deletes `instanceClient[instance]` (`mq/server/server.go:192`), which belongs to the client it duplicates, so that the next duplicate is accepted. `mqMsg.proto:6` promises one harbor for an instance. |
| `logger_race` | `NewErrCode` calls the package function `FormatHeader` (`errorCode.go:57`), which empties and fills `std.buf` without `l.mu` (`logger.go:229-232`) while `Output` may be building a line in it; `logger.go:76` says that `mu` "ensures atomic writes; protects the following fields". |

The deadlocks of section 3 contradict no document of the repository; the liveness
properties name them as their exceptions.

## 7. What is not modelled

- `int32` wraparound of `SendNumber` and `recvNumber`: after 2^31 messages between two
  restarts both wrap alike, and the code only compares them for equality.
- A handler that calls `Stop` on its own server, or sends to its own full channel:
  deadlocks that the calling discipline excludes (`StopSelf` is there for handlers).
- `RunOnce`, `Ticker`, `Wait`: nobody in the mq or the skp servers waits for them.
- Tags other than `*`: `Subscribe` writes to a nil map (`mq/server/client.go:91`) and panics on the first.
- Responses on their way through the broker, from a reader to the writer of the client with their
  harbor: the writer writes what it is given in turn.
- The goroutine of a `Timer` that timed out: it waits for ever to send to a channel that nobody
  receives from (`rpc/server.go:256`), and holds nothing else.
- A peer of the mq server that registers twice, or in another order than `mq/client` does; a
  skp peer whose `HeadSize` is not that of the head.
- `OnMqClosing`: the client has a handler, no server of the repository sends it.
- How many sockets a list holds: `Socket_List_Max` is looked at before dialling
  (`skpManage.go:186`) and not when a socket is listed, so that it bounds nothing when
  several run loops dial at once; nothing in the code relies on it.
- Peers of skp sockets that stop reading, which block the run loop in a write of the
  operating system.
- Which server ID a packet type goes to in skpProxy, skpRoute and skpMonitor; in
  `SkpSocket` any destination may be chosen.
- Encoding of fields, method registration by reflection, configuration, reading
  signals, the layout of log lines: no state that another step depends on.
- `isPanic` of the logger, a flag for debugging, and `NewGlobalLogger`, which replaces the
  logger before there are other goroutines.

## 8. Plan

Done: `RpcServer` with `RpcMailbox`; `RpcCall`; `MqRegistry`; `MqBroker`, which
composes it with requests and queues, with `MqDelivery`; `SkpSocket`; `SkpStream`; `MqClient`,
which composes the client with the promise of the mailbox, with `MqSession`; `MqStream` for both
kinds of connection; `Logger`.

Proved: every safety and action property of all of these, and the three refinements.

Next, the proofs: that a `MqBroker` whose early clients registered one after the other is one whose
early clients were there from the start, which would make `Early` a matter of the instance only.

Next, the model:

1. Responses through the broker, and two queues with a subscriber each; then a composition of
   `MqSession` with `MqDelivery`, for a Call from one client to another.
2. The choice of a server by order in `GetRPCServer`, as an operator checked against
   a reference definition.
3. Wider instances of `SkpSocket` (two server IDs, for the cycles between service and
   run loops).
