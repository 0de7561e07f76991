# A TLA+ model of libbtcnet

libbtcnet keeps an application's peer-to-peer connections: it connects out to as
many peers as the application wants, accepts incoming ones, resolves names, speaks
SOCKS5, buffers and frames messages, retries and reconnects, and shuts down. The
application derives from `CConnectionHandler` (`include/libbtcnet/handler.h`), calls
it, and learns everything else from callbacks in terms of connection ids.

This directory holds TLA+ modules translated from the C++ source, the TLC
configurations that check them on small instances, and TLAPS proofs of what holds for
every value of the constants. `PROJECT.json` maps every definition to the lines it
models and lists the runs, the hazards, the findings and the theorems.

    tlc -config MCConnHandler.cfg MCConnHandler      # model-check one configuration
    tlapm ConnHandlerProofs.tla                      # check the proofs of one module

## 1. The system

### Components

| Component | Source | State | Operations |
|---|---|---|---|
| Connection handler | `handler.cpp/.h` | `m_connected`, `m_connecting`, `m_dns_resolves`, `m_binds`, the counters and the limit, the next id, `m_shutdown`, the base, the request and shutdown events | `Start`, `PumpEvents`, `Shutdown`/`ShutdownInt`, `RequestOutgoingInt`/`StartConnection`, `OnOutgoingConnected`, `OnConnectionFailure`, `OnDisconnected`, `OnIncomingConnection`, `Bind`, `CloseConnection`, `OnResolveComplete/Failure` |
| Connection attempts | `directconn`, `dnsconn`, `proxyconn`, `bareconn` | the bufferevent while connecting, the pending lookup, the response and the position in it, the retries left | `Connect`, `OnConnectSuccess/Failure`, `OnResolveSuccess/Failure`, `Cancel` |
| Resolver, resolve-only requests | `resolve`, `resolveonly` | the pending request, retries left, retry timer | `Resolve`, `dns_callback`, `Retry` |
| Established connections | `connectionbase` | the bufferevent with its buffers, watermarks and callbacks; five one-shot events | `Write`, `Disconnect`, `DisconnectWhenFinished`, `PauseRecv`, `UnpauseRecv`, `ResetPingTimeout`, `Retry`, the bufferevent callbacks |
| SOCKS5 client | `bareproxy` | the bufferevent during the dialogue, one read callback per message | `InitProxy`, one method per message of the dialogue |
| Message framing | `message`, `read_cb_message`, `read_cb_chunk` | the read watermark | `first_complete_message_size`, delivery, `OnMalformedMessage` |
| Incoming connections, listeners | `incomingconn`, `listener` | the listening socket | `Bind`, `Enable`, `accept_conn` |
| Connection description | `connection`, `networkconfig.h` | none (values) | `parse`, `CanConnectDirect`, `CanConnectProxy`, `CanResolve`, `SetResolveFamily` |
| Base32 | `base32` | none | `EncodeBase32`, `DecodeBase32` |
| Events, ownership wrappers | `event`, `eventtypes` | a libevent event | `active`, `add`, `del`, `free` |
| Locks | `threads.h` | `m_conn_mutex`, `m_bev_mutex`, libevent's lock of a bufferevent | |
| Logging, tests, build files | `logger.h`, `tests/`, `Makefile` | | |

### How they interact

* Everything but the public API runs on one thread, inside `PumpEvents`, one libevent
  callback after another. A callback calls synchronously through several classes: a
  failing `connect` goes `conn_event` → `OnConnectFailure` →
  `CConnectionHandlerInt::OnConnectionFailure` → the application → `Retry` or the
  destructor of the object it all started in.
* In a threaded handler the application calls `Send`, `CloseConnection`, `PauseRecv`,
  `ResetPingTimeout`, `Shutdown` … from other threads. A call looks the id up in
  `m_connected` under `m_conn_mutex` and activates an event of the connection, or
  writes to its buffer; the event thread does the rest later.
* A connection object moves between `m_connecting` and `m_connected`, gets a new id
  with each attempt, and keeps its events.
* libevent defers the bufferevent callbacks (`BEV_OPT_DEFER_CALLBACKS`): what runs is
  the callback installed at that later time.
* `evdns_getaddrinfo` may answer from within the call.

### What is hard about it, and what makes each part correct

* **Handler.** Counters adjusted by hand in four handlers stand for the sizes of
  tables; the number of candidates to ask for is an `int` difference converted to
  `size_t`; `ShutdownInt` and `Start` assert that everything is empty. Correct if the
  counters always match, the outgoing limit is never exceeded, an id the application
  knows never names something else, the application is told exactly what is open, a
  shutdown completes, and no attempt is forgotten.
* **Attempts and lookups.** The object has several possible owners of one bufferevent,
  a response with a position in it, and retries; synchronous failures nest. Correct
  if there is always exactly one thing that will move the object on, addresses are
  tried in order, retries are limited as configured, and no method touches an object
  that what it called has destroyed.
* **Established connections.** Several handlers install write callbacks over one
  another's; API calls land between any two steps; an event may outlive the connection
  it was meant for. Correct if the application's view of the buffer is the one a
  callback is armed for, no armed callback waits for something that will not come, a
  graceful close completes and sends everything first, and no event is delivered
  without a bufferevent.
* **Message framing.** Nothing but an arrival calls the read callback again, and two
  watermarks that move with each message decide about both. Correct if every message is
  delivered once, in order and as soon as it is complete, however the stream is cut up; a
  malformed one is refused in its place; the input stays bounded; and the buffer is never
  at the same time too full to be read into and too empty to be looked at.
* **SOCKS5.** A callback per reply, a watermark raised while the reply's length becomes
  known, `size_t` sums with a length read through a `char`, a dozen early returns. Correct
  if a callback finds the bytes it takes, a whole reply is noticed, only a granted request
  succeeds, the peer's first bytes stay in the input, and the dialogue ends.
* **Threads and locks.** `m_conn_mutex` is held over a wait for libevent's lock of a
  bufferevent or for a running event callback, and the callbacks that hold these call the
  API, which wants `m_conn_mutex`. A shutdown frees what other threads are about to use.
  A retried connection keeps its object and what other threads have added to it. Correct if
  what a call has found stays until it has used it, calls find what a callback has named,
  nothing outlives the event base, every call returns and every
  shutdown completes.
* **Time.** Four limits and a ping timer, set in one method, replaced in another, running
  only while an event is added, over several connections of one object. Correct if a
  silent or stalled peer is dropped when its time is up and not before, no timer strikes
  the next connection, and a graceful close ends even if the peer never reads.
* **Connection description.** The same host and port go through a parser, a sockaddr, the
  resolver and the SOCKS5 request; three predicates and the order of three tests decide
  what is done with them. Correct if the port that was meant is the one used, the families
  permitted are the ones used, a proxy is never bypassed, and an `.onion` name is
  recognised for what it is and never looked up.

## 2. Modules

| Module | Models | Kind |
|---|---|---|
| `HandlerContract` | the promises of `handler.h` in terms of the callbacks alone | abstract specification |
| `ConnHandler` | `CConnectionHandlerInt`, all tables and sessions | state machine |
| `MCConnHandler` | its instances | TLC |
| `ConnHandlerProofs` | its inductive invariant, that it implements `HandlerContract`, what an application may conclude from that | proofs |
| `ConnAttempt` | one attempt object, or one resolve-only request, from creation to destruction | state machine |
| `MCConnAttempt` | its instances | TLC |
| `ConnAttemptProofs` | its inductive invariant, the order of the addresses | proofs |
| `Connection` | one established connection with libevent's queue for it: closing and writing | state machine |
| `MCConnection` | its instances | TLC |
| `ConnectionProofs` | the order of the queue, its inductive invariants | proofs |
| `MessageFraming` | the reading side of an established connection | state machine |
| `MessageContract` | what `handler.h` promises of a peer's messages | abstract specification |
| `MCMessageFraming` | its instances: networks and streams | TLC |
| `MessageFramingProofs` | its inductive invariant, that it implements `MessageContract` | proofs |
| `Socks5` | `CBareProxy`: the dialogue with a proxy | state machine |
| `MCSocks5` | its instances: candidates and proxies | TLC |
| `Socks5Proofs` | its inductive invariant | proofs |
| `ConnTimers` | one object over several connections: its time limits, ping timer and byte totals | state machine |
| `MCConnTimers` | its instances: options | TLC |
| `ConnTimersProofs` | its inductive invariant | proofs |
| `ApiThreads` | a threaded handler: threads, callbacks, locks and the shutdown | state machine |
| `MCApiThreads` | its instances: applications | TLC |
| `ApiThreadsProofs` | its inductive invariant, the order of the locks | proofs |
| `ConnConfig` | one candidate, from the text to what goes onto the network | state machine |
| `Base32` | `EncodeBase32`, `DecodeBase32` | functions |
| `MCConnConfig` | its instances: candidates | TLC |
| `ConnConfigProofs` | that Base32 is one to one; what the constructor makes of a candidate, and that every packet is justified by it | proofs |

The state machines are views of the same objects. `ConnHandler` has the tables and lets
every attempt and connection end as it likes. `ConnAttempt` is the inside of one entry of
`m_connecting` (or `m_dns_resolves`). `Connection` and `MessageFraming` are the inside of
one entry of `m_connected`, its writing and closing half and its reading half: the two touch
different fields of the bufferevent, and `Connection` lets the read callback find the input
well formed or not. `Socks5` is the inside of the state of `ConnAttempt` in which the proxy
is connected: its two ends, `m_bev` handed on or freed, are the actions `ProxySuccess` and
`ProxyFailure` there, and what it leaves in the input is `early` of `MessageFraming`.
`ConnTimers` is an entry of `m_connected` and, between two connections, of `m_connecting`,
with the clock and without the order of the queue, which `Connection` has. `ApiThreads` is
the handler again, with every call of the API and every callback cut where a thread may
wait, and without counters and the order of ids. `ConnConfig` is what `usable` of `ConnAttempt` and the
kinds of candidates of `ConnHandler` stand for. Each machine is checked with every answer
its environment may give, so nothing a neighbour does is assumed except this interface: an
attempt ends in a success or a failure with or without `retry`; `OnDisconnected` follows
`DisconnectInt`. The interfaces are matched by name and by reading, not by a composed run.

### ConnHandler

One action per libevent callback or API call, with all it calls, except that the loop
of `RequestOutgoingInt` takes one step per candidate (`todo`), because `Shutdown` and
`CloseConnection` may come from another thread in between. `Dispatch` is the guard of
everything the event thread does: the base is allocated, `ShutdownInt` has not broken
the loop, no shutdown event is active (it has priority 0), no callback is under way.
The choices of the application (accept, retry, which candidates) and the network are
parameters bound in `Next`.

| State | In the code |
|---|---|
| `m_connected`, `m_connecting` | the maps; a value is the object's kind, `fPersistent`, and the armed one-shot event |
| `m_dns_resolves` | the map; whether the request is under way or waiting to be retried |
| `m_binds`, `m_connection_index`, `m_*_count`, `m_outgoing_conn_limit`, `m_shutdown` | the members of those names |
| `m_event_base`, `m_request_event`, `m_shutdown_event` | whether they are allocated, pending, active |
| `todo` | the rest of the list in `RequestOutgoingInt` |
| `app_*` | history variables: what the callbacks told the application; `app_dropped`, the resolve-only candidates that were taken and of which it is told nothing |

### ConnAttempt

The object is a record `obj`, the candidate it was made from is `conn`. The C++ methods
are operators from record to record, so that a synchronous failure is a composition of
the methods it runs through; an action is a libevent callback. `Destroyed` models the
destructors with `Cancel`, `Failed` what the handler makes of a failure. Two history
fields are added: `retried`, how many failures in a row were retried, and `stale`,
whether the object was written to after its destruction. An address is reduced to
whether it can be connected to.

### Connection

`queue` is libevent's queue of active events, restricted to this connection. A deferred
bufferevent callback is the three tokens `read`, `write`, `event`, in the order libevent
looks at them. `DisconnectInt` and the handler's `OnDisconnected` are two steps, because
the connection is in `m_connected` until the second. `opts`, an element of `Options` that
never changes, says whether the API may be called between these (`threaded`), whether the
object may be retried (`fPersistent`) and whether the application sends after a graceful
close (`sendsAfterClose`). What the bytes are is left out; sizes are small numbers around
`nMaxSendBuffer`. `Delete`, `event_del` for a set of events, gives each event that is left
the position that is the number of those kept up to it: `SelectSeq`, without its recursion.

### MessageFraming

The peer's stream is a sequence of messages, each known by the offset of its end and by
whether it begins with something else than `message_start`; in a network with `chunk_size`
the messages are the chunks. `received` is how far the socket has been read, `taken` how
many messages are out of the input; the length of the input is their difference. `low` and
`high` are the watermarks, and that libevent reads no more is derived from them
(`Suspended`). What `first_complete_message_size` finds out about the next message are
predicates (`HeaderIn`, `BadStart`, `SizeKnown`, `Complete`, `TooBig`). The loop of
`read_cb_message` is one action: `LoopEndsAt(k)` says it stops with `k` messages out.
`PauseRecv` and `UnpauseRecv` come at any time. `setup` is the network's configuration
with a stream; it never changes. In `MessageContract` the stream is only, message by message,
whether it is well formed (`Messages`), and the socket the set of messages that have arrived
(`ArrivedWhole`): the refinement mapping `M`.

### Socks5

`readcb` and `low` are the callback and the watermark in force, `received` and `taken` count
the proxy's bytes. What the bytes say is a record, `proxy`: for each reply whether its
version, code or method is the expected one, the form of the address and its length, and
how much of the peer's data follows. The proxy sends a reply when it has the request
(`Sent`); the bytes arrive in any portions, and the connection may fail or be cancelled at
any time. `NeedSize` and `Drained` are sums of `size_t` (`SizeMod`), with the length of a
name read through a signed `char` (`AddrSize`).

### ConnTimers

A timer is the number of ticks left, or `Off`; `Tick` lets time pass only when nothing is
due (`Due`), so that "in time" means to the tick. `limits` is what was last given to
`bufferevent_set_timeouts`; the rules by which libevent arms, re-arms and removes the read
and the write event are written out (`Armed`, `SetTimeouts`, `NothingToWrite`, and the
timer parts of `Heard`, `Written`, `Send`, `UnpauseRecv`). `Retry` and `Destroyed` are what
the application's answer to `OnDisconnected` leads to. `silent`, `resumed`, `stalled`,
`total_read` and `total_written` are histories that the limits and the totals are compared
with. Byte totals are counted modulo `ULongMod`, and begin with any value.

### ApiThreads

`call[p]` is the call of the API thread `p` is in and its next step: entering
`m_conn_mutex` and looking the connection up (`Enter`), then using it and leaving (`Use`:
`bev` takes the bufferevent's lock, `del` is `event_del`, `add` and `disconnect` activate
or add an event). `cb` is what the event thread is at: a callback, from which the
application may make calls of its own, or a point of `ShutdownInt`, `OnDisconnected`
(`remove`) or `OnOutgoingConnected` (`insert_outgoing`) at which it wants the mutex or
frees something. `where` is the table a connection is in. `BevLocked` says when the event
thread holds a bufferevent's lock: in `OnBytesRead` and `OnBytesWritten`, which are evbuffer
callbacks, and not in the others (`BEV_OPT_UNLOCK_CALLBACKS`). An application is data: the
pairs of a place and a call it makes from there (`app.uses`), and whether its candidates are
persistent.

`Destroy` frees a connection's object and with it its events; `Retry` keeps the object and
gives it another id, under which its events go on: `DisconnectInt` has deleted them, but it
does so before it waits for the mutex, and a thread that still finds the connection may have
added one since. Such an event later reports the new id while that is in `m_connecting`
(`PingTimeoutInt`), or disconnects an attempt, which ends in an assertion (`cb.at = "abort"`).
`incoming` tells the objects that are not retried. `app_knows` is a history: the ids that a
callback has named as connected, until `OnDisconnected`.

### ConnConfig and Base32

A text is its host, as a form that `evutil_parse_sockaddr_port` and the code's own parser
tell apart, and the number behind its last colon. The label of an `.onion` name is kept
character by character, because `Base32` decides about it. `FromText` is the constructor,
`ConnToString` is `ToString`, `CanConnectDirect`, `CanConnectProxy` and `CanResolve` are
the methods, `ResolveFamilies` the hint of the lookup. `StartConnection` and the answers of
the resolver, the peer and the proxy follow, and `net` collects what goes onto the network:
lookups, connections and requests with their families and ports. A candidate made from a
sockaddr has no text. `Port` is what a `uint16_t` holds, up to `MaxPort`. In `Base32` the cases of
the two `switch` statements are one formula over the number of bits left over
(`EncoderKept`, `DecoderKept`), and what a loop has after each number of bytes or symbols is
a recursive function (`Encoder`, `Decoder`).

## 3. Runs

| Run | Instance | Shows |
|---|---|---|
| `handler` | limits 1 and 3, batches of 2, up to 3 candidates offered (a persistent name, an address, a proxied resolve), 6 ids, 1 listener; 330 000 states | `Consistent` (types, `CountsMatch`, `CleanStop`), `OutgoingBudget`, `IdsUnique`, `AppViewMatches`, and that the handler implements `HandlerContract` |
| `handler_live` | limit 2, one persistent name, one resolve, one proxied resolve, one candidate not set, 5 ids; 32 000 states, with fairness | `ShutdownCompletes`, `AttemptsEnd`, `CloseTakesEffect`, and the invariant `ResolvesTracked` |
| `attempt` | every kind, `nRetries` −1, 0 or 2, persistent or not, usable or not, responses of 1 to 3 addresses; 1 500 states, with fairness | `Consistent` (types with the retry count in range, `ResponseInHand`), `OneWayForward`, `RetryBudget` (all kinds but names), `AddressesInOrder`, `AttemptDecided` |
| `connection` | on one thread, persistent, sending at any time; and threaded, not persistent, not sending after a graceful close; maximum 2, buffer up to 3, 3 sends of 1 or 2; 306 000 states, with fairness | `Consistent` (types, `NoLostWakeup`, `FullArmed`, `OutputPolled`, `CloseOnItsWay`), `NoStaleEvents`, `FullIsAnswered`, `GracefulCloseCompletes` |
| `framing` | every stream of three messages that are a mere header, of the maximal size or above it, with a bad start nowhere or at any of them; streams without a maximum; chunks; two messages of which any part is in the input beforehand; 22 000 states, with fairness | `Consistent` (types, `NeverStuck`, `RestCanArrive`, `BoundedInput`), `NothingWithheld`, `StreamDelivered`, and that it implements `MessageContract` (`MessagesAsPromised`) |
| `socks5` | 6 candidates, what can and cannot be written; proxies with every form of address, names of 0, 1, 2, 128 and 250 bytes, at most one reply that is not SOCKS5's, any refusal; 42 000 states, with fairness | `Consistent` (types, `CallbackHasReply`, `ReplyNoticed`), `OnlyIfGranted`, `PeerDataIntact`, `Decided` |
| `timers` | four sets of limits: each of the two longer than the other, none, retry at once; ping timers of 0 and 2; output up to 2; 265 000 states, with fairness | `Consistent` (types, `TimersBelong`, `TotalsRight`), `Punctual` (`SilentPeerBound`, `StalledPeerBound`, `NotDroppedEarly`), `GracefulCloseEnds` |
| `threads` | two threads, two connections, one listener, 3 calls; applications whose threads do everything, whose callbacks do everything, that use one thread and persistent connections, and whose threads close persistent connections and start their ping timers; 328 000 states, with fairness | `Consistent` (types, `UsesConnected`), `KnownIsFound`, `UsesSession`, `TornDown`, `NoDeadlock`, `WaitsEnd` |
| `config` | 27 texts with every kind of port, sockaddrs of every family, 200 `.onion` labels, every set of families, proxies by address and by name; responses of up to 2 addresses; 17 000 states | `HostsRecognised` (types, `OnionNotLookedUp`, `DecodesEncoded`, `OnionCanonical`), `RoundTrips`, `PortReachesNetwork`, `OnlyThroughProxy`, `FamilyRespected` |
| `attempt_at_once` | as `attempt` | **violated**: `NotTouchedWhenGone` |
| `connection_close_early` | on one thread, no send after the close | **violated**: `ClosesWhenEmpty` |
| `threads_deadlock` | an application that calls from `OnBytesRead` and `OnPingTimeout` while its threads send and stop ping timers | **violated**: `NoDeadlockAtAll` |

`Consistent` of each machine is its type invariant with the relations between its fields
that every step may take for granted; its parts are definitions of their own, and the
proofs of section 4 state them one by one.

### Bounds, and why they are enough

* `MaxConnID` bounds the ids drawn (`Room`): 6 ids allow a connect, its failure with a
  retry, a reconnection, an incoming connection and a listener, a shutdown and a second
  session. The wrap of `GetNextConnectionIndex` lies beyond the bound; the code reaches
  it after 2^63 ids.
* `MaxSimultaneous = 2` and limits 1 and 3 lie on both sides of the batch size, so both
  arguments of the `min` in `RequestOutgoingInt` decide. An offer of 3 is more than may
  be taken.
* `SizeMod` only needs to exceed every reachable number; `OutgoingBudget` shows that the
  conversion never sees a negative one.
* `nRetries` −1, 0, 2 are the three cases of the code's tests; `MaxRetried = 3` is one
  more than the largest limit, so an excess shows. Responses of 3 addresses have a
  first, a middle and a last one.
* `nMaxSendBuffer = 2` with sizes 1 and 2: a send below the maximum, two that reach it,
  one that reaches it at once; `MaxOutput = 3` is above it. `MaxQueue` only stops API
  calls while several events are queued, not the event thread.
* A header of 3 bytes, its first 2 enough for the size, sizes 3, 6 and 7 with a maximum of
  6: every comparison of `read_cb_message` has both sides and its boundary. Three messages
  are enough for one that is delivered, one left in the buffer and one that is waited for;
  the theorems of section 4 have no bound.
* The last reply is 8 bytes at least with a name of 1 byte, the watermark's value: names
  of 0, 1 and 2 bytes are below, at and above it. 128 is the first length a signed `char`
  makes negative, 250 one so far that the sum wraps round to a small number. `SizeMod` only
  needs to exceed 512.
* Limits of 1 to 4 ticks with `Ages = 4`: the two limits of an object differ, so exchanging
  them shows, and no history stops before the largest limit is exceeded. `MaxOutput = 2`
  lets a part of the output be written. That no limit exceeds `Ages`, at which the histories
  stop, is an assumption of the module: a longer excess would not show. `ULongMod = 2` makes
  every initial value of a total possible and its wrap frequent.
* `MaxCalls = 3` with two threads and the event thread: each may be inside a call at the same
  time. Two ids: one that a call is about and one in another phase, or that a retry goes on
  under. A listener is enough for one that outlives the base.
* The ports 0, 80, 65535, 65536 and 65616 (80 when cut to 16 bits), none, no digits and
  letters are all that the parsers tell apart. Labels are the encodings of 0 to 6 bytes,
  every text of up to 3 of 4 characters alone and behind 4 symbols, and two-symbol and
  five-symbol ends with every relevant bit pattern: every `mode` of both functions.

### Fairness, and why the code justifies it

`handler.h` asks the application to call `PumpEvents` until it returns false, so the
loop keeps running what is active.

* `ConnHandler`: weak fairness of `ShutdownInt`, `PumpEvents` and the candidates of a
  `RequestOutgoingInt` that has begun (the loop does not stop in the middle); strong
  fairness of what the loop has in store for one id (`Serve`), because libevent runs the
  active events of one priority in order, so that none is passed over for ever while
  `RequestOutgoingInt` comes again and again. `nConnTimeout` and libevent's DNS timeout
  bound an attempt and a lookup. Weak fairness would not do: an application that
  offers candidates that are not set would keep the loop busy.
* `ConnAttempt`: weak fairness of beginning and of ending an attempt; nothing of the
  application, of a disconnection or of a shutdown.
* `Connection`: weak fairness of running the queue and of completing `OnDisconnected`,
  strong fairness of the socket becoming writable: libevent polls every round and reports
  every ready descriptor, and `nSendTimeout` turns a peer that does not read into a
  failure.
* `MessageFraming`: weak fairness of the callbacks, which the loop runs, and of arrival
  while the socket is read: the peer sends all of the stream. Nothing of the application:
  `StreamDelivered` is about one that does not stay paused.
* `ApiThreads`: weak fairness of the event thread, whether it completes a callback or makes a
  step of a call, as callbacks return; strong fairness of each thread's step, that is, a
  thread that can have a lock again and again has it once. POSIX promises this of no mutex,
  but the event thread is outside every lock whenever it polls. Nothing of the network.
* `ConnTimers`: weak fairness of `Event`, what is due being run by the loop, and of `Tick`:
  time passes. Nothing of the peer or the application.
* `Socks5`: weak fairness of the callbacks and of arrival: the proxy answers. One that does
  not is ended by `nRecvTimeout` (`Fails`).

### What the violated runs say

* When evdns answers within `evdns_getaddrinfo`, the answer may destroy the object whose
  member the call's result is then assigned to.
* `DisconnectWhenFinishedInt` installs the closing callback without regard to a write
  callback already deferred: that one runs the closing callback with output left.
* `OnBytesRead` and `OnBytesWritten` reach the application with the bufferevent's lock held.
  If it calls anything about a connection there, it waits for `m_conn_mutex`, whose holder
  may be a `Send` waiting for that bufferevent. The same holds for a call from
  `OnPingTimeout` and a thread in `ResetPingTimeout(id, 0)`, which waits in `event_del`.
  `threads` shows that an application without these combinations (`Compatible`) is safe.

### Differences met in the source that no run shows

The properties named are stated so as to leave these cases out; each says so.

* `CDNSConnection::OnConnectFailure` (`dnsconn.cpp:103`) tests `m_retries` and never
  decrements it: a limit is no limit for names whose addresses do not answer
  (`OnResolveFailure` counts). `RetryBudget` is about the other kinds.
* Between `DisconnectInt`, which deletes a connection's events (`connectionbase.cpp:118`), and
  the erasure from `m_connected`, another thread's call arms one again; after `Retry` it
  fires without a bufferevent, which `connectionbase.cpp:135` and `:276` assert.
  `NoStaleEvents` is about one thread, or connections that are not persistent. In `ApiThreads`
  the events do go on with the object; `KnownIsFound` and `WaitsEnd` are about applications
  without persistent connections that threads close or start ping timers of
  (`NothingCarriedOver`), the other properties about all. The run has one of the others too.
* `OnOutgoingConnection` and `OnIncomingConnection` name an id before the connection is in
  `m_connected` (`handler.cpp:312` and `:291`): a call about it from another thread is dropped
  until the insertion. `KnownIsFound` is about the ids that later callbacks have named.
* `InitConnection` (`connectionbase.cpp:222`) sets watermarks and callbacks on a bufferevent
  whose input may hold what the proxy sent behind its reply; nothing looks at it before
  more arrives. `NothingWithheld` is about what is read later.
* `check_auth_response` (`bareproxy.cpp:222`) joins the tests of version and status with `&&`:
  a proxy that refuses the credentials is sent the request all the same. `OnlyIfGranted`
  shows that a success still needs the last reply to grant it.
* The initial timeout is never in force: `m_first_data_func` waits for the socket to be
  readable or writable, and a socket just connected is writable, so `FirstDataInt`
  replaces the limits in the first turn of the loop (against `connectionbase.cpp:201-202`).
* `m_bytes_read` and `m_bytes_written` have no initial value (`connectionbase.cpp:36`): the
  totals of an object's first connection begin with what was in memory. `TotalsRight` is
  about the later ones.
* `CResolveOnly::Retry` (`resolveonly.cpp:57`) tries again at once and never uses
  `m_retry_timeout`. Every `UnpauseRecv` arms the receive timeout anew, also if nothing
  was paused; `SilentPeerBound` counts from there.
* A listener bound in a callback of `ShutdownInt` goes into a table that has been taken
  already and outlives the base (`TornDown` excludes it); a second `Shutdown` from another
  thread may find the event freed, an assertion (`UsesSession` excludes it).
* `1.2.3.4:70000`, `1.2.3.4:` and `1.2.3.4:0` are no addresses for libevent and become names
  to look up (`RoundTrips` excludes them: `Misnamed`); an address with port 0 prints as one
  that does not parse. A proxy given by name is never resolved: `proxyconn.cpp:42` ignores
  that it has no address. After eight symbols `DecodeBase32` accepts anything as the rest
  (`base32.cpp:143`; `OnionCanonical` compares up to there). `EncodeBase32` is not used.
* A resolve-only candidate with a proxy costs an id and is then dropped (`handler.cpp:375`
  has a TODO), although `Readme.md:13` lists RESOLVE over SOCKS5, and a shutdown drops the
  requests under way without a callback (`handler.cpp:137`). `ResolvesTracked` counts both apart
  (`app_dropped`) and says that there is no third case. A host in `.onion` passes `CanConnectProxy`, but
  `writeproto` can write it only for `SOCKS5_FORCE_DOMAIN_TYPE`.
* A `Send` after `CloseConnection(id, false)` that fills the buffer makes
  `CheckWriteBufferInt` (`connectionbase.cpp:286`) put `write_cb` in the place of the callback
  that was to end the connection; `GracefulCloseCompletes` is stated for an application
  that sends nothing after the close.
* The length of a name in a proxy's reply is read through a `char` (`bareproxy.cpp:170`).
  Where that is signed, a reply with a name of 128 to 248 bytes is waited for until the
  timeout, and with 249 to 255 the sum wraps and the rest of the reply is handed on as the
  peer's data. A name of length 0 makes a reply of 7 bytes, below the watermark of 8. The
  properties of `Socks5` that need it are stated for 1 to 127 (`Ordinary`); the other lengths
  are in the run.
* `receive_init` (`bareproxy.cpp:250`) takes any method but 2 for "no authentication", also
  0xFF and one that was not offered; the proxy's next reply decides.
* A proxied connection does not get its retries back when it succeeds, unlike the other
  kinds (`proxyconn.cpp:65`). Requests to resolve only take no slot, so that `m_dns_resolves`
  has no bound (`handler.cpp:403`).
* `listen_error_cb` is never registered (`listener.cpp:66`, against `handler.h:163-167`);
  `OnConnectionFailure` gets the resolved address where `handler.h:183-190` describes the
  candidate's; `OnDnsFailure` also reports a connection's lookup; `UnpauseRecv` turns reading
  on during a graceful close, against `handler.h:35-36`; `OnWriteBufferReady` comes at exactly
  the maximum, against `handler.h:258-259`.

## 4. Proofs

### The handler

The proofs assume `ConstantsAssumption` of `ConnHandler` only: the constants have their
types. There is no bound on the limit, the batch, the ids or the candidates.

**The invariant.** None of the properties of `ConnHandler` is inductive alone. That the
counters match needs the tables to be typed (an entry of `m_connecting` is outgoing, so
that `OnOutgoingConnected` may count it) and ids to be fresh (a `Put` over an existing key
would not add one). That ids are fresh needs `IdsBelow`: everything that holds an id is
below `m_connection_index`. That an id may be drawn needs `TodoRoom`: the candidates under
way have an id left each. The budget needs the counters, `AppViewMatches` and `CleanStop`
(a restart with another limit begins from nothing open). So

    Inv == TablesOK /\ FieldsOK /\ AppOK /\ FlagsOK       \* = TypeOK
        /\ IdsUnique /\ IdsBelow /\ TodoRoom
        /\ CountsMatch /\ OutgoingBudget /\ CleanStop /\ AppViewMatches

is proved inductive, one lemma per action (`StartInv` … `RetryResolveInv`, `NextInv`), on
lemmas about the tables (`PutKinds`, `DropKinds`), about sizes of sets of ids and about
the shared pieces `FailAttempt` and `FailResolve`.

| Theorem | States |
|---|---|
| `Invariance` | `Spec => []Inv` |
| `BudgetKept`, `IdsNeverReused`, `AppViewCorrect`, `StateConsistent` | the invariants of the run `handler`; the last from `TypeCorrect`, `CountersCorrect` and `StopsClean` |
| `Implements` | `Spec => KeepsContract`: every step is a step of `HandlerContract` under the refinement mapping `app_limit <- m_outgoing_conn_limit`, `Ids <- ConnIDs`, or changes nothing the contract speaks of; one lemma per action that the application sees |
| `ContractKeepsLimit` | of any implementation of the contract: outgoing connections and candidates never exceed the limit, nothing is open outside a session |
| `RequestsTracked` | `ResolvesTracked`: every request to resolve is answered, under way or one of those counted as dropped, over any number of sessions |

### Message framing

`SetupsAssumption` says that a message is at least its header and a chunk is a chunk, and
that the maximum, if there is one, is not smaller than what a size is read from; streams
and sizes are arbitrary. `NothingWithheld` is not inductive: that no callback is needed now
says nothing of the next arrival. The strengthening is

    Inv == TypeOK /\ MarksOK /\ Woken /\ HighKept /\ Given

`Woken`: an input that has reached the low mark has its callback on the way. `MarksOK`: the
low mark is one of two values, enough to read a size from or the size of the message that
comes next, and the high mark is not below it. From the two follow `DeliversAll` (what is
complete has reached the low mark) and `NeverLocked` (so has what is too full to be read
into). `HighKept`, that no more is read than the high mark allows, gives `InputBounded`.

`AlwaysGoesOn` is what `StreamDelivered` rests on beside fairness: if the application lacks a
message and no callback is on its way, there is more to read and room for it. An input that
held the rest of the stream would hold the next message, because no message ends later than
one behind it (`OffsetsGrow`), and so would have reached the low mark.

`Implements` is a refinement: a read callback is `Receive` or `Refuse` of `MessageContract`,
an arrival `Arrive`, the end `Close`, and the rest the application does not hear of. `Given`,
that an open connection's application has had exactly what was taken, and `LoopTakes`, that
what the loop takes has arrived and is well formed, are what it needs.

| Theorem | States, of `Spec` and for all `Setups` |
|---|---|
| `DeliversAll` | `NothingWithheld` |
| `Implements` | `Spec => MessagesAsPromised` |
| `ContractRefuses` | of any implementation of the contract: all that was given is well formed and had arrived, and `OnMalformedMessage` comes in its place and last |
| `TypeCorrect`, `NeverLocked`, `AlwaysGoesOn`, `InputBounded`, `StateConsistent` | the four parts of `Consistent`, and `Consistent` |

### SOCKS5

`ConstantsAssumption` gives the candidates and the proxies their types and `size_t` more than
512 values; every proxy the type has is covered. The invariant is

    Inv == TypeOK /\ Stage /\ Woken /\ SentOnly /\ OnlyIfGranted /\ PeerDataIntact

`Stage` relates the callback in force to the bytes taken and to the watermark: it is 2, 8
or the `NeedSize` of the last reply. `SentOnly`: no more is read than was asked for, so
that what a callback finds belongs to the reply it is for. `Woken` is as above, and it is
what makes a deferred callback that runs as another one harmless.

| Theorem | States, of `Spec` and for all constants |
|---|---|
| `GrantedOnly`, `LeavesPeerData` | `OnlyIfGranted`, `PeerDataIntact` |
| `TypeCorrect`, `AssertionsHold`, `NoticesReply`, `StateConsistent` | the three parts of `Consistent`, and `Consistent` |

### Connection attempts

`ConstantsAssumption` gives the candidates and the responses their types: any number of
retries, negative ones included, and any response that is not empty. Between two callbacks
the object is `Settled`:

    Inv == conn \in Conns /\ Settled(obj)

A callback takes away the way forward it came by: the timer has run, the lookup has
answered, the bufferevent is freed. The object is then `Between`, with no way forward,
and every method in which a callback can end (`BareConnect`, `Retry`, the destructor, what
the handler makes of a failure) takes an object that is `Between` to one that is
`Settled`. So a synchronous failure, which nests these methods, needs no argument of its
own. `Held` has what is in hand (a response only in a `CDNSConnection`, `m_iter` at one of
its addresses); `InBudget`, that retries used and retries left are together no more than
the candidate's, is what makes `RetryBudget` inductive.

| Theorem | States, of `Spec` and for all constants |
|---|---|
| `Invariance`, `StateConsistent` | `[]Inv`, `Consistent` |
| `ExactlyOneWay`, `RetriesCounted` | `OneWayForward`, `RetryBudget` |
| `NoAddressPassedOver` | the action property `AddressesInOrder` |

### Established connections

**Writing and closing** (`ConnectionProofs`). The invariant is

    Inv == TypeOK /\ QueueOK /\ FullArmed /\ NoLostWakeup /\ NotFullBefore /\ EventsGone

`FullArmed` and `NoLostWakeup` depend on the order of the queue. A deferred callback does
its read, its write and its event part in turn, and while its last part is queued it is
not queued again; whoever finds it queued relies on its write part being still to run.
`QueueOK` says that: the event part comes right after the write part (`Follows`) or at the
head, where it runs next. That `event_del` keeps it is shown by counting: the rank of an
event among those left grows with its position (`RankSteps` and the lemmas on `Delete`);
a least counterexample, which `WFMin` of the library gives, stands for the induction.
`NotFullBefore` says that the belief in a full buffer ends with the connection;
`EventsGone` carries `NoStaleEvents`.

That a graceful close is not forgotten has an invariant of its own on top of this one:

    CloseInv == OutputPolled /\ CloseOnItsWay /\ ChecksAwaited /\ WaitIsFinish /\ FinishEnds

A check of the buffer that finds it full puts `write_cb` in the place of the callback that
closes. It does no harm while the event of the close is still to run, and `ChecksAwaited` says
that this is so: every check in the queue has that event behind it. `CloseConnection(id,
false)` puts the event last or finds it queued; that it then has nothing new behind it needs
`WaitIsFinish` (an event that is queued was asked for in this connection, after which nothing
is sent). `FinishEnds` is the same for the object's next connection. With `OutputPolled`, that
the socket is polled for writing until an error is on its way to `event_cb`, this is what
`GracefulCloseCompletes` and `FullIsAnswered` rest on beside fairness.

**Time** (`ConnTimersProofs`). The assumption is the one of section 3; limits and ping
intervals are arbitrary. `Punctual` relates histories to limits and needs the timers:

    Inv == TypeOK /\ TimersBelong /\ TotalsRight /\ ClosingOK /\ TotalsReset
        /\ JustConnected /\ LimitsSet /\ ReadTimed /\ WriteTimed

`ReadTimed`: what is left of the read timeout and the time since what last armed it (data,
or `UnpauseRecv`) make up `nRecvTimeout`; `WriteTimed`: so do the write timer and the time
that output has stalled. Neither holds under the initial limits, which `JustConnected`
covers: `FirstDataInt` is due, so that no time passes before it, and `LimitsSet` says what
is in force from then on. `TotalsReset` is what makes the totals of a reused object right.

| Theorem | States, of `Spec` and for all constants |
|---|---|
| `Invariance`, `StateConsistent` (both modules) | `[]Inv`, `Consistent` |
| `EventsBelong` (`ConnectionProofs`) | `NoStaleEvents` |
| `CloseKept`, `SendingGoesOn` (`ConnectionProofs`) | `CloseOnItsWay`, `OutputPolled` |
| `TimeoutsPunctual` (`ConnTimersProofs`) | `Punctual`: `SilentPeerBound`, `StalledPeerBound`, `NotDroppedEarly` |

### Threads and locks

`ConstantsAssumption` says that `Loop` and `Nobody` are no threads and gives the
applications their type; the numbers of threads, connections, listeners and calls are
arbitrary, and so is every application. The invariant has three strands:

    Inv == TypeOK /\ CallOK /\ MutexOK /\ UsesConnected
        /\ CbOK /\ PlacesOK /\ EventsOK /\ CarriedOK /\ KnownOK
        /\ BeforeOK /\ RunningOK /\ StoppingOK /\ StoppedOK /\ BindsOK /\ OnceOK

* A thread is past its lookup exactly if it holds `m_conn_mutex` (`MutexOK`), and what
  takes a connection out of `m_connected` waits for it: hence `UsesConnected`. `CallOK`
  says at which steps a call may be, and that the application makes it from there.
* Where a connection is follows from what the event thread is at (`CbOK`, `PlacesOK`), so
  that events do not outlive their object (`EventsOK`). `CarriedOK` and `KnownOK` have the
  condition `NothingCarriedOver`: no event outlives the connection either, and an object that
  may be retried has none left, so that a callback names nothing that calls do not find.
* `m_event_base` and `m_shutdown` divide a session into before, running, stopping and
  stopped. Each part says what is still allocated. `OnceOK` adds that a `Shutdown` called
  once is over when `ShutdownInt` runs, `BindsOK` that no listener is bound after the
  listeners were taken: each under the condition on the application that it is named in.

`NoDeadlock` is about any number of threads: no set of them is such that each waits for one in
it. It follows from the invariant without a history. Whoever is waited for holds `m_conn_mutex`
or is the event thread, so that a circle has at most these two in it. Of two that wait for each
other one holds the mutex and waits for a bufferevent's lock or for a callback to end, and the
other is the event thread inside a callback that calls the API, which a `Compatible`
application excludes.

| Theorem | States, of `Spec` and for all constants |
|---|---|
| `Invariance`, `StateConsistent` | `[]Inv`, `Consistent` |
| `KnownFound`, `SessionThere`, `NothingLeft` | `KnownIsFound`, `UsesSession`, `TornDown` |
| `OneOrder` | `NoDeadlock` |

### Connection description

`ConstantsAssumption` says which texts and sockaddrs there are; labels are of any length,
ports of any size. What the constructor makes of a candidate never changes and is settled
first, case by case of its parser (`Fixed`). The rest of the invariant gives each
packet on the network what justified it when it was sent (`PacketOK`), in terms
of what never changes:

    Fixed == desc \in Descs /\ ConnOK /\ PortKept /\ OnionKept /\ RoundTrips
    Inv   == Fixed /\ NetOK /\ ResolvedOK

`ResolvedOK`, that only addresses of permitted families are kept of a response, justifies
the packets that are sent later.

| Theorem | States, of `Spec` and for all constants |
|---|---|
| `Invariance` | `[]Inv` |
| `ProxyNeverBypassed`, `FamiliesKept`, `PortsArrive`, `PrintedIsParsed` | `OnlyThroughProxy`, `FamilyRespected`, `PortReachesNetwork`, `RoundTrips` |
| `EncodedDecodes` | of bytes of any length: `DecodeBase32` accepts what `EncodeBase32` makes of them and gives them back |
| `DecodedCanonical` | of texts of any length: one that `DecodeBase32` accepts begins with what `EncodeBase32` makes of its bytes |
| `OnionsKept`, `EncodedOnionsKept` | `OnionNotAsked`, `OnionNotLookedUp`: a name in `.onion` whose label the decoder accepts, and so one that is an encoding, reaches nobody but a proxy |
| `HostsKnown` | `HostsRecognised`: types, `OnionNotLookedUp`, `DecodesEncoded`, `OnionCanonical` |

**Base32.** Both directions follow one run through the other. `InStep`: after `n` bytes, the
decoder that reads the encoder's symbols has all bytes but at most the last, and the bits the
two have left over make that one up. `Coupled`: after `k` symbols, the encoder that reads the
decoder's bytes has written all symbols but at most the last two, and the bits left over make
these up. The relation is kept case by case of `mode` (five, and eight); at the end the
padding completes the group, and that `Invalid` wants the bits left over to be 0 is what makes
an accepted text the only one. The arithmetic of each case is a lemma of its own, over numbers
of the size of a byte.

The steps are joined without the library's induction theorems: what holds at 0 and is handed
on holds up to any number, because a least counterexample (`WFMin`) would be handed what it
lacks (`UpTo`). That the recursive functions satisfy their equations, which TLA+ does not give
for free, is `Recursion`: a set of numbers up to which a solution exists, by `UpTo` again.

### Only model-checked

* The liveness properties: the prover does not handle fairness. What they rest on beside it is
  proved where it is a state's business: `NoDeadlock` for `WaitsEnd`, `AlwaysGoesOn` for
  `StreamDelivered`, `CloseKept` and `SendingGoesOn` for the two of `Connection`,
  `ExactlyOneWay` for `AttemptDecided`.
* The violations, which are counterexamples.

## 5. Not modelled

* The rates of connections and groups, `SetSocketOpts`, the content of messages, log output:
  no control depends on them. That a group exists when it is configured is in `ApiThreads`.
* Sockets and libevent's inside, except for what the code relies on: the order of active
  events, deferred callbacks, watermarks, timeouts, the lock of a bufferevent.
* Calls of the API from inside a callback are in `ApiThreads`; what they do to the queue of
  the connection the callback is about is `Connection`'s, which lets them come between any
  two callbacks.
* The wrap of ids at 2^63, and how a UNIX address prints.
* Hosts of more than 255 bytes in `ConnConfig`; that a request may not be writable is in `Socks5`.
* `OnListenFailure`, which nothing calls after a successful bind.

## 6. Plan

Done: all modules of section 2; the inductive invariant of every machine, and from it every
invariant and every action property that a run checks; the refinements of `HandlerContract`
and `MessageContract`. What would come next:

1. That `ConnAttempt` and `Connection` implement the life of one id in `ConnHandler`, as
   refinement mappings.
2. The byte-level properties of `Socks5` as a refinement of a dialogue of whole messages.
