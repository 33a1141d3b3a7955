# Verification of Sippet

TLA+ models of [Sippet](../src/README.md), the SIP stack written in Elixir with
a C++ message parser. Paths below are relative to `src/`.

## The system and its parts

| part | source | state it keeps | operations |
|---|---|---|---|
| client transactions | `lib/sippet/transactions/client.ex`, `client/invite.ex`, `client/non_invite.ex` | a gen_statem state, one state timeout or two process timers, the request | response, transport error, timeouts, terminate |
| server transactions | `lib/sippet/transactions/server.ex`, `server/invite.ex`, `server/non_invite.ex` | a gen_statem state, one state timeout, the last response | request copy, ACK, response from the core, transport error, timeouts, terminate |
| router | `lib/sippet/router.ex` | none; reads the Registry | prepare and validate an incoming message, dispatch it to a transaction or the core, start transactions, choose the destination of an outgoing message |
| stack | `lib/sippet.ex`, `lib/sippet/core.ex` | Registry, DynamicSupervisor | `send/2`, `terminate/2`, `register_transport/3`, `register_core/2` |
| TCP transport | `lib/sippet/transports/tcp.ex` | connection pool, monitors, listening socket | accept, send, `:DOWN`, sweep, `close_peers` |
| TCP connection | `lib/sippet/transports/tcp/connection.ex` | buffer, parse state, one timer, keep-alive timer | activate, send, data, close, timeouts, keep-alive, force close |
| UDP transport | `lib/sippet/transports/udp.ex` | a socket published in the Registry | receive, send |
| supervision | `lib/sippet.ex`, `router.ex`, `transactions/server.ex` | Registry names, children and restart count of the DynamicSupervisor | look up, start, crash, restart, collapse |
| timers | `lib/sippet/timers.ex` | overrides in the Registry metadata | resolve, set |
| message | `lib/sippet/message.ex`, `message/*.ex` | none | headers, `to_response`, parse, format, validate |
| digest authentication | `lib/sippet/digest_auth.ex` | none | answer and verify challenges |
| parser | `c_src/parser.cc`, `utils.cc`, `string_tokenizer.h` | the positions of its loops | assemble lines, read the start line, find and read headers, merge them |
| date parser | `c_src/prtime.cc` (NSPR) | the fields of a time | read tokens, normalize to GMT |
| writer | `lib/sippet/message.ex` | none | terms to the text of a header |

**How they interact.** A transport hands the bytes it received to the router,
from its own process (UDP) or from the connection's process (TCP). The router
finds the transaction of the message in the Registry and casts the message to
it; a request without a transaction starts one, a response or an ACK without a
transaction goes to the core. A transaction calls the core back from its own
process and sends through the router: over UDP straight to the socket, over TCP
by a `GenServer.call` to the transport, which calls the connection. A failed
send comes back to the transaction as an `{:error, reason}` cast; a call that is
not answered exits and ends the transaction. The
application calls `Sippet.send/2` and `Sippet.terminate/2` at any time, from any
process.

**What is hard.** Every transaction is a process with a mailbox, so responses,
copies of requests, errors, timeouts and `terminate/2` meet in every order. The
timers of the non-INVITE client are process messages which may be in the mailbox
when they are cancelled. The network loses, duplicates and reorders. The end of
a transaction leaves no memory, so late copies start again. In the TCP transport
processes call one another, may stop between a check and a call, and are linked.
A copy of a request races with the restart of the transaction that crashed on
it, for the same Registry name. The parser unquotes, unescapes and splits with
functions that each take the quotes of others into account, the writer does not
always put back what the parser took away, and the date parser takes each token
by what it has seen before.
`PROJECT.json` lists these hazards with the line where each one bites and the
properties that cover it.

**What makes each part correct.**
A client transaction reports exactly one outcome to the core unless it is
terminated or crashes in its first send, does not report after it, does not time out early, does not wait
for ever and does not retransmit after the final response. A server transaction
commits to one final response, repeats only that one and ends. Client and server
over the network agree on the final response and an ACK exists only for a final
response that the caller has. The TCP pool is bounded, contains each open
connection once and no dead one for ever, and its monitors cover those that run.
A connection hands on the messages that the peer wrote, however they arrive. Copies of
one request make one transaction at a time, and a received request reaches the
core. The parser reads what a peer that follows the grammar meant, line by line,
and its loops consume their text; what it read and the writer writes reads the
same again. A date is normalized without moving to another instant.

## Modules

| module | models |
|---|---|
| `ClientPromise` | what any client transaction promises the core: provisional responses, then one outcome, or a terminate or a crash while sending |
| `ServerPromise` | what any server transaction promises: it commits to one answer and after that tells the core nothing but that it timed out; it may crash while sending |
| `ClientInvite` | INVITE client transaction; refines `ClientPromise` |
| `ClientNonInvite` | non-INVITE client transaction; refines `ClientPromise` |
| `ServerInvite` | INVITE server transaction; refines `ServerPromise` |
| `ServerNonInvite` | non-INVITE server transaction; refines `ServerPromise` |
| `InviteExchange` | a `ClientInvite` and a `ServerInvite`, the network between them and the routers |
| `TcpTransport` | transport process, connection processes and their users |
| `TcpConnection` | one connection process and its socket: framing, timers, keep-alive, flow control |
| `TransactionSupervision` | receivers of copies of one request, the DynamicSupervisor, the transaction processes it starts and restarts |
| `SipText` | the text primitives of the parser: blanks, integers, quotes, lists, parameters |
| `HeaderValues` | the functions that read start lines and header values; extends `SipText` |
| `MessageParser` | assembly of lines, header lookup, parsing and merging of one message; extends `HeaderValues` |
| `HeaderCodec` | a header value written by a peer, read by the parser and relayed by the writer; extends `HeaderValues` |
| `NormalizeTime` | `PR_NormalizeTime`, step by step |
| `DateParser` | the Date header from the text through `PR_ParseTimeString` and `PR_NormalizeTime` to the writer and again; refines `NormalizeTime` |
| `ClientInviteProofs`, `ClientNonInviteProofs`, `ServerInviteProofs`, `ServerNonInviteProofs` | theorems about the transactions |
| `ParserProofs` | theorems about the parser of dates and its normalization, and about the assembly of lines, for any texts |
| `InviteExchangeProofs` | theorems about the exchange, for any number of server transactions |
| `TransactionSupervisionProofs` | theorems about the supervision, for any receivers and restart limit |
| `TcpProofs` | theorems about the pool, for any peers, limits and number of processes, and about one connection, for any stream, segments and timeouts |
| `MC*` | constants for TLC |

### Transactions

One action is one whole callback of the `gen_statem`: the clause of the state
function, the sends and core callbacks it makes and the `:enter` clause of the
state it moves to. `state` is the gen_statem state (`"stopped"` when the process
has ended, `"crashed"` when a send has ended it), `mailbox` the casts it has not handled, `state_timeout` the pending
`:state_timeout` with its event content (`past`, the delay that is running, and
`passed`, the time accounted for by the waits before it). `sent` and `told` are
the message that left and the last callback into the core. `outcomes`, `waited`
and `terminated` are history variables for the properties.

* A send either leaves or puts `{:error, reason}` at the end of the
  transaction's own mailbox (`Router.send_udp_direct/8`,
  `receive_transport_error/3`) or, over a reliable transport, exits: it is a
  `GenServer.call` there (`router.ex:263`), which a timeout, a missing transport
  or a transport that crashes ends with the process (`SendExits`,
  `HandleFailureExits`, and a second alternative of `Init` for the first request).
  The message may have left all the same. The promises and the properties are
  those of one process. The one that the supervisor starts in its place begins
  with `Init` again, whatever the first one had reported;
  `TransactionSupervision` follows such restarts on the server side.
* A status code is a number of `Responses` and `StatusClass` is the division by
  100 of `status_code_class/1`. Headers, bodies and formatting are left out.
* Time is counted in ticks. A tick does not pass a timer that is due: the VM
  delivers a timer when it expires, although the process may find other messages
  before it in its mailbox.
* In `ClientNonInvite` a process timer that fires becomes a message in the
  mailbox; `cancel_timers/1` stops the timers that have not fired and leaves the
  messages of those that have.

### The exchange

`InviteExchange` instantiates `ClientInvite` and `ServerInvite` on disjoint
variables. `net` holds every datagram ever sent, and delivery does not remove
it, which gives loss, duplication, delay and reordering at once. The router
either casts to the registered transaction, hands a response without a
transaction to the core, or starts a new server transaction for an INVITE that
finds none. The network is UDP, so that no send exits. `c_final`, `heard` and `repeated` record what the calling core was
given.

### TCP

`TcpTransport` has the transport process, its pool and monitors, a bounded
number of connection processes and the processes that call it. The handler of a
send is split where it blocks: `HandleSend` runs to the first call to a
connection, and `SendSucceeds`, `SendFails`, `SendTimesOut` and
`ConnectionStops` are the ways that call ends. A connection is `doomed` when a
message that stops it is in its mailbox; `Process.alive?/1` is still true of it
then. `Crash` is the end of the transport together with all linked connections;
its restart by the application's supervisor is `Init` again and is not modelled.
The sweep asks twice which connections are alive, first for the pool (`SweepPool`)
and then for the monitors (`SweepMonitors`), and connections die in between.
Names, sockets and options are left out; a failing name resolution or connect
and a full pool are the failing alternative of `SendToTarget`. `Filter` is
`Enum.filter/2`, as a recursive function over the prefixes of the list, and
`TotalConnections`, the sum of the lengths of the lists in the code, counts the
places of the pool: this way both can be reasoned about.

`TcpConnection` looks inside one connection. The peer writes units to its stream
as time goes by, each a message or a keep-alive, and the network cuts the stream
into segments anywhere. A byte is `CR`, `LF`, any other byte (`x`), or one that
stands for text that the pattern of `extract_content_length/1` matches, with the
number it yields in `Lengths`. The pattern is not anchored, so this text is a
`Content-Length` or `l` header (`LengthHeaders`) or something else, such as
`sip:hotel:5060` in a URI or the header `X-Total: 3`.
`FindHeaderEnd` and `ContentLength` are the functions of the same names in the
code; `parse/1`, which calls itself until it returns, is one action per clause
(`ParseEmpty`, `ParseLineEnd`, `ParseBegin`, `ParseHeader`, `ParseBody`), and
between two of them, while `parsing` holds, segments and timer
messages still come into the mailbox. `WellFramed` says which messages the peer
writes: a header that ends with CRLF CRLF, has no LF LF before that, and whose own
`Content-Length` (`Declared`) says how many bytes follow. Messages that end their
lines with LF alone are read otherwise and are outside of it. A message is
`Misread` when other text in its header makes `ContentLength` yield another
number. `intended` is where the messages lie in the stream and
`delivered` what the router got. The connection has one timer at a time (idle or
message) whose expiry is a message in its mailbox, flushed by the selective
receive of `cancel_timer/1`. The socket stops delivering after `ActiveN` segments
and says so with `:tcp_passive`. The answers to keep-alives, which are writes, are
left out. `reading` is the age of the header that is being read.

### Supervision

Each receiver of a copy looks the key up and later asks the supervisor for a
transaction, two steps between which anything may happen. Messages to the
supervisor come from different processes and are handled in any order. A process
is started under its Registry name: `start_link` fails if the name is taken.
`Enter` is the first `:enter` callback, which gives the request to the core and
may crash there. `restart: :transient` restarts what did not stop normally; an
attempt that fails is queued again (`gen_restart`) and counts again, until more
than `max_restarts` of them bring the supervisor down with all its children. Its
own supervisor then starts it empty. Registry and DynamicSupervisor are external
and modelled from how the code uses them.

### Parser and writer

A text is a sequence of symbols. A symbol is one character that the parser tells
apart (a quote, a delimiter, a blank, a digit) or a word, which stands for a run
of characters that every primitive treats alike. A `Tokenizer`, a pair of
iterators, is the text that is left to read. The result of a parsing function is
a value with the text left, or the atom that says what is wrong. The functions
have the names of the code.

`HeaderCodec` has a peer which composes a header from fields, symbol by symbol,
and writes it as RFC 3261 section 25.1 says (the peer and `Integer.to_string` are
external). Each element on the way reads the value with the parser and writes
what it understood. `Readable` and `Relayable` say which values come through.

`MessageParser` runs the three loops of `Parse` one iteration per step: the
assembly of lines, the iteration over headers, and the insertion into the map.
`first` and `pieces` record what the peer wrote. The text has no body: the router
cuts it off before it calls the parser (`router.ex:114`). A piece with a line that
begins with a NUL means its first line alone, since a NUL is no white space of SIP;
the parser joins the two.

`NormalizeTime` has one action per carry and one per iteration of the month
loops; `origin` records the time it was called with. Fields that are a `PRInt16`
wrap. `DateParser` reads one token per step. A word is the three-letter name it
starts with, since the parser looks no further, or `"word"`; `rest`, a pointer,
is a position in the text.

## Runs

| run | shows |
|---|---|
| `client_invite` | refinement of the promise (one outcome), bounds of Timer B, end of calling and completed, effect of `terminate/2` |
| `client_non_invite` | refinement, live timers, no retransmission after the final response, termination |
| `server_invite` | refinement, bounds of Timer H, only copies after a final response, 100 Trying, termination |
| `server_non_invite` | refinement, termination in spite of copies |
| `invite_exchange` | ACK only for a final response the caller has (`AckMeansFinal`), agreement on it (`AgreeOnFinal`), no second copy of a final response from a live transaction (`FinalOnce`) |
| `tcp_transport` | limit of the pool, its agreement with processes and monitors (`PoolConsistent`), a dead connection leaves it by its `:DOWN` unless it died inside a sweep (`DeadLeavePool`) |
| `tcp_transport_bad_request` | *violation*: a 400 over TCP waits for its own sender |
| `tcp_connection` | the same messages come out however the stream is cut and none is held back, up to the first misread length (`FramedAsSent`), and that message goes out with a wrong body (`BodyAsDeclared`); one timer, and the socket is re-armed (`WakesWhenDue`); a header is read in its time unless a send comes in between (`HeaderReadInTime`) |
| `transaction_supervision` | one transaction at a time, a collapse of the supervisor without further copies only by more than `max_restarts` crashes, no endless restart, every request reaches the core |
| `header_codec` | the parser reads exactly the values of `Readable` as they were meant (`ReadsWhatPeerWrote`); exactly those of `Relayable` survive relays (`SurvivesRelay`) |
| `message_parser` | lines are unfolded where the parser sees white space (`UnfoldsLines`), which is the white space of SIP and NUL (`FoldsAtWhiteSpace`), and every line counts as if it came alone unless one begins with a NUL (both in `ParsesEveryLine`) |
| `date_parser` | dates in the documented forms and in every order of tokens are read as meant, normalized, kept by relays within the years 1000 to 9999; every iteration advances; `PR_NormalizeTime` is only called as `NormalizeTime` allows (`CallsAreBounded`, a refinement) |

`ReadsWhatPeerWrote`, `SurvivesRelay`, `BodyAsDeclared` and `FoldsAtWhiteSpace` are
equivalences: a value outside the named set, a misread length, a line that begins
with a NUL are what the code does not handle, and no more is excepted than that.

**Bounds.** The timers of the transactions are the smallest that let the
interval double twice, reach its cap (`T2`) and run past the limit, since the
code compares and doubles but uses no other arithmetic on them. The response
codes have a provisional one, a success and failures of two classes. `MaxMailbox`
limits the casts from outside that wait at once; two are enough for any pair of
messages to meet in either order, and every transaction handles its mailbox in
order. A transaction's own error casts are not limited. The exchange allows two
server transactions (`MaxTransactions`), so that a late copy starts a second one
after the first one ended. The TCP pool has two places, two peers and three
connection processes, so that it fills, empties and fills again; an `EgressOnly`
transport does what this one does when nobody connects. The stream of a
connection has up to two units (`MaxUnits`) out of a message without a length, one
whose body looks like a header end, one with a body of one byte whose header holds
`sip:hotel:2` before its length, and a keep-alive: two
consecutive units in one segment, and one unit in many, are the cases the parser
tells apart. `reading`, the age of the current header, is counted no further than
one past `MessageTimeout`.

The supervisor has the real default of three restarts (`MaxRestarts`); four
crashes exceed it, and three copies at two receivers let one start a transaction,
one meet its crash and one meet the restart. `header_codec` composes all values
of up to four symbols (`MaxLen`) over an alphabet per field of the symbols that
the parser or the writer treats specially: an opening and a closing mark, an
escape, and a symbol for them to act on. `IntMax` is 6159 in place of 2147483647,
so that four digits reach the limit and exceed it, in the last digit and in the
one before it, which are the two comparisons of the code. The second of two
hops (`MaxHops`) repeats what the first one wrote, and what is stable there stays
so. `message_parser` has up to three lines (`MaxPieces`) out of twelve: any two
that interact with one before or between them. `date_parser` has the forms that the
comment of the code lists at five moments around leap days and turns of the year,
seven moments at the limits of the year, all orders of six tokens, and all
strings of up to three out of fifteen scraps, which have no meaning but must be
read to an end. `MaxIterations` is 8 in place of 1000, and one text reaches it.

**Deadlock** is not checked where the system may stop: a transaction ends, a
transport that crashed does nothing, copies of a request no longer come, a value
has passed its last element. It is checked of the message and the date parser,
whose last states have a step of their own.

**Fairness.** A transaction handles a message in its mailbox and a timer that is
due, and time advances; this is the scheduling of the Erlang VM. Nothing is
assumed of the peer, the network or the core: `MovesOn` and `AnswersOrEnds` say
what happens without them, and proceeding, which has no timer, is excluded
(`lib/sippet.ex` says so of `terminate/2`). In the TCP transport a `:DOWN` is
handled in the end because a mailbox is a queue (strong fairness: the handler is
only enabled when the transport is idle), a call to a connection ends because it
has a timeout, and a sweep that has begun is finished. No fairness is assumed of
the beginning of a sweep, so that `DeadLeavePool` holds without another one. In the
supervision every process takes its next step and the supervisor handles every
message; nothing makes a transaction end or crash, or a copy arrive. The parsers
are sequential and need no fairness: `ConsumesText`, which is proved, and `ScanAdvances` say that
each step of a loop comes nearer to its end.

## Proofs

The assumptions are those the modules name: positive timers
(`TimerAssumption`), status codes from 100 to 699 (`ResponseAssumption`,
`ExchangeAssumption`), natural bounds (`MailboxAssumption`), and for the pool a
natural `max_connections`, a positive `conns_per_peer` and a `None` that is no
peer and no pid (`PoolAssumption`). A connection has positive timeouts
(`ConnectionAssumption`), and its peer writes keep-alives and messages with CRLF
line ends and the body that their own `Content-Length` declares
(`UnitsAssumption`, with `WellFramed`); what other text the pattern for the length
matches in them is not restricted. A date is any
sequence of the characters and words that the parser tells apart
(`DatesAssumption`), and a line of a message any sequence of symbols
(`TextsAssumption`). Nothing is assumed about the order or number
of casts. Each theorem follows from an inductive invariant `Inv` that adds to the
properties what the state of the process says about its history. Those of
the exchange, the supervision and the pool were first checked by TLC on the
instances of the runs.

* `ClientInviteProofs`: `TypeCorrect`, `OneOutcome`, `CallingIsBounded`,
  `NoEarlyTimeout`, `ImplementsPromise`. `OutcomeByState` says which callbacks
  were made in which state, which makes "one outcome" inductive and gives the
  step simulation of the promise; a crash counts as an end (`ExitEffect`). `TimerAccount` ties the time spent in calling
  to the timer: the ticks waited are those accounted for by `passed` plus the
  part of the running delay that has gone by, and the running delay is at most
  what was accounted for before it plus `TimerA`, because the delay doubles.
  From this follow the bound `2 * TimerB + TimerA - 2` and that no timeout is
  early.
* `ServerInviteProofs`: `TypeCorrect`, `CompletedIsBounded`, `NoEarlyTimeout`,
  `OnlyCopies`, `ImplementsPromise`. `AnswerByState` says in which states there
  is a final response and that a live process has reported nothing.
  `TimerAccount` is the same account for timer H; since each wait is at most
  `T2`, completed outlasts timer H by less than `T2`.
* `ClientNonInviteProofs`: `TypeCorrect`, `NoLateRequest`, `ImplementsPromise`,
  `TimersStayAlive`. For the first three `OutcomeByState` suffices: a `:retry` or
  `:deadline` that survives its cancellation is handled in completed, where
  nothing is sent or reported. `TimersAlive` is itself inductive together with
  `Inv`; it is about the positions of timer messages in the mailbox, and lemmas
  say how these move when a message is appended or the first one is taken
  (`Chain`, `AppendPositions`, `TailPositions`): a timer that fires becomes the
  only message of its kind, and only that message starts the next one.
* `ServerNonInviteProofs`: `TypeCorrect`, `Silence`, `ImplementsPromise`, from
  `AnswerByState` and `GoneIsSilent` (a process that stopped or crashed has no
  mailbox and no timer).
* `ParserProofs`: `KeepsInstant` (`SameInstant`) and `EndsNormalized`
  (`Normalized`), from `NormalizeInvariant`. No constants and no assumptions:
  they hold of every time that `IsExploded` describes, the fields that the
  digits of a date can make. `Inv` adds how far each field may be out of its
  range at each step, since a carry into a 16-bit field must not wrap; the
  account of the months that the loops pass (each has 28 days at least, so the
  month number is bounded by the days left); that the place in time, as a day
  and a second of it, is that of `origin`; and that the days of the year and the
  week are right at the end. Where the year itself leaves 16 bits
  (`YearFits` is false) the date is still one of the calendar, at another
  instant.

  `DateCallsAreBounded` (`CallsAreBounded`) says that `DateParser` calls it with
  nothing else, whatever the text, and so implements `NormalizeTime`;
  `DatesKeepInstant` is what then holds of the parser. `DateScanAdvances`
  (`ScanAdvances`) says that no loop of the parser stands still. `DateInv` adds
  to `Inv` the ranges of the fields that the scan sets (`FieldsOK`), that follow
  from how many digits each clause takes (`DigitsEndFacts`, `NumberBound`), and
  that no call is in progress while the text is scanned (`ScanOK`). It also says
  that the text is one of `Symbols`, which the next element needs of the date
  that this one wrote (`WrittenText`), since every position then has a kind, and
  the searches for the end of a token find one (`TokenEndFacts`,
  `NextTokenMoves`). A sign is the one character that the search for the next
  token does not leave behind, and its clause skips it.

  `AnyTextUnfolds` (`UnfoldsLines`) is about `AssembleRawHeaders`, for any start
  lines, pieces and number of pieces. `ParserInv` says that between two rounds of
  the loop there is a position up to which the text has been unfolded
  (`AssembledTo`): what is left to read is the text from there on, no carriage
  return before it is bare, and the output has the kept symbols before it, in
  order. `Kept` counts these, so a line adds as many as it is long (`KeptLine`)
  and a break one or none (`KeptNext`). A round moves the position to the next
  line (`AssembleLineStep`), whichever line break comes and whether or not a
  continuation follows.

  `ConsumesAnyText` (`ConsumesText`) gives a measure to the whole of `Parse`. A
  round of the assembly leaves a shorter text (`RestIsShorter`), the unfolded
  text is no longer than the received one (`OutputBound`), and there are no more
  lines in a text than symbols (`TokensFacts`). The last is about two recursive
  functions, the end of a token and the tokens from a position on: `EndsExist`
  and `ChainExists` show that there are functions which satisfy the equations,
  `EndsFacts` and `ChainFacts` what these return, by the least position from the
  end at which it would be wrong (`LeastOf`).
* `InviteExchangeProofs`: `AckIsEvidence` (`AckMeansFinal`), `CoresAgree`
  (`AgreeOnFinal`), `HeardOnce` (`FinalOnce`) and `ImplementsClientInvite`. The
  three properties speak of two processes and are not inductive: what one side
  knows of the other came in a datagram, and was cast to a mailbox after that.
  So `TypeInv` says that a response or an ACK in a mailbox has been on the wire,
  `Evidence` what is true once a final response or an ACK is on the wire,
  `OneAnswer` that the first server transaction, while it is the only one, has
  put no final response on the wire but its own, and `HeardByState` what the
  calling core has heard in which state. All of these survive duplication and
  reordering because the wire only grows. `ImplementsClientInvite` is a step
  simulation: every step of the exchange is for the client a step of
  `ClientInvite` or none, so that what is proved of `ClientInvite` for any
  environment holds in the exchange.
* `TransactionSupervisionProofs`: `OneTransactionAtATime` (`OneTransaction`),
  `CallersAreKnown`, `CollapseNeedsCrashes` (`CollapseExplained`). One live
  process is inductive by the Registry name alone (`OneAlive`). The collapse
  needs `SingleCopy`: as long as there was one copy, exactly one of a receiver
  asking, a live process and an unhandled crash can exist, so that no restart
  finds its name taken and each restart has a crash of its own
  (`restarts <= crashes`).
* `TcpProofs`, the pool: `PoolStaysConsistent` (`PoolConsistent`) and
  `PoolKeepsToLimit` (`PoolBounded`). A failed send brings back the state that
  the handler began with, so `Inv` must say of that remembered state (`CallOK`)
  what it says of the current one: no duplicates, every pid with its own peer,
  monitored or dead, within the limit (`PoolOK`), and that it misses no connection but
  the one that is being called (`Covers`), which is about to stop when the send
  fails. A reply unblocks the connection that made the call; `CallersBlocked` and
  `Waits` say that it has one call only, and therefore that it is still blocked.
  The limit is proved of the number of pids, which a pool without duplicates has
  as many of as places (`TotalIsPids`, by an injection that is onto).
  `FilterFacts` says what `Enum.filter/2` returns for a list of any length.
* `TcpProofs`, one connection: `ConnectionWakesWhenDue` (`WakesWhenDue`),
  `ConnectionReadsHeaderInTime` (`HeaderReadInTime`), `ConnectionFramesAsSent`
  (`FramedAsSent`). The first two need `TimersInv`: a timer is either running or
  its message is in the mailbox, once, and likewise for the keep-alive and for
  the passive socket (`MailboxOK`); the selective receive takes out exactly that
  message (`WithoutWaiting`). A running message timer and the age of the header
  together are at most `MessageTimeout`.

  The third one needs `FramingInv`. `StreamWell` says that the stream consists
  of the intended messages and line ends between them; `FirstSent` that what was
  delivered are the first of them. `Framed` finds the place of the process in
  the stream: there is a position between two messages from which the header,
  the buffer and then the segments in the mailbox are, one after the other, the
  bytes up to `taken`. `Settled` says what `parse/1` can have left when it
  returns, from which "none is held back" follows. The step that needs an
  argument is the end of a header (`HeaderFound`): what `find_header_end/1` finds
  in such a buffer is the end of the next message's header, and never one in a
  body or across a border, or else lies among the line ends before the message.
  That happens when a CR comes without its LF: it begins a header of line ends
  alone, which the router drops.

  A message whose length is misread ends all this, since nothing is known of what
  the code makes of the rest of the stream. So the invariant is `FramingInv` or
  `LostInv`: there is a misread message, and what was delivered before it are the
  messages before it. `FramedAsSent` claims no more than that, and claims it of
  every stream; that the exception is no wider than what the code does wrong is
  `BodyAsDeclared`, which is model-checked.

`TypeOK` of the transactions, `ExactlyOneOutcome`, `SilentAfterFinal` and
`ConsumesText` are proved for all constants and not model-checked again.

**Induction.** The library's induction theorems take an operator as a parameter,
which the provers do not instantiate. `Induction` in `TcpProofs` states
the principle for a set instead (a set of naturals with 0 and all successors is
`Nat`), from the well-foundedness of `<`. With it `KeptDef` shows that a recursive
function satisfies its equation, and `FilterFacts` goes over the prefixes of a
list. `LeastOf` in `ParserProofs` is used in the same way for the tokens of a text.

**Only model-checked.** Liveness (`MovesOn`, `AlwaysEnds`, `AnswersOrEnds`,
`EndsAfterFinal`, `DeadLeavePool`, `RestartSettles`, `EventuallyTold`): fairness
is out of the prover's reach. The properties of `HeaderCodec` and, of `MessageParser`,
`ParsesEveryLine`, which compare two definitions of one text, the peer's and the
parser's, symbol by symbol: an induction for each of the many functions between
the two. `BodyAsDeclared`, which only says how exact `FramedAsSent` is. Of
`DateParser`, `ReadsAsMeant` and `KeepsDate`, which are about the texts of the run
and what each of them means.

## Disagreements between code and documentation

One is a finding with a violation run:

1. A 400 for a malformed request over TCP is sent from the process of the
   connection, which the transport then calls (`router.ex:79`, `:105`).

The others are exact in the properties of passing runs, or are steps of a model:

2. Timer B is compared only when a retransmission is due. With the defaults an
   INVITE times out after 63.5 s instead of 32 s (`timers.ex:13`).
   `CallingBounded` is the exact bound. (Timer H is compared in the same way,
   but there the overshoot is less than T2.)
3. The core is given copies of provisional responses in proceeding, and of any
   response after the transaction ended (`sippet.ex:100`). `FinalOnce` is what
   remains.
4. The fall-back to the Via-derived target (`tcp.ex:409`) does not happen when
   the connection is about to stop: the call exits and the transport goes down
   (`ConnectionStops`, `Crash`).
5. `:message_timeout` (`tcp.ex:17`) does not bound the reading of a header when
   something is sent meanwhile; `HeaderReadInTime` excludes that.
6. One crash is enough to bring the DynamicSupervisor and all its transactions
   down, if a copy of the request takes the name before the restart: the retries
   use up `max_restarts` at once (`CollapseExplained` excludes further copies).
7. `ParseHostAndPort` keeps the brackets of an IPv6 address (`utils.h:103`).
8. The errors of a header come wrapped twice, `{:error, {:error, atom}}`, unlike
    the `@spec` at `message.ex:1219`.
9. Not read as meant (`Readable`): an apostrophe in a display name or an unquoted
    parameter, a comma in a URI, marks inside a quoted authentication parameter,
    which is unquoted twice.
10. Not relayed as read (`Relayable`): marks and backslashes in display names,
    warning texts and parameters, which are written without escapes, an unquoted
    Authentication-Info, port 0, the minor MIME version (a byte), an Alert-Info
    URI without its brackets, an empty Content-Type, on which the writer raises.
11. A date outside the years 1000 to 9999 does not survive a relay. A dash after
    a zone before the year is known is skipped, so "GMT-0800" there is GMT. Month
    0 is December of the year before. A year of 32767 can wrap when it carries.
12. A connection that dies between the two loops of a sweep (`tcp.ex:691`, `:696`)
    stays in the pool without a monitor and its `:DOWN` is ignored (`tcp.ex:352`);
    the next sweep drops it. `DeadLeavePool` excepts it.
13. A send over TCP that exits ends its transaction (`router.ex:263`). The process
    that is started in its place sends the request again, and a core that had the
    final response may be told a second outcome. `ClientPromise` is the promise of
    one process.
14. The content length of a message over TCP is the first match of a pattern that
    is not anchored (`connection.ex:212`; `:193` promises the Content-Length bytes):
    `sip:hotel:5060` or `X-Total: 3` before the header, or without one, is taken for
    it. `FramedAsSent` holds up to the first such message, and `BodyAsDeclared` says
    that it is cut off wrongly.
15. `IsLWS` takes a NUL for white space (`utils.cc:361`; `utils.h:59` says SP or
    HT), so a line that begins with one is joined to the line before it
    (`FoldsAtWhiteSpace`).

## Not modelled, and the plan

Not modelled: Timestamp (it reads doubles with the C++ library), the parsing of
URIs (Elixir's `URI`), the accessors, validation and `to_response` of messages, the
preparation of messages in the router (Via, destination), digest authentication
(hashes would be uninterpreted, which leaves the order of their arguments), the
resolution of timer options, socket policy and the start of transports (I/O), the
local-time branch and `PR_ImplodeTime` of `prtime.cc` (never called),
`string_piece` (a string view), logging and telemetry. Sharded mode is outside
this repository.

Plan, in order:

1. `MessageRules`: header operations, validation, `to_response`
   (`lib/sippet/message.ex`); `RouterPrepare`: Via update, destination and 400
   (`router.ex`); ACK construction (`client/invite.ex`) and transaction keys. All
   as operators checked over bounded messages: an ACK and a response have the
   key of the transaction they belong to, a valid request has a valid response.
2. `NonInviteExchange`: the non-INVITE client and server over the network.
3. `DigestAuth`: challenge and response with uninterpreted hashes.
4. Proofs: `BadRequestCanLeave` turned round, that the transport and a
   connection wait for one another only over a message to the connection's own
   peer; that the date which the writer writes of a year of four digits is read
   as the same one, whatever the year, which is half of `KeepsDate`.
