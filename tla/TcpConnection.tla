---------------------------- MODULE TcpConnection ----------------------------
(***************************************************************************)
(* One TCP connection process (lib/sippet/transports/tcp/connection.ex):   *)
(* the framing of the byte stream into SIP messages, the idle and message  *)
(* timers, the CRLF keep-alive and the {:active, n} flow of the socket.    *)
(*                                                                         *)
(* The peer writes messages and keep-alives to its stream, which the       *)
(* network cuts into segments anywhere.  A byte is one of "CR", "LF" and   *)
(* "x"; the members of DOMAIN Lengths stand for the text that the content  *)
(* length pattern matches, with the number it yields.  The pattern is not  *)
(* anchored: it matches a Content-Length or l header (LengthHeaders), and  *)
(* as well "sip:hotel:5060" or "X-Total: 3".                               *)
(*                                                                         *)
(* A timer that expires puts its message in the mailbox; cancel_timer/1    *)
(* takes that message out again with a selective receive.  parse/1 is one  *)
(* action per clause: it calls itself until it returns, and while it does  *)
(* so the peer, the socket and the timers go on putting messages in the    *)
(* mailbox.                                                                *)
(***************************************************************************)
EXTENDS Integers, Sequences, SequencesExt

CONSTANTS
    Units,              \* what the peer writes: messages and keep-alives
    Lengths,            \* text that the content length pattern matches -> number
    LengthHeaders,      \* such text that is a Content-Length header
    MaxUnits,           \* bound: units the peer writes
    IdleTimeout,        \* option idle_timeout, in ticks
    MessageTimeout,     \* option message_timeout
    KeepaliveInterval,  \* 0 when keep-alive is disabled
    ActiveN,            \* segments the socket delivers before it turns passive
    MaxMailbox          \* bound: messages from outside wait for a shorter mailbox

ASSUME ConnectionAssumption ==
    /\ {IdleTimeout, MessageTimeout, ActiveN} \subseteq Nat \ {0}
    /\ KeepaliveInterval \in Nat
    /\ MaxMailbox \in Nat \ {0}
    /\ MaxUnits \in Nat
    /\ Lengths \in [DOMAIN Lengths -> Nat]
    /\ LengthHeaders \subseteq DOMAIN Lengths
    /\ {"CR", "LF", "x"} \cap DOMAIN Lengths = {}

VARIABLES
    status,    \* "new" until :activate is handled, "open", "stopped"
    state,     \* the process state and its mailbox
    parsing,   \* the process is inside parse/1
    active,    \* segments the socket still delivers
    stream,    \* bytes the peer has written
    taken,     \* how many of them the socket has delivered
    unsent,    \* units the peer may still write
    intended,  \* where the messages lie in the stream
    delivered, \* messages the router got, as it sees them
    reading    \* ticks since the header now being read began; counts
               \* no further than one past MessageTimeout

connectionVars == <<status, state, parsing, active, stream, taken, unsent,
                    intended, delivered, reading>>

Bytes == {"CR", "LF", "x"} \cup DOMAIN Lengths
Ping == <<"CR", "LF", "CR", "LF">>

Tcp(data) == [type |-> "tcp", data |-> data]
Message(type) == [type |-> type, data |-> <<>>]
Expiries == {"idle_timeout", "message_timeout"}
MessageTypes ==
    Expiries \cup {"activate", "tcp", "tcp_passive", "tcp_closed", "send",
                   "force_close", "keepalive"}

Mail == [type : MessageTypes, data : Seq(Bytes)]

Off == -1
NoTimer == [kind |-> "none", left |-> Off]

\* A message of the peer's, as the bytes after `start` up to `end`.
Span(start, end) == [start |-> start, end |-> end]
Sent(span) == SubSeq(stream, span.start + 1, span.end)

States ==
    [mailbox : Seq(Mail), buffer : Seq(Bytes),
     parse_state : {"idle", "read_header", "read_body"},
     header : Seq(Bytes), clen : Nat,
     timer : [kind : Expiries \cup {"none"}, left : Nat \cup {Off}],
     keepalive : Nat \cup {Off}]

StateOK ==
    /\ status \in {"new", "open", "stopped"}
    /\ state \in States
    /\ parsing \in BOOLEAN
    /\ active \in 0..ActiveN
    /\ stream \in Seq(Bytes)
    /\ taken \in 0..Len(stream)
    /\ unsent \in Nat
    /\ intended \in Seq([start : Nat, end : Nat])
    /\ delivered \in Seq(Seq(Bytes))
    /\ reading \in Nat

-----------------------------------------------------------------------------
(* Timers. *)

IsExpiry(message) == message.type \in Expiries
IsKeepalive(message) == message.type = "keepalive"

\* Mutant: the expired timer's message is left in the mailbox.
CancelTimerNoFlush(s) == s

\* cancel_timer/1: the timer is stopped and its message, if it is already in
\* the mailbox, is received.
CancelTimer(s) ==
    IF s.timer = NoTimer THEN s
    ELSE [s EXCEPT !.mailbox = RemoveFirstMatch(@, IsExpiry)]

\* set_idle_timer/1
SetIdleTimer(s) ==
    [CancelTimer(s) EXCEPT !.timer = [kind |-> "idle_timeout",
                                      left |-> IdleTimeout]]

\* Mutant: the message timer runs for idle_timeout.
SetMessageTimerIdle(s) ==
    [CancelTimer(s) EXCEPT !.timer = [kind |-> "message_timeout",
                                      left |-> IdleTimeout]]

\* set_message_timer/1
SetMessageTimer(s) ==
    [CancelTimer(s) EXCEPT !.timer = [kind |-> "message_timeout",
                                      left |-> MessageTimeout]]

\* schedule_keepalive/1, with cancel_keepalive/1
ScheduleKeepalive(s) ==
    IF KeepaliveInterval = 0 THEN s
    ELSE [s EXCEPT !.keepalive = KeepaliveInterval,
                   !.mailbox = RemoveFirstMatch(@, IsKeepalive)]

-----------------------------------------------------------------------------
(* Framing. *)

\* Mutant: only the end of the buffer is looked at.
FindHeaderEndAtTail(buffer) ==
    IF IsSuffix(Ping, buffer) THEN Len(buffer) ELSE 0

\* Index of the last byte of the first occurrence of `separator`, 0 for none.
EndOf(separator, buffer) ==
    LET ends == {i \in Len(separator)..Len(buffer) :
                   SubSeq(buffer, i - Len(separator) + 1, i) = separator}
    IN  IF ends = {} THEN 0 ELSE Min(ends)

\* find_header_end/1: CRLF CRLF anywhere, and only then LF LF
FindHeaderEnd(buffer) ==
    IF EndOf(Ping, buffer) # 0 THEN EndOf(Ping, buffer)
    ELSE EndOf(<<"LF", "LF">>, buffer)

IsLength(byte) == byte \in DOMAIN Lengths

\* extract_content_length/1: the first match anywhere in the header, or no body
ContentLength(header) ==
    LET first == SelectInSeq(header, IsLength)
    IN  IF first = 0 THEN 0 ELSE Lengths[header[first]]

\* Bytes of the line end, LF or CR LF, that `bytes` begins with, 0 for none.
LeadingLineEnd(bytes) ==
    IF Len(bytes) >= 1 /\ bytes[1] = "LF" THEN 1
    ELSE IF Len(bytes) >= 2 /\ bytes[1] = "CR" /\ bytes[2] = "LF" THEN 2 ELSE 0

\* The bytes after the first `from` up to `to` are line ends and nothing else.
LineEnds(bytes, from, to) ==
    \A i \in (from + 1)..to :
      \/ bytes[i] = "LF"
      \/ i < to /\ bytes[i] = "CR" /\ bytes[i + 1] = "LF"

\* Router.handle_transport_message/4 drops the line ends before a message.
StripLines(raw) ==
    SubSeq(raw, Max({n \in 0..Len(raw) : LineEnds(raw, 0, n)}) + 1, Len(raw))

\* deliver_message/3; the router ignores a message of line ends alone
Deliver(messages, raw) ==
    IF StripLines(raw) = <<>> THEN messages
    ELSE Append(messages, StripLines(raw))

\* The length that the message's own Content-Length header declares, 0 for none.
IsLengthHeader(byte) == byte \in LengthHeaders

Declared(header) ==
    LET first == SelectInSeq(header, IsLengthHeader)
    IN  IF first = 0 THEN 0 ELSE Lengths[header[first]]

\* A message as a peer writes it: it begins with text, its header ends with the
\* first CRLF CRLF, and as many bytes follow as its Content-Length declares.
WellFramed(message) ==
    LET end == EndOf(Ping, message)
        header == SubSeq(message, 1, end)
    IN  /\ LeadingLineEnd(message) = 0
        /\ end # 0
        /\ EndOf(<<"LF", "LF">>, header) = 0
        /\ Declared(header) = Len(message) - end

\* Other text of the header stands where the code looks for the length.
Misread(message) ==
    LET header == SubSeq(message, 1, EndOf(Ping, message))
    IN  ContentLength(header) # Declared(header)

\* The peer writes keep-alives, in any form, and messages.
ASSUME UnitsAssumption ==
    \A unit \in Units :
      /\ unit \in Seq(Bytes)
      /\ LineEnds(unit, 0, Len(unit)) \/ WellFramed(unit)

-----------------------------------------------------------------------------
ConnectionInit ==
    /\ status = "new"
    /\ state = [mailbox |-> <<Message("activate")>>, buffer |-> <<>>,
                parse_state |-> "idle", header |-> <<>>, clen |-> 0,
                timer |-> NoTimer, keepalive |-> Off]
    /\ parsing = FALSE
    /\ active = 0
    /\ stream = <<>> /\ taken = 0 /\ unsent = MaxUnits
    /\ intended = <<>>
    /\ delivered = <<>>
    /\ reading = 0

-----------------------------------------------------------------------------
(* The peer, the socket, the timers and the transport. *)

PeerWrites(unit) ==
    /\ status # "stopped"
    /\ unsent > 0
    /\ unsent' = unsent - 1
    /\ stream' = stream \o unit
    /\ intended' = IF LineEnds(unit, 0, Len(unit)) THEN intended
                   ELSE Append(intended, Span(Len(stream), Len(stream) + Len(unit)))
    /\ UNCHANGED <<status, state, parsing, active, taken, delivered, reading>>

Post(message) == state' = [state EXCEPT !.mailbox = Append(@, message)]

\* The socket delivers the next `n` bytes, and turns passive after ActiveN
\* segments.
Arrive(n) ==
    /\ status = "open"
    /\ active > 0
    /\ Len(state.mailbox) < MaxMailbox
    /\ taken' = taken + n
    /\ active' = active - 1
    /\ state' = [state EXCEPT !.mailbox =
                 @ \o <<Tcp(SubSeq(stream, taken + 1, taken + n))>>
                   \o IF active = 1 THEN <<Message("tcp_passive")>> ELSE <<>>]
    /\ UNCHANGED <<status, parsing, stream, unsent, intended, delivered, reading>>

\* The peer closes; the bytes still under way are lost.
PeerCloses ==
    /\ status = "open"
    /\ active > 0
    /\ Len(state.mailbox) < MaxMailbox
    /\ Post(Message("tcp_closed"))
    /\ active' = 0
    /\ unsent' = 0
    /\ UNCHANGED <<status, parsing, stream, taken, intended, delivered, reading>>

\* The transport sends or force-closes.
FromTransport(type) ==
    /\ status # "stopped"
    /\ Len(state.mailbox) < MaxMailbox
    /\ Post(Message(type))
    /\ UNCHANGED <<status, parsing, active, stream, taken, unsent, intended,
                   delivered, reading>>

FireTimer ==
    /\ status = "open"
    /\ state.timer.left = 0
    /\ state' = [state EXCEPT !.timer = [@ EXCEPT !.left = Off],
                              !.mailbox = Append(@, Message(state.timer.kind))]
    /\ UNCHANGED <<status, parsing, active, stream, taken, unsent, intended,
                   delivered, reading>>

FireKeepalive ==
    /\ status = "open"
    /\ state.keepalive = 0
    /\ state' = [state EXCEPT !.keepalive = Off,
                              !.mailbox = Append(@, Message("keepalive"))]
    /\ UNCHANGED <<status, parsing, active, stream, taken, unsent, intended,
                   delivered, reading>>

Elapse(left) == IF left = Off THEN Off ELSE left - 1

Tick ==
    /\ status = "open"
    /\ state.timer.left # 0 /\ state.keepalive # 0
    /\ state.timer.left # Off \/ state.keepalive # Off
    /\ state' = [state EXCEPT !.timer = [kind |-> state.timer.kind,
                                         left |-> Elapse(state.timer.left)],
                              !.keepalive = Elapse(state.keepalive)]
    /\ reading' = IF state.parse_state = "read_header"
                       /\ reading <= MessageTimeout
                     THEN reading + 1 ELSE reading
    /\ UNCHANGED <<status, parsing, active, stream, taken, unsent, intended,
                   delivered>>

-----------------------------------------------------------------------------
(* The callbacks of the process. *)

Gets(type) ==
    /\ status # "stopped"
    /\ ~parsing
    /\ state.mailbox # <<>>
    /\ Head(state.mailbox).type = type

Received == [state EXCEPT !.mailbox = Tail(@)]

\* {:stop, :normal, state}: terminate/2 closes the socket
Stop ==
    /\ status' = "stopped"
    /\ active' = 0
    /\ state' = [state EXCEPT !.mailbox = <<>>, !.timer = NoTimer,
                              !.keepalive = Off]
    /\ UNCHANGED <<parsing, stream, taken, unsent, intended, delivered, reading>>

\* handle_cast(:activate)
Activate ==
    /\ Gets("activate")
    /\ status' = "open"
    /\ active' = ActiveN
    /\ state' = ScheduleKeepalive(SetIdleTimer(Received))
    /\ UNCHANGED <<parsing, stream, taken, unsent, intended, delivered, reading>>

\* handle_info({:tcp, _, data}), up to the call of parse/1
HandleData ==
    /\ Gets("tcp")
    /\ state' = [Received EXCEPT !.buffer = @ \o Head(state.mailbox).data]
    /\ parsing' = TRUE
    /\ UNCHANGED <<status, active, stream, taken, unsent, intended, delivered,
                   reading>>

\* handle_info({:tcp_passive, _})
HandlePassive ==
    /\ Gets("tcp_passive")
    /\ active' = active + ActiveN
    /\ state' = Received
    /\ UNCHANGED <<status, parsing, stream, taken, unsent, intended, delivered,
                   reading>>

\* handle_call({:send, _}): on an error the process replies and stops
HandleCallSend ==
    /\ Gets("send")
    /\ \/ Stop
       \/ /\ state' = SetIdleTimer(Received)
          /\ UNCHANGED <<status, parsing, active, stream, taken, unsent,
                         intended, delivered, reading>>

\* handle_info(:keepalive)
HandleKeepalive ==
    /\ Gets("keepalive")
    /\ \/ Stop
       \/ /\ state' = ScheduleKeepalive(Received)
          /\ UNCHANGED <<status, parsing, active, stream, taken, unsent,
                         intended, delivered, reading>>

\* handle_info of :tcp_closed, :tcp_error, :idle_timeout and :message_timeout,
\* and handle_cast(:force_close)
HandleStop ==
    /\ \E type \in Expiries \cup {"tcp_closed", "force_close"} : Gets(type)
    /\ Stop

-----------------------------------------------------------------------------
(* The clauses of parse/1. *)

Parses(parse_state) == parsing /\ state.parse_state = parse_state

\* An idle connection with an empty buffer waits for more data.
ParseEmpty ==
    /\ Parses("idle")
    /\ state.buffer = <<>>
    /\ state' = SetIdleTimer(state)
    /\ parsing' = FALSE
    /\ UNCHANGED <<status, active, stream, taken, unsent, intended, delivered,
                   reading>>

\* A line end before a message is stripped; a CRLF is answered with a CRLF.
ParseLineEnd ==
    /\ Parses("idle")
    /\ LeadingLineEnd(state.buffer) # 0
    /\ state' = [state EXCEPT !.buffer =
                  SubSeq(@, LeadingLineEnd(@) + 1, Len(@))]
    /\ UNCHANGED <<status, parsing, active, stream, taken, unsent, intended,
                   delivered, reading>>

\* Anything else begins a header.
ParseBegin ==
    /\ Parses("idle")
    /\ state.buffer # <<>>
    /\ LeadingLineEnd(state.buffer) = 0
    /\ state' = SetMessageTimer([state EXCEPT !.parse_state = "read_header"])
    /\ reading' = 0
    /\ UNCHANGED <<status, parsing, active, stream, taken, unsent, intended,
                   delivered>>

\* The header is cut off where it ends.  One without a content length has an
\* empty body, which the next clause delivers at once.
ParseHeader ==
    LET end == FindHeaderEnd(state.buffer)
        header == SubSeq(state.buffer, 1, end)
    IN  /\ Parses("read_header")
        /\ \/ /\ end = 0
              /\ parsing' = FALSE
              /\ UNCHANGED state
           \/ /\ end # 0
              /\ state' = [state EXCEPT !.parse_state = "read_body",
                                        !.buffer = SubSeq(@, end + 1, Len(@)),
                                        !.header = header,
                                        !.clen = ContentLength(header)]
              /\ UNCHANGED parsing
        /\ UNCHANGED <<status, active, stream, taken, unsent, intended,
                       delivered, reading>>

\* Mutant: all that is in the buffer goes out as the body.
ParseBodyGreedy ==
    /\ Parses("read_body")
    /\ \/ /\ Len(state.buffer) < state.clen
          /\ parsing' = FALSE
          /\ UNCHANGED <<state, delivered>>
       \/ /\ Len(state.buffer) >= state.clen
          /\ delivered' = Deliver(delivered, state.header \o state.buffer)
          /\ state' = [state EXCEPT !.parse_state = "idle", !.buffer = <<>>,
                                    !.header = <<>>, !.clen = 0]
          /\ UNCHANGED parsing
    /\ UNCHANGED <<status, active, stream, taken, unsent, intended, reading>>

\* The message is delivered when its body is complete.
ParseBody ==
    /\ Parses("read_body")
    /\ \/ /\ Len(state.buffer) < state.clen
          /\ parsing' = FALSE
          /\ UNCHANGED <<state, delivered>>
       \/ /\ Len(state.buffer) >= state.clen
          /\ delivered' = Deliver(delivered,
                            state.header \o SubSeq(state.buffer, 1, state.clen))
          /\ state' = [state EXCEPT !.parse_state = "idle",
                         !.buffer = SubSeq(@, state.clen + 1, Len(@)),
                         !.header = <<>>, !.clen = 0]
          /\ UNCHANGED parsing
    /\ UNCHANGED <<status, active, stream, taken, unsent, intended, reading>>

-----------------------------------------------------------------------------
Handle ==
    \/ Activate \/ HandleData \/ HandlePassive \/ HandleCallSend
    \/ HandleKeepalive \/ HandleStop

Parse == ParseEmpty \/ ParseLineEnd \/ ParseBegin \/ ParseHeader \/ ParseBody

ConnectionNext ==
    \/ \E unit \in Units : PeerWrites(unit)
    \/ \E n \in 1..(Len(stream) - taken) : Arrive(n)
    \/ PeerCloses
    \/ \E type \in {"send", "force_close"} : FromTransport(type)
    \/ FireTimer
    \/ FireKeepalive
    \/ Tick
    \/ Handle
    \/ Parse

ConnectionSpec == ConnectionInit /\ [][ConnectionNext]_connectionVars

-----------------------------------------------------------------------------
(* Properties. *)

\* Numbers of messages, from the first on, none of which is misread.
Clear ==
    {n \in 0..Len(intended) : \A i \in 1..n : ~Misread(Sent(intended[i]))}

\* However the stream is cut into segments, the router gets the messages that
\* the peer wrote, whole and in order, and nothing else, up to the first one in
\* whose header other text is taken for its length (extract_content_length/1);
\* keep-alives between them, a CR cut off from its LF and bodies that look like a
\* header end included.  When all of the stream has been handled, all of them were
\* delivered: no message waits in the buffer for the next one to arrive.
FramedAsSent ==
    /\ \A i \in DOMAIN delivered :
         \/ i \in DOMAIN intended /\ delivered[i] = Sent(intended[i])
         \/ i \notin Clear
    /\ Len(delivered) > Len(intended) => Len(intended) \notin Clear
    /\ status = "open" /\ ~parsing /\ taken = Len(stream)
         /\ (\A i \in DOMAIN state.mailbox : state.mailbox[i].type # "tcp")
         => \A n \in Clear : n <= Len(delivered)

\* "Read body: accumulate until Content-Length bytes received"
\* (lib/sippet/transports/tcp/connection.ex:193) is not what the code does of the
\* first misread message, and only of that one: it is the one whose body, as the
\* router gets it, has another length than its Content-Length header declares.
\* FramedAsSent excepts no message but those that the code cuts off wrongly.
BodyAsDeclared ==
    \A i \in DOMAIN delivered \cap DOMAIN intended :
      i - 1 \in Clear =>
        LET message == delivered[i]
            end == EndOf(Ping, message)
        IN  Misread(Sent(intended[i])) <=>
              Len(message) - end # Declared(SubSeq(message, 1, end))

\* Where the messages of the given types are in the mailbox.
Waiting(types) ==
    {i \in DOMAIN state.mailbox : state.mailbox[i].type \in types}

\* An open connection has exactly one timer, running or with its message in
\* the mailbox: no timeout of an earlier timer can stop it, and it is never
\* left without one.  The keep-alive likewise, when enabled.
OneTimer ==
    status = "open" =>
      /\ IF state.timer.left = Off
           THEN \E i \in DOMAIN state.mailbox :
                  /\ Waiting(Expiries) = {i}
                  /\ state.mailbox[i] = Message(state.timer.kind)
           ELSE Waiting(Expiries) = {}
      /\ KeepaliveInterval > 0 =>
           IF state.keepalive = Off
             THEN \E i \in DOMAIN state.mailbox : Waiting({"keepalive"}) = {i}
             ELSE Waiting({"keepalive"}) = {}

\* The socket is re-armed after every ActiveN segments: a connection whose socket
\* is passive has the message in its mailbox that re-arms or stops it, so it does
\* not go deaf while it keeps its place in the pool.
NeverDeaf ==
    status = "open" /\ active = 0 => Waiting({"tcp_passive", "tcp_closed"}) # {}

\* An open connection is woken by all that it waits for and by nothing that it
\* has given up, however sends, data, timeouts and keep-alives interleave.
WakesWhenDue == StateOK /\ OneTimer /\ NeverDeaf

\* A header that is not read within message_timeout finds the connection
\* stopped or about to stop, however the segments of it are spread, unless
\* a send has put the idle timer in the place of the message timer.
HeaderReadInTime ==
    reading > MessageTimeout /\ status = "open" /\ state.timer.kind = "message_timeout" =>
      \E i \in DOMAIN state.mailbox : state.mailbox[i] = Message("message_timeout")
=============================================================================
