# Verification of the remote screen capture client and server

TLA+ models of CPP_Remote_Screen_Capture, the TLC runs that check them on
small instances and the TLAPS proofs about them.  Line numbers refer to the
sources in `src/`.

## The system

A *client* connects to the *server*, authenticates with its host and user
name, and then sends a PNG of its screen every period.  The server is one
thread around edge-triggered epoll; it keeps one `Session` per connection and
writes each image to `screenshots/<host>/<user>/<time>_<peer>.png`.

| component | state it keeps | operations | talks to |
|---|---|---|---|
| `Server` (server.cc) | listening and epoll descriptors, `_fd_session_ht`, the batch of events at hand, `stop_flag` | `AcceptNewConnections`, `HandleEvent`, `HandleInEvent`, `HandleOutEvent`, `CloseSession`, `UpdateEpollEvents`, `EventLoop`, `signal_handler` | kernel, calls `Session` |
| `Session` (session.cc) | `_request`, the message being assembled, `_messages`, `_response`, host and user name, its descriptor | `TryRecv`, `ParseMessage`, `HandleAuthRequest`, `HandleImgMessage`, `SendAuthResponse`, `TrySend` | socket, file system |
| wire format (client.cc, session.cc) | none | `Create*`, `InsertToVector`; `Peek*`, `Pop*`, `ParseAuthMessage`, `IsValidName` | |
| `Client` (client.cc) | names, socket, `stop_flag` | `Run`, `TryAuthenticate`, `SendLoop`, `WaitLoop`, `SendAll`, `RecvAll` | socket, `ScreenGrabber` |
| `ScreenGrabber` | none between calls | `GrabAsPNG` and its steps | X server, stb |
| `InputParser` | options seen, host, port, period | `Parse` | `getopt_long` |
| `UniqueResource`, `ResourceFactory` | one resource and how to release it | construction, move, `Reset`, destruction | |
| `main` (both) | none | `Parse`, then `Run`; catches `invalid_argument` | |
| `Logger` | none | time stamps, formatting | terminal; gives `Session` its file names |

What is hard in it: TCP cuts messages up anywhere; epoll is edge triggered, so
whatever a handler leaves unread or unhandled is announced once only; answers
may have to wait for room; a peer may end between any two calls; descriptors
are reused; and a signal may come at any point.  What makes each part correct:

- *Session*: no byte lost or read twice, messages cut where their headers say,
  handled once and in order, the last answer is the last verdict, nothing left
  behind that no event announces, every handler returns unless a length of
  zero keeps it.
- *Server*: the table, epoll and the kernel agree; no event reaches the wrong
  session; no edge of a descriptor is lost, and none of the listening socket
  but by an error of `accept()`; a connection is accepted and served, and SIGINT
  ends a loop that is awake, as long as every handler comes back.
- *Wire format*: the server reads what the client wrote, and refuses the rest.
- *Client*: images only after a positive answer, whole messages only, SIGINT
  stops it unless it is blocked.  *InputParser*: `Parse` returns on the documented
  command lines only, with their values, and throws on the others, not always
  what is documented.
  *UniqueResource*: each resource is released exactly once.  *ScreenGrabber*:
  the bytes it hands on are the screen's, and no failure leaks a display.
- *Both programs*: a file is an image of the client it is filed under, in
  order, and only an image with the same name replaces it; a client that asks
  is answered or learns that it will not be, unless a handler hangs the server
  or an error of `accept()` leaves it queued.

PROJECT.json lists the hazards, each at its line with the properties that
would notice it.

## Modules

| module | what it is |
|---|---|
| `Wire` | the byte format, both directions, as operators; a byte has `Base` values |
| `MCWire` | enumerates pairs of names for `Wire` |
| `WireProofs` | theorems about `Wire` |
| `Session` | one connection, byte by byte, with the part of `Server` that drives it |
| `InOrderDelivery` | what a connection promises: complete messages handled in order, at most once, unaltered |
| `SessionDelivery` | the protocol's own framing of a stream, and `Session` as a refinement of `InOrderDelivery` |
| `MCSession` | streams to try, and what comments of the code say of them |
| `SessionProofs` | theorems about `Session` |
| `DeliveryProofs` | the proof of that refinement |
| `Server` | the event loop over all connections |
| `MCServer` | its bounds and symmetry |
| `ServerProofs` | theorems about `Server` |
| `UniqueResource` | owners of handles and their operations, as actions on any owners |
| `UniqueResourceProofs` | theorems about `UniqueResource` by itself |
| `InputParser` | the options of both programs, a word at a time |
| `InputParserProofs` | the loop of `Parse` against the documented syntax |
| `ScreenGrabber` | one grab, call by call, with the pixels' indices; extends `UniqueResource` |
| `Client` | the client program from `main` to its exit; extends `InputParser` and `ScreenGrabber` |
| `ClientProtocol` | what a server may expect of a client |
| `MCClient` | command lines and screens to try |
| `ClientProofs` | theorems about `Client` and the modules it extends |
| `System` | clients and server composed, message by message, down to the files |
| `Archive` | what the two programs promise together |
| `MCSystem` | couples of clients to try |
| `SystemProofs` | theorems about `System` |

**Wire.**  `InsertToVector` is `Insert16` and `Insert32`, with the truncation
to the field's width.  `NamePresent`, `Name` and `AfterName` are `PopUint16`
followed by `PopString`; a short buffer, where these throw, is
`~NamePresent`.  `ParseAuthMessage` stores each name before it validates it,
which `HostnameStored` and `UsernameStored` keep.

**Session.**  The peer intends to write a `stream` of bytes; `sent` of them are
written and `rcvd` of them read, so the socket holds the bytes between the two.
The server's place is `pc`, and each step of a handler is an action: `EpollWait`,
`HandleEvent`, `HandleOutEvent`, `RecvBytes` / `RecvAgain` / `RecvEnds` (one turn
of `TryRecv`'s loop), one field at a time of `ParseMessage`, `Dispatch`
(`HandleInEvent` after parsing) and `SendAuthResponse`.  Between any two of them
the peer may write any number of bytes, close or reset, and the send buffer may
fill or drain.  `start`, `handled` and `verdict` are history that no action
reads.  `_message.bytes_vec` needs no variable: it is filled and emptied in one
step.  `ParseEmpty` is the code's endless loop on a zero length, a step that
changes nothing.  After a reset `recv()` may still hand out bytes or report
the error at once.

**Server.**  Bytes are gone; a connection has input, an end, or neither, and a
session consumes all its input or ends.  Descriptors are numbers that are
reused lowest first.  epoll's `ready` list holds each watched descriptor at
most once and remembers which connection it was opened for, so that a stale
event could be told from a fresh one; `Collect` moves it into the batch entry
by entry, as the kernel does, while peers go on sending.  The batch is handled
in order, `AcceptNewConnections` one connection at a time.  `Interrupt` is the
signal handler: it ends a sleeping `epoll_wait` and otherwise only sets the flag.
An event is `in` (EPOLLIN or an error, whatever else) or EPOLLOUT alone.
`AcceptError` is any error that ends the accept loop, with or without free
descriptors, and `starved` says that it left connections queued.  A handler
need not come back (`HandlerHangs`, the place `hung`): `ParseMessage` loops for
ever on a length of zero, which `session_empty_image` shows.  What reaches
`hung` is any input, for bytes are gone; no step of the loop is left there.
A peer that writes without a pause, which keeps `TryRecv` in its loop, has the
same effect while it lasts.

**UniqueResource.**  `resource[o]` is the field `_resource`, `live` the objects
in their lifetime, `open` what the system holds open.  `Construct` is the
opening call with the constructor around it, `MoveConstruct` and `MoveAssign`
the two moves, `LeaveScope(S)` the destructors of a block's locals, by return
or by exception.  The action's arguments are the code's objects: the client
uses `"u_disp"`, `"disp"`, `"u_ximg"`, `"img"`, the socket's `"temporary"` and
`"_server_fd"`.  The return of a local, which a compiler may elide, is a move.

**InputParser.**  A word of the command line is a record of what the code asks
of it: whether it is an option's exact name, whether `stoi` finds digits,
what they are worth, what follows them, where a colon is.  `outcome` is what
`Parse` returned with or threw.  `getopt_long` is modelled from how `Parse`
uses it: it skips words that are no options and stops at `--`.  For an option
without its argument it gives a null `optarg`, of which each handler makes a
`std::string` (a `logic_error`).  `Readings` is the syntax of
input_parser.h:58-60 with the ranges documented at 77, 98 and 105, written
without the loop.  The documentation gives a period no upper bound; the code's
own (input_parser.cc:112) is kept apart, as `PeriodTaken`, and `ParsedExactly`
speaks of the readings within it.
`ThrownExplained` says which refusals are not the documented `invalid_argument`.  input_parser.h:48 calls the period
milliseconds, 60 and 105 seconds; the code sleeps seconds (client.cc:201-209).

**ScreenGrabber.**  Each call that can fail is a step that goes on or throws,
with a new screen found at each grab.  `ConvertToRGB` gives for every byte of
the result the index of `img->data` it was taken from; `XImageData` is the
layout Xlib documents.  `png` is the number of pieces the encoder's output is
sent in, 0 if the encoder failed.

**Client.**  `pc` is the place in `main`, `Run` and what they call.  Messages
are counted in pieces, `unsent` of them left to `SendAll`; `due` is what the
server still misses of the message it is reading.  `TryAuthenticate` is the
places `send_auth` and `recv`.  Between any two steps SIGINT may set the flag,
the server answer, close or reset, and the send buffer fill or drain.

**System.**  A connection is one run of the client program.  A message counts
once it is written whole (`FramesWhole` says that it arrives whole or as the
last thing of its connection); one event of one connection is one step, as
the server has one thread.  The messages of a connection are its request, 0,
and its images 1, 2 and so on, and are on the `wire`, in the session's
`messages`, or `handled`.  An event handles one message, the oldest, after
reading all of them; an event that meets the end closes the session and drops
the rest.  `who` gives each client its directory, whether the server accepts
its names, and its address and port as they are printed.  `disk` holds the
files by path; `filed` is every image reported as saved.  `clock` is local
time in seconds, which only file names read.  `arrival` is the listening socket's event: `AcceptFails` ends the accept loop
and leaves those queued to the next connection.  `HangOn` is the handler that
does not come back, on an image without bytes, after which `hung` stops every
connection until the server is started anew.

**Slips.**  Each property is also run against a version of the code with a
plausible mistake in it (PROJECT.json "mutants"), and must fail.  Those
versions stand next to the definition they replace and are marked *Slip*; no
specification uses them.

## Runs

| run | shows |
|---|---|
| `wire` | framing and round trip over all pairs of names of at most 4 bytes, lengths beyond `MaxName` included |
| `session` | `StreamIntact`, `FramesExact`, `LatestVerdictAnswered`, `NoLostEdge`, `HandlerApproachesReturn` over plain, oversized and empty messages, cut up in every way |
| `session_liveness` | `QueuedAsReceived`, `DeliversInOrder` (refinement of `InOrderDelivery`), `HandlerReturns`, `AnswerLeaves` over the messages the programs exchange |
| `server` | `TableMatchesDescriptors`, `NoStaleEvent`, `InputAnnounced`, `BacklogAnnounced`, `LoopSurvives` |
| `server_liveness` | `EveryoneServed`, `EveryoneAccepted`, `StopsUnlessStuck`, all *unless* a handler does not come back |
| `client` | `CommandLineObeyed`, `OwnedOnce`, `NeverMisused`, `HeldOnlyInUse`, `PixelsExact`, `FramesWhole`, `EndExplained`, `KeepsProtocol` (refinement of `ClientProtocol`), `StopsInBoundedSteps`, `StopsUnlessBlocked`, over every command line of `MCClient` and both programs |
| `system` | `NothingLostWhileOpen`, `FilesAuthentic`, `FilesOrdered`, `KeptUnlessSameName`, `KeepsPromise` (refinement of `Archive`), `EveryoneAnswered` *unless* the server hangs or leaves the client queued |

Five runs show where the code departs from what it says of itself; the findings
in PROJECT.json quote the line:

| run | what happens |
|---|---|
| `session_empty_image` | a zero length is an endless loop in `ParseMessage`, and the server has one thread |
| `session_pair` | of two messages in one burst only one is handled until more input comes |
| `session_closed` | an image received together with the end of the connection is dropped |
| `session_large` | the body of an oversized message is parsed as messages |
| `server_signal` | SIGINT between the test of the flag and `epoll_wait` goes unnoticed |

Four more departures from the documentation are part of the models and have no
run of their own; each is named where a property allows it:

- An error of `accept()` ends the accept loop with connections queued, and they
  wait for the next peer to announce them (server.cc:93-97; server.h:101 says
  that the loop accepts until EAGAIN): `starved` in `BacklogAnnounced` and
  `EveryoneAccepted`, `session[c] = "queued" /\ ~arrival` in `EveryoneAnswered`.
- A period over 86400 is refused (input_parser.cc:112; input_parser.h:105 says
  >= 0): `PeriodTaken` in `ParsedExactly`.
- A number beyond `int`, or an option without its argument, ends either program
  with an exception that nobody catches (input_parser.cc:86 and 145-161;
  input_parser.h:56 promises `invalid_argument`): `ThrownExplained` names these
  two causes and allows no other.
- A client that cannot connect logs that and returns from `Run`, as one does
  that the user has ended (client.cc:239; client.h:33 says that `Run` throws):
  `peer # "open"` in `EndExplained`.

Some properties are as weak as the code makes them, and say so: a client is
stopped by SIGINT *unless* it hangs in `recv()` or `send()`; the server serves,
accepts, answers and stops *unless* a handler hangs, and accepts and answers
*unless* `accept()` failed; a program with its options read ends for the user,
a refusal or the connection (`EndExplained`), where a connection that was never
made counts as one of these; a saved image is
kept *unless* one with the same second, names and printed address is saved;
files are ordered *unless* local time was set back; a refused client's images
stay out of the archive because the *client* does not send them, the server
would save them.

**Bounds.**  A byte has 3 values, which is enough for a type byte of either
kind, an unknown one, valid and invalid name characters and lengths above and
below the limit of 6.  `BufferSize` 16 is below the longest stream, so that a
burst takes several `recv()` calls.  `MaxPressure` is how often the send buffer
may fill: 2 lets an answer wait twice, once for each of two authentications.
Three connections with two descriptors give reuse within a batch and EMFILE;
`MaxEvents` 2 (1 for liveness) makes the ready list longer than a batch.
In `client`, `IntMax` 4, `MaxPort` 2 and `MaxPeriod` 3 keep the order of the
code's limits, and numbers run from 0 to one beyond `IntMax`; command lines are
all of up to two words, and one or two options with their arguments and at most
one stray word.  One handle of each kind is enough, since a second grab may
only begin when the first has released its own.  `AuthPieces` 2 and images of
one or two pieces let `send()` cut a message.  Screens are 0 or 2 wide and 2
high, in six pixel formats (one of them unsupported), with and without padding.
In `system`, two connections come in three couples: one user with addresses
that print alike, one user elsewhere, two users of whom one is refused.
`MaxWritten` 3 is a request and two images each, `MaxClock` 1 lets two images
share a second or not, `MaxChanges` 1 allows one restart or one clock set back.
Symmetry is used for safety only.  Deadlock is not checked: a closed connection,
a stopped server or one that hangs, one asleep with silent peers, a client that has ended and
clients that have sent what the bounds allow have nothing left to do.

**Fairness.**  `WF_vars(Server)` in `Session` and `WF_vars(Loop)` in `Server`: the
thread runs whenever it is not asleep.  That says nothing of a handler that
never returns.  In `Session` it is a step that changes nothing, hence none that
fairness could ask for, and `HandlerReturns` is checked over streams without it;
in `Server` no step is left at `hung`, and each liveness property names that
place.  `WF_vars(RoomFreed)` in `Session`: a peer that waits for its answer reads,
hence the send buffer drains.  `WF_vars(Program)` in `Client`: the same as the
server's.  In `System`, `WF` of `TryAuthenticate(c)`, for the client reads its
answer, and of `Serve(c)`, each connection for itself.  The latter is what
`EveryoneServed` and `EveryoneAccepted`, checked of `Server`, give: `Serve(c)` is
enabled only while no handler hangs, and for a queued connection only while the
listening socket is still to be handled, so that both exceptions of `Server`
are exceptions of `EveryoneAnswered`.  Nothing is assumed of peers that send,
close or connect, of the network, nor of the user.

## Proofs

`WireProofs` proves, for every byte range and length limit that satisfies
`WireAssumption`, and for all pairs of names whose length two bytes can hold
(`NamesFit`, which the enumeration's bound satisfies as well):

- `SizeFramesMessage`, `ServerReadsNames` and `CutRefused`:
  `HeaderFramesMessage`, `AuthRoundTrip` and `TruncatedRefused`.  Two bytes keep a
  number below `Base^2` and four one below `Base^4` (`TwoBytes`, `FourBytes`); a
  message is its header and its body (`Framed`); a name and whatever follows it
  are read back as they were written (`NameRead`); and a request cut inside a
  name lacks it (`NameCut`), cut behind one keeps it (`CutAfterName`).
- `ImageFramed`: the size of an image message frames an image of any length
  below `Base^4`, where `SizeFramesMessage` has images as long as names only.

`SessionProofs` proves, for every byte range, buffer size, size limit and set
of streams that satisfies `WireAssumption` and `SessionAssumption`:

- `TypeCorrect`: `Spec => []TypeOK`, action by action.  It needs that the parts
  of a request that `Wire` cuts out are byte sequences (`CutTyped`, `NameTyped`).
- `NoByteLost`: `Spec => []StreamIntact`.  The strengthening adds the parser's
  shape, that `type_vec` is empty or one byte, `size_vec` empty or four, the
  second never without the first, and `start` at most `rcvd`; without it a
  field could be cut from the wrong place.  The lemmas about `Spans` say when a
  stretch of a sequence splits into two.
- `MessagesExact`: `Spec => []FramesExact`, from `NoByteLost`'s invariant: when
  the body is taken, the header stands in the stream right before it.
- `NoEdgeLost`: `Spec => []NoLostEdge`.  `NoLostEdge` speaks of a sleeping server
  and is not inductive.  `EdgeInv` says at every place of the server what is
  owed: unread input is in the ready list, or in the event at hand, or the
  handler is still before its `recv()`; an unsent answer likewise.
- `LastVerdictTold`: `Spec => []LatestVerdictAnswered`, inductive with `TypeOK`.
- `HandlerComesBack`: `Spec => HandlerApproachesReturn`.  Each step lowers the
  number of places ahead (`Ahead`), or takes bytes from the socket or from the
  buffer.  That `HandleEvent` never has a second event in hand when it receives
  is the part of `EdgeInv` it needs (`EventsShape`).

`DeliveryProofs` proves, under the same assumptions:

- `HandlesInOrder`: if every stream keeps to the size limit (`WithinLimit`),
  `Spec` implements `InOrderDelivery` (`DeliversInOrder`).  The hypothesis is
  needed, as `session_large` shows, and `PlainWithinLimit` has TLC confirm it of
  the messages the programs exchange.  `DeliveryInv` says that `start` is always
  a boundary of the protocol's framing (`AtBoundary`) and that what was handled
  and queued is what the framing gives up to `start` (`ReadSoFar`).  The framing
  is a recursive function of a place in the stream.  What it does as a stream
  grows (`ReadingGrows`) is proved from the last place backwards (`FromTheEnd`):
  the places where a claim fails form a finite set, whose largest element
  cannot exist.  Stated of sets, the induction is first-order, and so
  within reach of the provers.
- `ParserKeepsUp`: `Spec => []QueuedAsReceived`, under the same hypothesis.  Added
  to `DeliveryInv` is that outside of receiving and parsing no message is
  complete at `start` (`NoneComplete`): the parser gives up only where a field
  is missing, and the length of its buffer says that it is (`ShortIncomplete`).
- `SleepsWithNothingUnread` puts `NoEdgeLost` and `ParserKeepsUp` together: a
  server asleep has handled or queued every message that is written whole.
  This is what `System` takes for granted when one event reads all there is.

`ServerProofs` proves, for every set of connections, descriptor limit and batch
size that satisfies `ServerAssumption`:

- `LoopTyped`: `Spec => []TypeOK`.
- `DescriptorsOwned`, `EventsFresh`, `LoopNeverThrows`: `TableMatchesDescriptors`,
  `NoStaleEvent` and `LoopSurvives`, together, as `TableInv`.  Two facts are added:
  a queued connection is queued once and has no descriptor (`Queued`), or it
  could be accepted twice; and a batch names a descriptor at most once
  (`OneEach`), or closing it would leave another event of it behind.  They also
  show that the early return of `HandleEvent` for a descriptor without a session
  (server.cc:203) is never taken.
- `NoInputForgotten`, `NoPeerForgotten`: `InputAnnounced` and `BacklogAnnounced`,
  inductive together with `TableInv`: a handler's own event is the only one that
  leaves the batch, and by `OneEach` it is the only one of its connection.
- `LoopApproachesStop`: after SIGINT each step of the loop lowers a rank made of the
  place in the loop, the batch, the backlog and the ready list, so that only
  peers can keep it from its end, or from the handler in which it hangs.

`UniqueResourceProofs` proves of `UniqueResource` by itself, any owners doing
any of its operations in any order:

- `EveryHandleOwnedOnce` and `NoHandleMisused`, inductive together: that no
  destructor releases a closed handle needs that each open one has one owner.

`ClientProofs` proves, for any command lines, screens, limits and handles:

- `HandlesManaged`: every step of the client is a step of `UniqueResource` or
  leaves the handles alone.  Hence `ClientHandlesOwnedOnce` and
  `ClientMisusesNothing`, without a word about the client.
- `ClientTyped` and `NothingSentInside`: `TypeOK` and `FramesWhole`, inductive
  together once it is added that nothing is begun before the connection is up
  (`ControlInv`).
- `EndsForAReason`: `EndExplained`, once the reason is said already at the places
  that lead to the end (`EndInv`).  It begins where the options are read: what
  `Parse` throws is `ThrownExplained`'s.
- `StopsStepByStep`: `Spec => StopsInBoundedSteps`.  The rank goes down to the calls
  of a grab and the pieces of a message (`Ahead`, `GrabAhead`, `Left`); added is
  that the signal is caught from `Run` on only (`CaughtInv`).  In particular at
  most one image, the one under way, is completed after SIGINT.
- `ProtocolKept`: the refinement of `ClientProtocol`, step by step.
- `ScreenReleased`: `HeldOnlyInUse`, from which locals are alive at each place
  and that nothing but them owns a handle (`OwnedOnce`).
- `PixelsConverted`: `Spec => []PixelsExact`.  The index that `ConvertToRGB` reads
  is the byte of the pixel it stands for, from the quotients and remainders of
  its loop (`QuotientAndRest`, `RowAndColumn`, `OffsetInPixel`).
- `CommandLineRead`: `Spec => []CommandLineObeyed`, from `InputParserProofs`'
  `ParserInv`: the words before `optind` can be read as documented (`Found`), and
  every documented reading of the whole command line, within the code's limit of
  the period, agrees with what is stored so far (`Coherent`).  The first gives a reading when `Parse` returns; the second
  says that there is none when it throws, and that the values stored are those
  of the only one (`ReadExactly`).  That `ThrownExplained` holds needs only the
  word at hand (`ArgumentThrows`).

`SystemProofs` proves, for any connections, identities and bounds:

- `SystemTyped`, and `SystemLosesNothing` from `MessageInv`: `TypeOK`, that the
  handled, the queued and the unread are together what was written, and that
  only a client with a positive answer has sent images (`Introduced`).  The lemmas about `Written` say what taking
  the head of the middle part does to the whole.
- `FilesAreAuthentic`, `FilesInOrder`, `OnlySameNameReplaces` from `FilesInv`:
  every file's path is made of its image's time and client (`Sound`), and a
  path is taken once (`OnePerPath`), or a replaced file could have a namesake
  left that is newer.
- `SystemKeepsPromise`: the refinement of `Archive`, for which `MessageInv` says
  that the message handled is the next one made.

So every safety invariant that a run checks, every action property and every
refinement is also a theorem, for all values of the constants.  Only liveness is
left to TLC alone: `HandlerReturns`, `AnswerLeaves`, `EveryoneServed`,
`EveryoneAccepted`, `StopsUnlessStuck`, `StopsUnlessBlocked` and
`EveryoneAnswered` speak of fairness, which the prover does not handle.  Of three
of them the safe part is proved, that each step of the program goes down:
`HandlerApproachesReturn`, `StopApproaches`, `StopsInBoundedSteps`.  What is left
for TLC there is that a step can be taken, and that the one step that changes
nothing, `ParseEmpty`, is not taken for the messages the programs exchange.

## Not modelled

- The logger's printing, the vendored encoder, the build files, and the set-up
  calls of the server's sockets, which are initial states.
- `SetupHostname` and `SetupUsername` (their results are `Wire`'s names), and
  SIGINT before `Run` has installed the handler, which kills the program.
- Xlib's own error handlers, which exit the program on a lost display or on an
  image request that the server refuses.
- Allocation failure everywhere; the overflow of `width * height * 3`, which no
  X screen reaches.
- In `System`: images over the size limit, which are `Session`'s runs; and TCP
  segments, which are `Session`'s and `Client`'s.  Of an image without bytes it
  has the effect (`HangOn`), not the image.
- The clock between the steps of one `SaveScreen`; a crash of the server in it
  leaves what a failed write leaves, a file that is not whole.

## Left to do

`System`'s fairness discharged from `Server` by a refinement instead of by its
two liveness properties, and `System`'s handling of one event in one step
discharged from `Session` beyond `SleepsWithNothingUnread`.
