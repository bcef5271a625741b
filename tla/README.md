# Verification of clingeling

clingeling is a client of the baresip SIP user agent: one thread around an
epoll set, a TCP connection to baresip's control port, a netstring framing on
it, JSON messages in the frames, and a model of the calls that its users
observe through signals. This directory holds TLA+ modules that describe the
parts of it that carry its logic, TLC configurations that check them on small
instances, and proofs of their main properties for every value of the
constants. `PROJECT.json` lists the components, the runs, the source lines
behind each definition, the hazards and the theorems.

## The system

| part | state | operations | talks to |
|---|---|---|---|
| `IO::Buffer` | allocation, `capacity_`, `rstart_`, `wstart_` | `reserve` `wstart` `fill` `rstart` `drain` | nobody |
| `IO::EventBuffer` | a buffer, two callbacks | those of the buffer | runs `on_fill` and `on_drain` inside `fill` and `drain` |
| `IO::StreamBuffer` | none | `get` `peek` `get_str` `size` | drains its `ReadBuffer` |
| `Netstring::Reader` | `state_`, `len_` | `parse` | the stream buffer |
| `BufferedStreamSocket` | two event buffers, the socket, `ev_` | constructor, handler of its events | `EPoll::Ctrl`, the socket; is called back from `drain` |
| `Posix::StreamSocket` | `init`, `in_progress`, `connected`, `error` | `connect` `connect_continue` `read` `write` | the kernel |
| `EPoll::Ctrl` | map of descriptors to callbacks | `add` `mod` `del` `wait` | the kernel; calls the callbacks |
| `Signal`, `Connection` | list of shared callbacks; weak pointers to them | `connect` `disconnect` emission | calls the callbacks, which may call it again |
| `Slot`, `AutoConnection`, `Signal1` | connections, a function | `connect` `reset` `disconnect` | signals |
| `Baresip::Ctrl` | stream buffer, reader | `on_fill` handler | reader, JSON, protocol parser, two signals |
| protocol parser | none | `Event::parse` `Command::parse` | nobody |
| `Baresip::Model` | list of calls, registration | `on_event` slot | signals `on_call`, `on_state_change` |
| JSON parser, serializer | position in a stream | parse, print | nobody |
| main loop, `EventPipe` | `run`, a pipe | `wait` in a loop, `trigger` | all of the above |
| `UDev::Device`, `Monitor`, `Enumerate`, `Factory` | one reference of an object of libudev each | make, `parent`, queries | libudev; used by no other part |

There is one thread, so nothing is preempted. What is hard in this code is
re-entrancy (a `drain` inside a `fill` inside the handler of an event, a signal
emitted from its own callback), the order in which the network delivers
things (connect in progress, cut frames, data before a close or a reset),
buffers at their limit, and arithmetic at its limit. An exception that leaves
a callback ends the program: nothing between the callback and the main loop
catches it.

What makes each part correct: the buffer is a FIFO; the reader delivers the
frames of the stream whatever its cuts, and returns; the socket listens when it
has room, reads everything, and notices the end; a signal calls whoever is
connected, once, in order; the poller calls only registered callbacks; the
model tells its observers every change once; the parsers accept their grammar
and terminate. The list of hazards in `PROJECT.json` breaks this down to lines.

## Modules

| module | models |
|---|---|
| `ByteQueue` | what a buffer promises: bytes go in at the end and come out at the front |
| `IOBuffer` | `io-buffer.cc`, implements `ByteQueue` |
| `NetstringReader` | `netstring-reader.cc` on `io-stream-buffer.cc`, in the loop of `baresip-ctrl.cc` |
| `NetstringFraming` | what a stream of netstrings is, as a definition over whole streams, and what the reader delivers measured against it |
| `BufferedStreamSocket` | `buffered-stream-socket.cc` between the kernel, the epoll set and the reader, of which it is a composition (`Reader == INSTANCE NetstringReader`) |
| `Signals` | `Signal` and `Connection` of `signals.h` |
| `Slots` | `Slot`, `SlotProxy` and `AutoConnection` of `signals.h`, on top of `Signals` |
| `Poller` | what a user of `EPoll::Ctrl` may rely on: only registered callbacks are called, one at a time |
| `EPollCtrl` | `epoll-ctrl.cc` and `flags.h` with the kernel's epoll set, as a component without a `Next` of its own |
| `Clingeling` | `clingeling.cc`: the main loop and the `EventPipe` around `EPollCtrl`, implements `Poller` |
| `BaresipProto` | `baresip-proto-parser.cc`: what is made of a JSON object |
| `Baresip` | `on_json` of `baresip-ctrl.cc` and `baresip-model.cc`, with observers |
| `Json` | `json-parser.cc` and `json-serializer.cc` as operators |
| `JsonParser` | the parser reading a text symbol by symbol, and the grammar it is measured against, as a component without a `Next` of its own |
| `JsonRoundTrip` | the parser on all texts up to a bound, and on values that a program can build, written by the serializer or in another style of whitespace |
| `Udev` | `udev.cc`: who owns which object of libudev |
| `MCIOBuffer`, `MCBufferedStreamSocket`, `MCBaresip`, `MCSlots`, `MCUdev` | bounds, message sets and symmetry for TLC |
| `Selection` | `Only`, the part of a sequence whose elements are in a set: `SelectSeq` without recursion, for modules that are proved about |
| `IOBuffer_proofs`, `NetstringReader_proofs`, `BufferedStreamSocket_proofs`, `Slots_proofs`, `Clingeling_proofs`, `Baresip_proofs`, `Udev_proofs` | the theorems |
| `Selection_proofs` | what `Only` returns, keeps and does with one element more |

**IOBuffer.** The variables are the four fields of the class and the pointer
its writer holds. Pointers are offsets. `Reserve` is the disjunction of the
ways through `reserve()`; `ReserveThrows` is the way out through
`std::bad_alloc`, after the bytes were moved. `Write` is a writer that stores
bytes at the pointer it holds and calls `fill`; `fill`'s and `drain`'s
assertions are guards, because a caller that breaks them stops the program.
The constant `Retake` says after which operations the writer fetches its
pointer again. The program's only writer, `on_readable`, fetches it for every
read.

**NetstringReader.** One action for each turn of the loops of `parse` and
`parse_length`, named for what is met: a digit, the colon, no more bytes, a bad
byte, a string that is complete or not, a delimiter that is there or not. `pc`
says whether the caller's loop runs, waits for bytes or was left by an
exception, of `parse` or of `parse_object` and `on_json`, which get each string
it delivers and may throw whatever it says. `get` on `0xff` returns the number of `End` (a signed `char`) and
drains the byte, so `LengthStarved` has that case. `len` wraps around at
`SizeMod`. `out` and `fed` are history: what was returned, and all bytes that
came in.

**BufferedStreamSocket.** `loc` is where the thread is: `constructor`, `wait`,
`handler` (inside `fill`, where the reader runs step by step) or `exited`.
`ev` and `registered` are kept apart because the code keeps them apart: `ev_` is
what the object thinks, `registered` what the epoll set was told. The receive
buffer is seen through its unread bytes and their offset, which `IOBuffer` shows
to be all that matters. Every step of the reader that drains calls
`update_poll_events`, as `on_drain` does. The kernel's side is external:
connections are established, refused, reset (a closed one, too) or closed at any time, and bytes
arrive in any portions, a read returning any number of those that are there.
The send buffer has no variable: no code of the program fills it, so it is
empty whenever it is asked. A connection the peer closes in an orderly way
reports `In` and `Out`, one that fails reports `In`, `Out`, `Err` and `Hup`;
`RdHup` and `Pri` are never registered and so never reported.

**Signals.** The callbacks are numbered in the order of their `connect`. A
callback's object lives while the list or a frame of the stack holds it;
connections hold weak pointers and do not count. `stack` is the emissions in
progress. Outside of emissions and while a callback runs the program may
connect, disconnect, copy or move a connection, or emit again. An exception
passes through all emissions; no callback of the program catches one.

**Slots.** A slot gives the signal a reference to itself, kept as `target`, and
keeps an `AutoConnection`, `conns`. An `AutoConnection` is a `Connection` whose
destruction is a `Disconnect`; assigning to one is the `Move` of `Signals`, which
leaves the old callback connected. Assigning to a slot clears its vector of
connections first, and `Destroy` clears it, too. A moved slot's callbacks go on
referring to the place it was moved from; once that slot is destroyed a call is
undefined, and `Call` stops the model there. A slot's function is no variable: it
may do anything or nothing, and nothing is what an empty or moved-from slot does, so
`reset()` has no action. The slots exist from the start, so a move constructor is an assignment to a
slot that has never been connected.

**EPollCtrl and Clingeling.** Callbacks are numbered, and a number is an address
that is never used again, so that a stale pointer shows. `events` is what is
left of the array of `wait()`, `rdlist` the kernel's list of ready
descriptors, which are reported level triggered and in turn. During a dispatch
a callback may add, modify and delete any descriptor, its own included,
trigger the pipe, or throw. Each of `add` and `del` has a gap between the kernel's
table and the program's map; only that of `add` can be hit (`AddFailsLate`),
since a registered descriptor is open and `EPOLL_CTL_DEL` does not fail for it. A callback that
deletes its own descriptor destroys the function that runs; what it does after that is
undefined if it uses what it had captured (`RunsFreed`), and otherwise it just returns. `Clingeling`
adds the loop and the pipe; the descriptors other than the pipe stand for the socket and whatever
else will be registered. The pipe is blocking, as it is made: `TriggerBlocks` is
the thread that waits for itself.

**BaresipProto and Baresip.** A message is a function from member names to typed
values, so that a missing member, one of the wrong type and an unknown word
are all there. Strings that only are passed on have no content. `OnMessage` is
`Event::parse` and the start of the emission, `OnResponse` is what follows it, on the same
message. `stack` is the emissions in progress: `on_call` keeps a reference into the vector of calls,
`stale` when the vector has grown; `on_state_change` passes the state of the call by reference, so an
observer is told the state as it is when its turn comes. An observer connects
to every call it is told of, and may feed an event to the model or throw.

**Json, JsonParser and JsonRoundTrip.** The parser's recursion is a stack and `pc` is the function
that reads next; each operator `Read...` is what one function does with the next
symbol. A symbol is a character, a whole word (`true`, `false`, `null`), or any
character that starts nothing. Numbers keep their sign and digits. A sign
alone, or more than `MaxDigits` digits, is the value `NoNumber`: the extraction has stored a value the
text does not have, and has set the failbit. The parser puts it in its place like any other
value and goes on, and every read after it sees the end of the text; that it then throws, and the
value never gets out, is what `AcceptsOnlyJson` and `ReadsOwnOutput` check. `Says` is the grammar, by cutting a
text at its commas and colons. It has the parser's rules that JSON does not have: no
whitespace before a key, a document is an object or an array, of equal
keys the first wins, numbers may have leading zeros. `JsonRoundTrip` does not start from what the parser
returned: its values are built from words, numbers of both signs, one number of a `uint64_t` above the
range of `int64_t`, and strings and keys that may hold a quote. `Written` writes a value in a style, a set of the
places at which it puts whitespace: behind openers, before closers, before and behind commas and colons. The
serializer's style is a space behind commas and colons.

**Udev.** An object of libudev has a reference count, and a device holds its parent once
libudev has looked for it (`FindParent`), which `parent()` and
`parent_with_subsystem_devtype()` take a reference of. All other member functions
are calls with `raw_`: `UseDevice`, `UseMonitor`, `UseEnumerate`, `MatchParent`.

## Runs

| run | question | bounds |
|---|---|---|
| `io_buffer` | is the buffer a FIFO, laid out as its drawing says, and does `reserve` reserve | two byte values, allocations of up to 4 bytes, constructed with 0, 1 or 3 |
| `io_buffer_doc` | does a `wstart()` result last as long as the header says | the same |
| `netstring` | does the reader deliver the frames of the stream | streams of up to 7 bytes from 7 byte values in chunks of 1 or 2, lengths modulo 13 |
| `netstring_missing_length` | is a frame without a length refused | streams of up to 5 bytes |
| `socket` | does the socket listen, read, and end as it should | a buffer of 6 bytes, two or three frames of up to 3 bytes, a bad frame, a high byte in or before a header |
| `socket_deaf` | does it always listen | the same without the high byte |
| `signals` | do the list, the connections, the slots and nested emissions agree | 3 callbacks, 2 connections, 2 slots, emissions 2 deep |
| `signals_nested` | is a disconnected callback always skipped | 3 callbacks, 2 connections, emissions 3 deep, no slots |
| `main_loop` | do map and epoll set agree, does the controller keep its promise, does nobody starve, does a wakeup end the loop unless the pipe is full | the pipe and 2 descriptors, batches of 2 events, 3 callbacks, a pipe for 2 wakeups |
| `baresip` | is the model what the messages say, and does every observer learn it | 3 messages out of intact and damaged ones, 2 observers, 2 events fed by observers |
| `json` | does the parser accept its grammar only, come to its end, and read all styles of writing and what the serializer writes | made-up texts of up to 12 symbols with one space, strings of one character, numbers of 2 digits; written values of up to 3 parts, and a word inside of up to 4 containers, one more than allowed; numbers of one digit, and of three, which is too large |
| `udev` | is every object there when it is used, and does it go when nobody needs it | 5 objects, 4 wrappers, devices with up to 2 parents |

Why the bounds are enough. In the buffer, 4 bytes allow a `reserve` that
does nothing, one that reclaims, one that grows without and one that grows
after reclaiming, and a failed one, each with bytes on both sides of what is
drained. In the stream, 7 bytes hold two
frames and the start of a third (`0:,0:,1`), strings of 0, 1 and 2 bytes, lengths
with a leading zero, an unfinished frame cut at every position, and lengths of two
digits. The modulus 13 stands for 2^64: 12 is then the largest `size_t`, to which
the parser adds 1, and 20 and more wrap around; the digits 0, 1 and 2 reach both.
In the socket the largest frame fits the buffer
exactly and two of them do not, so frames come to lie at every offset. Three
callbacks are a caller, its predecessor and its successor; two slots are the one that is
moved and the one it is moved to. In the main loop batches
of two with three descriptors leave one out each time, and a batch of two is enough for the first
callback to delete what the second event points to; three callbacks are a descriptor that is
deleted and added again, besides the pipe. Three messages are a call, its change and
an unrelated or damaged message between or after them; the damaged messages are one message that is
both a call event and a response, with each member in turn left out, of another type or of another
value. Two fed events are an emission in an emission in an emission, and a call fed by an
observer makes the vector grow. Twelve symbols are an object with two members, `{"":w,",":w}`; the comma is in the strings because
the grammar cuts at commas. Three parts are an object with two members, a container before or behind a comma, and two inside of each other; each place for whitespace occurs in them,
and all of their combinations are tried. Four wrappers are a factory and three generations of devices.
`MCSlots` and `MCUdev` use symmetry, which is sound because no definition
chooses between the permuted values and no temporal property is checked with it.

The runs marked as violations each check one statement a comment or a test of
the repository makes, and TLC finds a behaviour of the code that breaks it:

* `drain()` of everything moves `wstart`, the comment in `io/buffer.h` names
  only `rsize` and `wsize` as invalidated.
* After a first message, `:,` is delivered as an empty message;
  `missing_length_test` wants it refused.
* `on_readable` does not call `reserve`, as `io/buffer.h` asks of a writer. A
  frame that fits the buffer but does not fit behind what was drained in front
  of it fills the buffer; the socket then listens for nothing, unless the connection fails, for ever. With
  4096 bytes this takes two frames that arrive together.
* A callback that was disconnected while it runs is called, empty, by an
  emission nested in it, and throws `std::bad_function_call`.

`socket` states its liveness with this exception named (`Deaf`), and
`DeafOnlyInsideFrame` says that it is the only one, apart from a byte `0xff` in
or before a header, behind which the reader sees nothing.

Some of the properties that hold name a limit that a user of the code should know, and so do not
forbid it:

* `ImplementsPoller` says that the controller calls only registered callbacks except in the batch in
  which one is deleted: the events of that batch still point to it, and a callback that deletes its own
  descriptor is gone while it runs. It and `StaleOnlyInItsBatch` and `KernelAgrees` exempt a descriptor
  whose `add()` ran out of memory after the kernel had taken it.
* `WakeupEndsLoop` says that a wakeup ends the loop, by a return or an exception, except when a callback writes
  one wakeup more than the pipe holds: the thread then waits for itself (`loop = "blocked"`), for ever.
  Of what follows the call of a callback that is gone it says nothing.
* `UndefinedOnlyIfFed` says that an observer of `on_call` gets a dangling reference only if, since that call
  began, an observer has fed the model an event that began a later call, and the vector had no room for it.
* `ReadsOwnOutput` says which values the serializer writes in a way that the parser does not read: objects of
  two members, because it wants no space before a key; numbers above the range of `int64_t`; values that are too
  deep; and whatever holds a quote, which is written without escape.
* `DeafOnlyInsideFrame` names the byte `0xff`, `EndOfTextStops` the unterminated string, at whose end the
  parser appends for ever, in the middle of `on_fill`. `ParseReturns` is about the netstring parser alone and says
  nothing of that.

`CHECK_DEADLOCK FALSE` stands in the configurations of systems that may stop: a
stream that ends or is refused, a program that has left with an exception, an
emission that threw. `IOBuffer` never stops and is checked for deadlock.

## Fairness

`NetstringReader` assumes weak fairness of `Parse`: a function that was called
goes on. `BufferedStreamSocket` assumes weak fairness of `Program`, the main
loop, which calls `wait()` again as long as nothing throws. Nothing is assumed
of the kernel and the peer: a connection may stay in progress, bytes may never
arrive, a peer may never close. `Clingeling` assumes weak fairness of the steps of the loop and
of a callback's return: what a callback does with the controller is up to it, but
it does not run for ever. It needs no fairness of the kernel: `wait()` returns when the
list of ready descriptors has one. `JsonRoundTrip` assumes weak fairness of `ReadMadeUp`, a
parser that was called goes on, with text or its end; a written text it reads in one step.

## Proofs

All theorems hold for every value of the constants that the modules' assumptions
allow. TLC evaluates the assumptions in every run.

| module | assumed |
|---|---|
| `IOBuffer`, `NetstringReader` | sizes are natural numbers, the special bytes differ |
| `BufferedStreamSocket` | streams are sequences not longer than the bound on the history, a chunk may be as large as the buffer, and the capacity of the buffer is a `size_t` |
| `Signals`, `Slots` | the bounds are natural numbers |
| `EPollCtrl`, `Clingeling` | a batch and the pipe have room for one at least, the pipe is one of the descriptors and can become readable (`"In"` is among the arrivals) |
| `Baresip` | a JSON member of type boolean holds a boolean, an event that an observer feeds has the types of the C++ structures; of the messages, nothing else |
| `Udev` | objects and wrappers are finite sets, `Null` is no object |

* `IOBuffer_proofs`. `PositionsInv`, types and `Layout`, is inductive as it
  stands; `ReserveRoom` follows from it by cases of `Reserve`. That the buffer is
  a queue needs `ContentInv`: the unread bytes are bytes that were written, and the
  writer's pointer, if it has one, is `wstart`. Without the second part a write
  could land elsewhere, and with the documented `Retake` it does. So
  `BufferIsAQueue` assumes that the writer fetches its pointer for every use,
  as the code does. Each action is then a `Put`, a `Take` or no change of
  `Unread`.
* `NetstringReader_proofs`. `Delimited` alone says nothing of the bytes still
  unread. The invariant adds that they are a suffix of the stream, and that in the
  states `string` and `delim` the byte before them is a colon; then `Deliver`
  finds its colon behind and its comma in front. The length is
  not needed, and so an overflow of `len_` cannot break the property.
  `FramingIsFollowed` is the stronger statement that the reader is what `NetstringFraming` defines on
  whole streams. Its inductive invariant, `FramingInv`, says that the stream is beyond
  judgement however it goes on, or that there is a position `p` such that the messages delivered are the
  frames before `p` (`Reached`, for every continuation of the stream) and the reader stands in the
  header at `p`, in the body behind it, or has thrown in the header. Continuations have to be in
  the invariant because a frame is judged when it is complete, and the reader has
  chosen its length long before. The definition's `Decode` is a recursive function over positions
  (`DecodeFrom`); what is needed about it, that it exists and that a byte more leaves complete frames
  as they are, follows from well-founded induction stated for sets (`WFMin`, used in `Least`),
  which the provers can instantiate. The theorem has the hypothesis `[]BufferFits`, a buffer is
  shorter than `SIZE_MAX + 1`, which `size()` of a vector gives and which the socket below
  proves of its own buffer. `BrokenForGood` and `UnbrokenCanBeFrame` are about the definition itself: what it
  calls broken stays so, and what it does not call broken can still become a frame, so that throwing
  on the one and waiting for the other is right.
  `ParseTerminates` is the safety half of `ParseReturns`: twice the unread bytes, and two or one for
  the state, go down with each turn.
* `BufferedStreamSocket_proofs`. `SocketInv` adds to the types where the program
  can be with which state of socket and reader (a waiting program has an idle
  reader; inside the handler the socket is connected) and how `ev`, `registered`
  and the room in the buffer belong together there. The steps of the
  reader are taken from `NetstringReader_proofs`, instantiated. That the socket
  implements the reader also needs that what was received, what is in the socket
  and what is unsent are together no longer than the stream was. With that,
  `Delimited` is carried from the reader over to the socket
  (`SocketMessagesDelimited`), wherever in the buffer a frame comes to lie.
  `DeafOnlyInsideFrame` follows from two more invariants: a buffer that is
  drained empty is at its front, so a full one has bytes in it; and the reader's
  `LeavesNothingElse` (in `NetstringReader_proofs`), which is about the last turn of its loop: it ended either
  for a string that does not fit, or for a byte that is taken for the end.
  The framing is carried over as well (`SocketFollowsFraming`): a buffer whose capacity is a
  `size_t` satisfies `BufferFits`, so the theorem needs no hypothesis. `FillGetsOn` does
  the same for the turns of the parser.
* `Selection_proofs`. `Only` is defined through the positions it keeps and their
  ranks, so that its facts need no induction over sequences: positions and ranks
  are inverse to each other, and both keep the order (`PositionFacts`). The others
  cite `OnlyPositions`, `OnlyType` and `OnlyAppend`.
* `Slots_proofs`. The inductive invariant, `SlotsInv`, has one part for the list
  and one for each frame of the stack (`FrameOK`): whom the emission has called and whom
  it has still to call are apart and in order, nobody in it is newer than its begin, and
  whoever was connected at its begin and still is is in one of the two. The
  frames do not depend on each other: a disconnect inside a nested emission takes a callback out of
  the list, and every frame's obligation to it ends at that moment. `OwnedOnce`
  is inductive once the callbacks that do not exist yet refer to no slot and are in no slot's
  connections. `ThrowsOnlyNested` uses that outside of the list a
  callback lives only while a frame runs it, and that the frame on top runs nobody when it looks for the next.
* `Clingeling_proofs`. `CtrlInv` adds two facts to `KernelAgrees` and `StaleOnlyInItsBatch`:
  `PointersApart`, the epoll set has different pointers for different descriptors and lists each as
  ready once; and `BatchApart`, the events left in a batch point to different callbacks, none of them
  to the one that runs. `PipeInv` is needed for the types alone: the pipe's callback
  counts a wakeup down without looking, so there has to be one whenever it is called, and there is since
  the pipe comes up once in a batch and nobody else reads from it. With the
  invariant, every action of the program maps to `Register`, `Unregister`, `Call`, `NextBatch` or a
  stutter of `Poller`, an `add()` that fails late and a call through a stale pointer included. For a callback
that has deleted itself this needs `RunsAlive`: one that runs is registered, or something was deleted in its batch.
  Three theorems are the safety halves of the liveness properties. By `ReadyIsListedHolds` the
  kernel's list has every descriptor that has something to tell, and by `WakeupIsListedHolds` the pipe
  as long as there is a wakeup in it. `NobodyOvertakesHolds` says that each `wait()` takes a ready
  descriptor or leaves strictly fewer before it, and that no callback puts one before it: the number of
  batches it waits is bounded by its place in the list. What is left to TLC is that `wait()` is called again.
* `Baresip_proofs`. `NobodyLeftBehind` is not inductive: an observer that has not
  heard of a call yet is not connected to its `on_state_change`, and a state it misses must
  be told by the `on_call` that is still to come. `Connected` says so; with
  `UpToDate`, which names the emission that will tell, it is inductive, because emissions
  pass the state by reference. `Dated` says when the calls began: the first event of a call comes before the first of
  the next one in the list, and a call whose reference is stale was followed by one that an observer
  fed. `ModelIsReplay` has its order from it, and `UndefinedOnlyIfFed` its fed event. `ParseKinds` goes through the parser once and for all messages.
  `Replayed` and `Ordered` are `ModelIsReplay` and `MessagesInOrder` in a form that one event more
  extends (`SumsGrow`, `InOrderGrow`).
* `Udev_proofs`. The counts are right only if the devices hold their parents in lines: by `ParentsAbove`
  a device that holds a parent is alive and has one level more than it. Dropping a last reference then
  releases a chain of devices of which no two are on one level (`GoneIsALine`), so each object that
  stays loses one reference at most, as `Unref` says. `NeverUndefined` follows,
  as a wrapper's own reference is among those that are counted.

TLC has checked these invariants on the runs' instances as well, except `FramingInv`, which
quantifies over all continuations of a stream; what it implies, `FramingFollowed`, is a property of a run.

What the proofs corrected in the model. `DeafOnlyInsideFrame` used to want a
length begun before the high byte; the proof of `LeavesNothingElse` stops where the byte is the
first of a stream, and TLC finds the program deaf there as well. The property now says where the byte
is, and the run sends it there. `ParseEvent` and its parts were `CASE` expressions
with guards that overlap, which says less than the code's chain of `if` that TLC makes of it; they are `IF` now.
The release of
parents in `Udev` and the selections in `Signals`, `EPollCtrl` and `Baresip` were recursive, and are defined
by what they return (`Chain`, `Only`); the runs have the same states.

Only model-checked:

* everything under fairness (`ParseReturns`, `ArrivedIsRead`, `EndIsNoticed`, `ReadyIsServed`,
  `WakeupEndsLoop`, `EndOfTextStops`), which the prover does not handle; of `ParseReturns`, `ReadyIsServed`
  and `WakeupEndsLoop` the theorems above have the part that is about single steps;
* `JsonParser` and `JsonRoundTrip`: the grammar, the serializer and the set of values they are measured against are
  `RECURSIVE` operators over nested values, and a module that reaches one is out of the prover's reach.

## Plan

What is left, the most important first.

1. The type correctness of the JSON parser, once its machine is apart from the grammar and the
   serializer it is measured against.
2. More about single steps: that `reserve()` keeps what is unread when it throws is a part of
   `BufferIsAQueue`; that `add()`, when it fails late, and `on_json()`, when it throws, leave the rest
   as it was is not stated.
3. The socket with its send buffer, in both directions, for a client that would send.

## Not modelled

* `netlink-socket.cc`, `usb-hid.cc`, `posix-chardev.cc` and the Posix helpers pass arguments to
  one system call and keep no state; the program does not use most of them.
* The send path of `BufferedStreamSocket`: nothing fills the send buffer.
* `Signal1`, a moved signal and a signal that is destroyed by its own callback: no code does
  any of it, and the latter two are undefined once a callback disconnects.
* The closures of a signal's callbacks: one that disconnects itself destroys its own captures while it
  runs. (For the callbacks of the poller this is modelled, as `RunsFreed`.)
* `wait()` with a timeout, which no code passes.
* What the queries of `udev.cc` return. (`action()` asks for the driver.)
* Text formatting and logging (`fmt.h`, `log.h`), which no property tells apart, and `utest`, the
  repository's test harness.
