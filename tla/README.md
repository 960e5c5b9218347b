# EosSyncLib in TLA+

EosSyncLib keeps, in an application's memory, a mirror of the show data of an ETC Eos lighting
console: it connects over TCP, asks for every target (patch, cues, groups, ...) and follows the
changes the console announces. This directory models that synchronisation, the connections it runs
over and the OSC packets and streams it is built on, checks them with TLC and proves with TLAPS what
the target list, the mirror of a show, the session and the stream guarantee.

## The system

Everything runs on the application's thread, inside `EosSyncLib::Tick` and `ClearDirty`. The
concurrency is between the library, the application and the console, over two FIFO byte streams.

| Part | State | Operations | Talks to |
|---|---|---|---|
| `EosSyncStatus` | UNINITIALIZED / RUNNING / COMPLETE, dirty flag, timestamp | `SetValue`, `SetDirty`, `ClearDirty`, `UpdateFromChild` | owned by every level below |
| `EosTarget` | status, property groups of its type | `Recv`, `ClearDirty` | called by its list |
| `EosTargetList` | map of numbers to parts, UID map, counter, status, count handshake | `Tick`, `Recv`, `Notify`, `Clear`, `ClearDirty`, `InitializeAsDummy` | queues requests in `EosOsc`; called by `EosSyncData` |
| `EosSyncData` | map of types and list numbers to lists, status | `Tick`, `Recv`/`RecvCmd`, `ClearDirty`, `RemoveOrphanedCues` | creates, routes to and deletes lists |
| `EosOsc` | queue of packets to send, input buffer | `Send`, `Recv`, `Tick` | `EosTcp` |
| `EosTcp_Mac`, `EosTcp_Win` | socket, connection state | `Initialize`, `Tick`, `Send`, `Recv`, `Shutdown` | the console |
| `EosSyncLib` | owns the above | `Initialize`, `Tick`, `ClearDirty`, `Send`, `Shutdown` | the application |
| `OSCArgument`, `OSCPacketWriter`, `OSCBundleWriter` | arguments of a packet | encode and decode packets, lists of packets, bundles | `EosOsc`, applications |
| `OSCStream` | buffer, its size and capacity, frame mode | `CreateFrame`, `Add`, `GetNextFrame`, `Chop` | applications: nothing in the repository calls it |
| `OSCParser`, `OSCMethod` | a tree of methods | `ProcessPacket`, printing | applications |
| UDP, TCP server, log, timer | sockets, a message queue | wrappers | not part of the synchronisation |

What is hard: announcements that arrive during the first synchronisation or while earlier
requests are unanswered; replies that are older than the change they arrive after; targets that
arrive in pieces; lists of cues that come and go with the cue lists; a status and a dirty flag
that are cached at four levels and must agree; a counter that decides when the first
synchronisation is over; raw pointers in the UID map; requests that are never repeated;
connections that fail in any phase and are made again, by a library that keeps its send queue and
input buffer; byte streams that are cut anywhere.
`PROJECT.json` lists each of these at the line where it bites.

What makes each part right:

* a target is COMPLETE only with every property, and is then frozen;
* a list's counter and UID map agree with its targets, it is COMPLETE only when nothing is
  outstanding, and its dirty flag covers everything below it;
* the mirror, when it reports itself synchronised, equals the show as it was when the last
  announcement the library has read was made, and goes back to an older show never;
* it does get synchronised, whatever was changed on the way;
* nothing of a connection that is gone is taken for news of the next one;
* what is taken out of a byte stream is what was put in, in order, and as soon as it is there.

## Modules

| Module | Models | How it corresponds to the code |
|---|---|---|
| `EosSyncStatus` | the status objects | one operator per method |
| `EosTarget` | one target | `TargetRecv` is `EosTarget::Recv`, `PropGroups` the table of property groups, `PathData` the outcome of `ExtractPathData` |
| `EosTargetList` | one list | a list is a record, each method an operator from list to list; the requests a method queues are operators of their own (`TickRequests`, `IndexRequests`) |
| `TargetListMachine` | one list against any peer | variable `list`; actions `Tick`, `CountReply`, `TargetReply`, `Notify`, `ClearDirtyFlag` are the calls of the methods, in any order, with any arguments |
| `TargetListLemmas` | | what a good list is, and a lemma for each method of the class |
| `TargetListProofs` | | the inductive invariant of `TargetListMachine` and its proof |
| `EosSyncData` | the mirror of a show | again a record and operators; `TickRunning` goes over the lists in the order of the C++ maps, so that lists of cues created on the way are visited in the same call |
| `ShowMirror` | abstract specification of the library | a log of announced shows and a mirror that is either out of date or the head of that log |
| `EosSync` | the library, the connection and the console | `Tick(n)` is one call of `EosSyncLib::Tick` in which `n` packets have arrived; `ClearDirtyFlag` the application; `Answer` and the five kinds of change the console |
| `SequenceLemmas` | | induction, enumerations in order, joined and flattened sequences |
| `EosSyncProofs` | | the inductive invariant of `EosSync` and its proof |
| `ShowMirrorProofs` | | the proof that `EosSync` implements `ShowMirror` |
| `OscStream` | `EosOsc` at the level of bytes | `Send`, `SendImmediate`, `Tick` and `Recv` are the methods; `Extract` is the loop of `Recv`, `inputBuffer` and `sendPacket` the buffers kept between calls; the sending half of one `EosOsc` talks to the receiving half of another |
| `OscStreamProofs` | | the inductive invariant of `OscStream` and its proof |
| `EosTcp` | the sockets | `EosTcp_Mac` and `EosTcp_Win` side by side; an operator is the set of what a call may leave behind, one element per outcome of the socket calls it makes; for Tick the outcomes have names (`TcpReports`) and `TickMac` and `TickWin` say what each does |
| `EosSession` | `EosSync` over connections that fail | `InitializeLib` and `ShutdownLib` are the calls of the application, `SessionTick` is `EosSyncLib::Tick` with `EosTcp`; `ConsoleCloses` and `ChangeUnheard` the console; `torn` says that the input buffer holds half a packet of an earlier connection |
| `EosSessionProofs` | | the inductive invariants of `EosSession` and their proofs |
| `OscArgument` | arguments of a packet | `InitSize` is `OSCArgument::Init`, `GetArgs` the loop over the type tags, byte by byte |
| `OscPacketWriter` | the writers | `Create`, `CreateList`, `CreateBundle`, `WriterForString` and `CreateForString` are the methods; uninitialised memory is a parameter |
| `OscMethod` | dispatch | `ProcessPacket` is `OSCParser`'s with its bundles, `ProcessMessage` is `OSCMethod`'s |
| `OscFrames` | `OSCStream` | a stream is its bytes and its capacity; both frame modes |
| `OscPipe` | writers, a stream, a reader and its methods | `Send`, `Arrive(n)` and `Read` are the two programs that use the classes: the reader may be slow |
| `OscPipeProofs` | | the stream proved, both modes, with its overflows |
| `MCTargetList`, `MCSync`, `MCOscStream`, `MCSession`, `MCOscPipe` | | the instances TLC checks |

Operators that begin their comment with "Mutant of" are not part of the model. Each changes one
operator the way a slip in that method would, and makes one property fail; that a property can
fail is as important as that it holds.

### What is abstracted

* Target numbers are natural numbers; the decimals of the code (cue 1.5) are other numbers of the
  same order. 0 stands for an invalid number.
* Property values, UIDs and labels are elements of `Val`. A packet is what the decoder makes of it:
  a kind, the list it is routed to, the number, part and group of its path, and its arguments. The
  prefixes `RecvCmd` compares (`/eos/out/get/cue` is one of `/eos/out/get/cuelist`) route as `Route`
  does, because the map visits CUELIST before CUE and a list of cues exists only along with it.
* In `EosSync` a packet is a unit that arrives or does not. `OscStream` shows that the bytes it is
  made of may arrive in any pieces: packets come out whole and in order, and none is held back.
* In `OscStream` a byte has `Base` values and a header `HeaderSize` bytes, read as a signed integer as
  in the code. The regions `Recv` hands to `memcpy` may overlap; `ShiftAway` takes the copy to be
  unharmed, as it is in the C libraries of macOS and Windows, for which the code is written. With a
  library that copies from the top it would not be (the mutant `ShiftAwayFromTop`).
* In `EosSession` every socket call may fail whenever it is made, and what was on its way is lost with
  its connection. Nothing intelligible is read behind half a packet of an earlier connection, and
  nothing that is sent reaches a console that is gone. The platform is a variable that never changes.
* In the modules of the parser a packet is its bytes. Numbers of 64 bits are two words, floating point
  numbers are bit patterns, and a line of text has no decimal points. Bundles hold messages.
  The four bytes of an RGBA32, which are never written, are any of `Uninitialized`. The methods of the
  tree return TRUE, as the base class does.
* The log, the timestamps and the wording of errors are left out.
* Packets the application sends itself and other clients' traffic are left out.

### The console

The console is not in the repository. `EosSync` models it after "Eos Integration via OSC.pdf",
which is: it answers requests one at a time and in order, each from the show as it is at that
moment; a target is answered with one reply per property group, the base group first; a target
that does not exist is answered with a base group without arguments; a subscribed client is sent an
announcement when a change is made, so that every reply sent before the announcement is older than
the change and every later one newer; a change of several targets is one announcement; loading a
show is an event all clients get. Two things the document leaves open are assumed: a cue list that
is recorded or deleted with its cues is announced before its cues, and both announcements leave
together. Without the first the library can lose a list of cues (see the hazards).

## Runs

| Run | Question | Bounds |
|---|---|---|
| `list_machine` | Does a list keep its counter, UID map, status and dirty flag right whatever arrives? | groups (two property groups, no parts) and patch (parts 1 and 2), two numbers, two UIDs, counts up to 2; 35,000 states |
| `sync_group` | Does the library implement `ShowMirror`, and can nothing it waits for get lost? | two groups, three contents, two changes of any kind at any time; 112,000 states |
| `sync_cues` | Does it implement `ShowMirror` with cue lists and the lists of their cues, are cues ever kept without their list, and is the mirror synchronised in the end? | two cue lists of at most one cue, starting from none or both, one change; 36,000 states |
| `osc_stream` | Does the framing deliver the packets that were sent, and nothing else? | three packets out of three whose bytes can pass for headers, headers of two bytes with four values, five bytes per `recv`, so that a packet may arrive in pieces, several at once, and the rest be longer than the frame; sends that break off anywhere, a header of length zero or less; 45,000 states |
| `session` | Is the mirror of each connection right, whatever became of the ones before, and synchronised in the end? | both platforms, two calls of Initialize, Shutdown at any time, every failure at any time, no groups and at most one macro, one change at any time, also while not connected; 40,000 states |
| `osc_pipe` | Do messages, lists, bundles and lines of text arrive at their methods as they were sent? | nine programs of up to four inputs with every type of argument but RGBA32, a bundle that just fits a frame, a packet that escaping doubles, a text that makes no packet, bytes that are delimiters and escapes, both modes, chunks of 5 and 10 bytes, packets up to 44 bytes and a buffer of 176, so that a slow reader overflows it; 27,000 states |
| `connected_at_once` | finding | one group, one change |
| `list_packets` | finding | one group, replies of three arguments in packets of two |
| `multi_part` | finding | one channel of two parts, one change |
| `leftovers` | finding | two connections on macOS, one change |
| `peer_gone` | finding | one group, one connection on macOS, no change |
| `osc_colors` | finding | one packet of a color and a number |

Bounds. `MaxEdits` bounds the changes: one change can meet each phase of a synchronisation, a
second one meets the resynchronisation the first has caused, and after the second the library has no
state that depends on how many there were. Two numbers are needed for moves and for the order of
requests, two UIDs for a target that is replaced by another, two labels for a change of content
only; a target's other properties are handled like the label. The list machine needs no bound on its
length: it is a finite system. `MaxCount` only has to exceed the number of targets.

The properties of `EosSync`:

* `ImplementsShowMirror` - refinement. `log` is the show before each announcement not yet read,
  followed by the current show; `mirror` is what the targets say while `IsSynchronized`. The first
  message about a change carries the show as it was before as a history value that nothing but the
  mapping reads.
* `WaitsAreAnswered` - the library never retries, so whatever it waits for must be on the way.
* `SynchronizedLists` - once it reports COMPLETE no list waits for anything, and counters agree with targets.
* `SynchronizedUids` - and a UID leads to the one target that has it.
* `NoOrphanedCues` - no cues without their cue list.
* `ResyncIsDirty` - a poll of the dirty flag notices every resynchronisation.
* `EventuallySynchronized` - liveness.

The properties of `OscStream`:

* `DeliveredInOrder` - what is delivered is a prefix of what was sent, even behind a broken frame.
  Behind a header of length zero or less nothing is delivered any more: `Recv` neither drops nor
  rejects it, and the connection is of no further use. The properties below exclude that case.
* `NothingHeldBack` - no complete packet waits in the buffer for bytes that may never come.
* `BufferBounded` - the input buffer stays below the longest frame plus one `recv`.
* `EverythingArrives` - what is queued is sent and delivered while the connection holds.

The properties of `EosSession`:

* `ImplementsShowMirrorAcrossSessions` - the refinement of `EosSync`, with connections that come and
  go: what `IsConnectedAndSynchronized` vouches for is the show as last announced. It asks of a
  connection that `EosOsc` holds nothing of an earlier one when it is made (`fresh`); without
  that it does not hold (finding 4).
* `NothingCarriedOver` - while there is no established connection there is no mirror, unless a
  connection has failed and not been shut down.
* `WaitsAreAnsweredWhileUp` - packets are lost only with their connection, also when the queue was
  left by another one or a second Initialize has reset the mirror.
* `WinsockPaired`, `BrokenUntilShutdown` - the sockets.
* `ResynchronizesWhenUp` - liveness.
* `ConnectingEnds` - liveness too, with a fairness of its own for each report Tick may come upon, the three kinds of
  failure and success: each is enough, alone, to end a connection in progress. With one
  fairness for all of them a branch of Tick that forgets `Shutdown` would pass, because another would do.

A second connection is the first that can find leftovers; a third finds no others, since what is
left is a queue and half a packet or nothing. Two lists are what it takes for a queue to be left:
Tick sends one packet a call.

The properties of `OscPipe`:

* `FramesInOrder`, `NothingHeldBack` - the frames are the packets sent, whole, in order and at once.
* `StreamBounded`, `OverflowOnlyWhenLate` - the buffer is bounded, and only a reader that is late, or a
  frame too long for it, makes it overflow. One packet of the run is all delimiters, so that escaping
  makes its frame longer than `MaxFrameSize`, and too long in this sense.
* `Resynchronizes` - in SLIP mode the frames are packets that were sent, in order, but for at most one damaged
  frame per overflow, and that is the end of a packet that was cut.
* `HandledAsSent`, `ListsReassemble` - from the arguments given to a writer to those a method finds, by
  type and value, also for each element of a bundle. It holds of all types but RGBA32, which the
  run `osc_colors` sends (finding 6).

`MaxFrameSize` and `MaxBufSize` are in a ratio of 1 to 4, as MAX_FRAME_SIZE and MAX_BUF_SIZE are.

Deadlock is not checked in the runs of `EosSync`, `EosSession`, `OscStream` and `OscPipe`: when the mirror
is synchronised and the console is left alone, or every packet has arrived, nothing happens any more. The list machine can always take a step.

Fairness (`FairSpec`). An application calls Tick in a loop (main.cpp:90-136), so a step Tick can make
on its own is made; TCP delivers what was sent, so packets do not stay unread for ever, and
completes a pending connection or reports an error (the errors are in `EosSession`); the console goes
on answering. Nobody is obliged to change the show or to clear the dirty flag. The two conditions on
Tick are written out without ENABLED: Tick has work exactly when it would change something.
`OscStream` assumes of the same loop that a queued packet is eventually sent and arrived bytes are
eventually read, in pieces of any size.
`FairSessionSpec` asks the same of Tick and of the console while there is a connection. Nobody has to
call Initialize or Shutdown, no connection has to be made, and no failure has to happen; `ResynchronizesWhenUp`
therefore speaks of behaviours in which a connection holds from some time on, and `ConnectingEnds` brings
the fairness it needs as a hypothesis: the report in question does not stay away for ever. On Windows
a refused connection is not among the reports.

## Findings

1. `connected_at_once`: Tick subscribes when it sees the connection being made. When `connect()`
   succeeds inside `Initialize` (EosTcp_Mac.cpp:78-84), as it may for a console on the same machine,
   the library never subscribes; the mirror reports itself synchronised and is never updated.
2. `list_packets`: `ExtractPathData` parses the position of a packet in a list of packets but never
   sets `isList`, so the packets of a split reply are taken for whole replies, and a base packet
   with one argument for a removal. The first synchronisation never ends.
3. `multi_part`: after a change of a target with several parts its list is COMPLETE when the first
   part has arrived; the replies for the others are then ignored as unsolicited.
4. `leftovers`: Shutdown leaves the send queue as it is. Requests of the old connection are sent before
   the subscription of the new one; their answers complete the new mirror, a change made before the
   console reads the subscription is never announced, and the mirror is wrong while
   `IsConnectedAndSynchronized` is true.
5. `peer_gone`: when the console closes the connection recv() returns 0, which Recv takes for no data.
   The library stays connected; the example program's "Disconnected" is never printed.
6. `osc_colors`: `AddRGBA` queues a color and `Create` counts four bytes for it, but `WriteArg` has no case
   for it. What is sent is what was in the memory `Create` allocated.

## Proofs

`TargetListProofs` proves, for all values of the constants (all finite sets of numbers and parts,
every set of values, replies and counts), what `list_machine` checks on small ones: `TypeOK`, `NumTargetsExact`,
`UidLookupSound`, `CompleteSound`, `DirtyReachesList`, `NoMissedChange` and `CompleteTargetsFrozen`.
The assumptions are those the modules name: numbers are naturals, parts integers with 0 among them,
`NoTarget` is no key, the empty string is a value, and replies name keys and carry values.

The properties are not inductive one by one. `CompleteSound` survives a Tick only if the UID map,
the counter and the entries agree; `NoMissedChange` survives a late packet only because a COMPLETE
list has COMPLETE targets, which are frozen; the target of a key without an object must be a new one.
`GoodList` is the conjunction of the named parts (`TypeGood`, `CountGood`, `UidGood`, `PhaseGood`,
`TargetsGood`, `CompleteGood`, `DirtyGood`), stated of an arbitrary list. Each method has a lemma:
called on a good list it returns a good list and takes a `GoodStep`, by which a list that ends
COMPLETE and clean has not changed, and COMPLETE targets keep their properties or go. These lemmas are
in `TargetListLemmas`, because the mirror of a show needs them too.
`NextGood` puts the methods together, `Invariance` concludes, and the theorems read off its parts.

`EosSyncProofs` proves of the library and the console together, for all shows, all subscribed types, every
way to split and order changes and queues of any length, three properties of `sync_group`:
`WaitsAreAnswered`, `SynchronizedLists` and `ResyncIsDirty`. The inductive invariant `IInv` has five parts.

* `connect` is one of the two states a connection has there.
* `PacketsOK`: what is in the three queues are requests and commands, well formed. That is what the
  console sends (`AnswerFacts`, `ChangeKeeps`) and what the lists send (`ListRequests`), down to the parts a
  path may name and that no packet names target 0.
* `GoodData`: each list is a good list in the sense of `TargetListLemmas` and has the type and number of its
  key, a COMPLETE mirror has COMPLETE lists only, a dirty list is below a dirty mirror, an uninitialised one
  has no lists. The dummy under `<<"CUE", 0>>` is born COMPLETE and nothing is ever routed to it.
* `ResyncIsDirty`, which goes with a lemma for every method that no COMPLETE and clean mirror comes from one
  that was not (`DataStep`).
* `AllAwaited`: whatever a list waits for is in one of the queues. It is why no request is marked as sent
  before it is queued, why a reply may be consumed only by the list it is for, and why `Answer` must reply
  to a target that is gone.

A Tick runs over the lists and then over the packets that have arrived; both are recursive functions on an
interval, and `TickRunningGood` and `RecvGood` are inductions over it (`Induction` in `SequenceLemmas`, from the
least number, since the library's induction theorems are out of reach). In the loops `AllAwaited` is weaker:
a list may wait for what the packets not yet handled, and those just queued, will bring. `TickRunningGood`
also needs that the loop visits every list, hence that the order of the map is a strict order on a finite
set (`KeySequenceFacts`), that lists made on the way are visited or born COMPLETE, and that a list that is
visited and reports COMPLETE stays so for the rest of the loop.

Besides the types, the assumptions say what a show and a console are: a show has distinct UIDs, valid parts,
numbers from 1 on (`ShowTargetsAssumption`), its cues belong to cue lists that are among its lists
(`ShowCuesAssumption`), a channel that does not exist is answered with part 1 (`AbsentPartAssumption`), and
every cue list number is one a list of cues may have (`CueListAssumption`).

`ShowMirrorProofs` proves the refinement itself (`Refinement`, property `ImplementsShowMirror` of `sync_group` and
`sync_cues`), and with it `SynchronizedUids` and `NoOrphanedCues`, for all shows, subscribed types, contents, bounds
and interleavings of changes. It has three hypotheses, which the constants of those runs satisfy.

* `InitialConnect \subseteq {"IN_PROGRESS"}`. With a connection that is made at once the refinement fails, since changes
  are never announced (finding 1).
* `OnePart`: a number is one target, with part 0 but for cues and channels. With two parts the refinement fails
  (finding 3).
* `ArgsPerPacket >= 3`: the three arguments a property group has here come in one packet. With less nothing is
  synchronised any more (finding 2), and the promise would be about nothing.

`IInv` is not enough, because it says which packets there are and not what is in them or in which
order. `ChronicleInv` adds to it `SubscriptionFirst` (before the console has read the subscription only loaded
shows are announced, no list has its count, and the subscription is the first packet of the queue) and that there is
a chronicle `H`: a sequence of views of the show, one more than there are packets on the way to the
library, such that

* `Explains`: packet `i` is true of the step from `H[i]` to `H[i + 1]`. A reply is true of `H[i]`, its count or its
  target's content, and changes nothing. A notification names every number whose target changes; a show event may
  change everything. The last view is the show.
* `DataMirrors(H[1], data)`: what the mirror has is true of the first view. Every target is one of the view, shows its
  content as far as it has been told anything, and has its UID in the map (`TargetMirrors`); the number of targets a
  list waits for is right; a list that has them all has an entry for every target of the view (`Covers`); and the
  lists of cues go with the entries of the list of cue lists (`CuesKnown`, `CuesListed`).
* `Precedes` and `Ready`: the packets that only make sense in a row are in a row. The later property groups of a
  target follow its base group. The second notification about a cue list (`Second`), between whose
  halves the view is no show (cues without their cue list), follows the first, and a mirror that has read just
  the first has the entry of the cue list invalidated, so that it is not synchronised
  (`SynchronizedIsSettled`).

Per action: a Tick reads the first packets and goes on from the view behind them (`TickTells`, two
inductions, over the packets and over the lists of the mirror); an answer is made of replies that are true of the
show as it is (`AnswerSays`); a change appends one or two announcements and a new last view
(`ChangeIsAnnounced`). A mirror that is COMPLETE has every target of its view and no others
(`SynchronizedShown`), so it is the head of `AnnouncedShows` (`MirrorIsHead`). The steps then map as follows. A Tick that reads
replies only is a stutter or `Sync`. A Tick that reads an announcement leaves the mirror not COMPLETE,
which is `Invalidate` or nothing new to an unsynchronised mirror. A change is `Edit`, or, before the subscription has been
read, `EditUnannounced`; it needs that the mirror is not synchronised then, which is `SubscriptionFirst`.
`Answer` and `ClearDirtyFlag` are stutters. The log is a flattened sequence of what each packet announces;
`SequenceLemmas` has what `FlattenSeq` does to joins, to one sequence and to empty ones.

`EosSessionProofs` carries the three of `EosSyncProofs` over to connections that fail and are made again: `MirrorInv` is `IInv`
with `AllAwaited` required only of a connection that is up, open at the console and not misread
behind half a packet. `WaitsAreAnsweredOnline` is the property of the `session` run, `SynchronizedAcrossSessions` the
other two under `SessionSpec`. What makes it true is that Shutdown clears every list with the connection,
so that what a queue left behind answers is at worst unasked for.

`EosSessionProofs` also proves `WinsockPaired`, `NothingCarriedOver` and `BrokenUntilShutdown` for all shows,
lists, replies and numbers of connections, from the assumptions of the modules (the platforms are the
two there are; connect() leaves a connection in progress or made). The inductive invariant is
`SessionInv`: the platform is one of the two, `GoodTcp` (socket, connection state, m_WSAStartup and
Winsock's count agree; a connection in progress has a socket), and there is no mirror unless a
connection is up or has failed. The properties need it: that Shutdown leaves Winsock paired depends on
m_WSAStartup having been set on each way into a connection, and that Initialize does not revive a
failed connection depends on its socket being there. Each socket operation has a lemma about all its
outcomes, and `DataTick` is never run without a connection, so that nothing has to be known of it.

`OscStreamProofs` proves the three safety properties of `osc_stream`, `DeliveredInOrder`, `NothingHeldBack` and
`BufferBounded`, for bytes and headers of any size, all finite sets of packets, and every way a stream is
cut, breaks off or carries headers that announce nothing. The assumptions are that a packet is not empty and
its length a positive `int32_t` (`PacketsAssumption`), and that the headers called empty are read as
zero (`EmptyHeadersAssumption`). The inductive invariant `IInv` is about the bytes under way, those in the input
buffer followed by those on the wire: they are the frames of the packets sent whole and not
delivered (`Flow`), and behind these there is nothing, or a part of a frame after which the sender is down, or an
empty header, which the receiver never gets past (`Behind`). That no complete packet waits in the buffer
between calls is a part of it. The delivered packets are the first of those written, so `DeliveredInOrder`
follows; with no bytes on the wire what is in the buffer is less than a frame, hence the other two.
A step needs that what is at the head of the buffer is recognised as exactly the frame it is: that is
`HeaderRoundTrip`, the digits of a length being an induction over the bytes of a header, `TakesNext`, for one
round of the loop of `Recv`, and `ExtractFacts`, an induction over the rounds. `OverwrittenFacts` is why the
frames sent earlier, of which bytes stay in `m_SendPacket`, are never sent again.

`OscPipeProofs` is about `OSCStream` and the two programs that use it, for all programs, packets, trees of methods
and chunk sizes.

* Of the operations, for every word, packet and stream: numbers of 32 bits survive the way into a packet and
  back (`WordRoundTrip`); `Add` and `GetNextFrame` keep a stream within its capacity and MAX_BUF_SIZE
  (`AddBounded`, `GetNextFrameBounded`); `GetNextFrame` takes out what `CreateFrame` has put in and
  leaves what follows (`FrameRoundTrip` behind a header; in SLIP mode `EscapesCancel`), and
  nothing before the last byte is there (`PartOfFrameIsKept`). `GetsNextFrame` puts the modes
  together: it is what `GetNextFrame` does to any prefix of a sequence of frames.
* `StreamBounded` needs that the bytes on their way are bytes, which is why `PipeInv` speaks of the
  wire and of the inputs still to be sent.
* `FramesInOrder`, `NothingHeldBack` and `OverflowOnlyWhenLate` rest on `FlowInv`: the packets sent are those
  received followed by some that are pending (`Pending`), and until a byte has been dropped the stream with the wire
  behind it holds exactly the frames of these, the first perhaps without the delimiter that opens it. That delimiter is gone when it
  arrived alone: `GetNextFrame_Mode_1_1` resets a stream of delimiters. A receiver that is not late has taken every whole frame before it adds, so that
  what is left is less than a frame; that bounds the buffer. These theorems assume that MAX_FRAME_SIZE is less
  than 2^31, as it is: a header holds 32 bits.
* `Resynchronizes` needs more, since after an overflow the bytes may begin anywhere in a frame, also between an escape and
  the byte it escapes. In `ResyncInv` (`Salvages`) the packets sent are those that are gone and those whose frames are still
  complete. The frames received are salvaged from the gone ones, with a certain number damaged. The bytes under way
  are whole frames, or the end of one frame, of a packet that is gone, and whole frames behind it (`Cut`): then one
  overflow is not yet accounted for by a damaged frame. An overflow (`DroppedResumes`) drops bytes at the front, which turns either form
  into one of the two again (`FramesResume`, an induction over the packets whose frames are dropped); a Read
  (`ReadsWhole`, `ReadsCut`) returns a packet, or spends the overflow on a damaged one.

The assumptions are that chunks are finitely many sizes, at least one and none of them 0 (`PipeAssumption`), and that what `CreateFrame` is
given are bytes (`InputsAssumption`). TLC evaluates the latter for the inputs of the run, because the writers are folds
and recursive functions.

Only model-checked:

* Liveness (`EventuallySynchronized`, `ResynchronizesWhenUp`, `ConnectingEnds`, `EverythingArrives`): beyond the
  prover.
* `ImplementsShowMirrorAcrossSessions`. A chronicle across connections would also have to account for what a queue left behind asks a new console, in
  which finding 4 lies.
* `HandledAsSent` and `ListsReassemble` of `OscPipe`: the provers would have to know what `GetArgs`, the writers and the
  dispatch, recursive functions and folds over sequences of any length, compute for every input.

## Not modelled

* The TCP server and `InitializeAccepted`, UDP: nothing in the repository uses them, and they are
  wrappers of socket calls.
* The log and the timer: no state the rest depends on. `Tick` empties a log that grows above 10000.
* The printing of packets and values: text for the log.
* `GetNumberFromString`, `GetStringFromNumber`, the texts of floating point numbers and the conversions
  of `OSCArgument`'s getters: the mirror compares numbers and values and computes with none. That a
  target 0 or a malformed number leaves a placeholder no reply can fill is therefore a hazard without
  a property.
* `AddMethod` (the tree of methods is a constant), `AddOSCArg` (no caller).
* `EosSyncLib::Send`, by which an application sends packets of its own. A command is one more packet in
  the queue. A request is answered like one of the library's: sent ahead of the subscription, it would
  do what the leftovers of finding 4 do.
* A connection refused on Windows: `EosTcp` has it, and nothing says what should happen.
