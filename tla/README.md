# Mini Wireshark: specification, model checking and proofs

TLA+ modules for the program in `src/`, TLC configurations that check them on
small instances, and theorems that TLAPS proves for every value of the
constants. Line numbers are those of the files under `src/`.

## The system

Mini Wireshark is a Qt/QML program on top of libpcap. There is a GUI thread,
which runs QML handlers and the slots of the C++ objects one at a time, and one
thread per capture.

| Component | State | Operations |
|---|---|---|
| Worker (`Pcap.cpp:3-346`) | `pp`, `num`, place in `set_Capture` | open, compile filter, `pcap_loop`, handler, close, posts |
| Pcap (`Pcap.cpp:348-1456`) | `wk_life`, `wk_pp`, `stop_flag`, `wk_flag`, `vec_dump` | `create_Th`, `stop_Th`, `reset_md`, `pcapFile_Read`, `save_md`, slots the workers call, detail lookups |
| Views (`Main.qml`, `CaptureView.qml`, `PktView.qml`, `NicListView.qml`) | page stack, `isCapturing`, `nicName`, save dialog | buttons, double click, opening a file |
| Capture (`Capture.cpp`) | `vec`, five sort flags | `update_md`, `reset`, five sorts |
| Open_List (`Open_List.cpp`) | SQLite file, `vec` | open, create table, read, `add_db` |
| IPv4 checksum (`Pcap.cpp:1439-1457`) | locals | one call |
| NicList and the first page (`NicList.cpp`, `NicListView.qml`) | interface list, filter, selected interface | enumerate, classify, filter, select, open a CaptureView |
| Packet rows (`Pcap.cpp:21-217`, `534-748`) | `st_pkt` | which packets become rows, their fields |
| Detail tree and hex dump (`TreeModel.cpp`, `TreeItem.cpp`, `Pcap.cpp:777-1430`) | tree of items, dump lines | `start_tree_md`, `start_hax` |
| Start and end (`main.cpp`) | the process | event loop, exit |

How they interact:

- A worker **never touches** Pcap. It posts calls (`Qt::QueuedConnection`); the
  GUI thread runs them in order, with user input between any two. One call,
  `set_wk_pp(nullptr)` at `Pcap.cpp:334`, is blocking: the worker waits for it.
- The one thing both threads hold is the `pcap_t` handle. The worker opens,
  loops on and closes it; `stop_Th` breaks the loop through `wk_pp`.
- A packet arrives as **two** calls, `update_md` (the row) and
  `dump_push_back` (the bytes). Save, the tree and the hex dump go by the second.
- QML keeps its own idea of whether a capture runs (`isCapturing`), Pcap keeps
  `wk_life`, `stop_flag`/`wk_flag` and `wk_pp`. The four are set by different
  steps and need not agree.

What makes it hard, and what makes each part correct:

- *Worker and Pcap*: a Stop that comes before `set_wk_pp` or after the loop
  ended; Start right after Stop, so that two workers overlap; Back out of a
  running capture; a save dialog that stays open while packets arrive. Correct
  means: the handle is not used after it is closed except in the window that
  the blocking call bounds; a finished worker is not referred to; rows and raw packets
  belong together; what is saved is one capture; a worker whose loop was broken
  ends as soon as it is not waiting for a packet.
- *Capture*: `std::sort` is undefined unless its comparator is a strict weak
  order, and the comparators are turned around by flags that live across resets.
- *IPv4 checksum*: carries of carries, order of the bytes in a word, width.
- *Parser, tree and hex dump*: the parser exists twice, and `start_tree_md`
  trusts it from 800 lines away; the tree is rebuilt for each detail page in a
  model that views are attached to. Correct means: a row, its page and its raw
  packet agree, a saved capture reads back the same, `parent` undoes `index`,
  and a replaced tree is deleted whole.
- *Packet fields*: a TCP length that is computed unsigned for the row and signed
  for the page; flag fields that are shown as a number, as a line of names and
  as a line for each bit, from three pieces of code. Correct means they agree.
- *Open_List*: statements that fail and are not returned on, several copies of
  the program on one file, the end of a copy between two statements.
- *NicList and the first page*: `selectNic` is a copy of a name from a list that
  the filter replaces; it is also the `nicName` that a file view is opened with.
  The marks of the kinds overlap, so the order of the tests decides. Correct
  means: what is selected is in the list, and what is opened is of the kind asked for.
- *The end*: nothing stops a worker or waits for it when the window is closed,
  and its pointer to Pcap is a plain one. Correct means: the program ends, also
  when a worker is blocked on the GUI thread, and it ends cleanly when no worker
  has anything left to say.

## Modules

| Module | Stands for |
|---|---|
| `CaptureSession` | Worker, Pcap, the views, and the event queue between them |
| `PacketLog` | abstract: what the packet table promises, without threads |
| `CaptureTable` | Capture: the rows in order, the sorts, their flags |
| `IpChecksum` | `compute_ip_checksum` |
| `PacketFields` | the values of a packet as the row and as the detail page word them |
| `PacketDetail` | both copies of the parser, save and read back, TreeModel and TreeItem, hex dump, PktView; extends `PacketFields` |
| `OpenList` | Open_List and its database file, several copies of the program |
| `NicList` | the kinds of interfaces and the list of one enumeration |
| `StartPage` | NicListView: composes `NicList` and `OpenList` with the CaptureViews opened |
| `Shutdown` | closing the window, the deletion of Pcap, the exit; composed with `CaptureSession` |
| `MC*` | instances for TLC (`IpChecksum` needs none) |
| `*_proofs` | theorems and proofs |

### CaptureSession

Every press of Start and every file that is read is a *source*, taken in
increasing order. A packet is its source and its number; the program sees the
number only, so two packets of different sources can be confused, as in the code.

- **Worker.** `pc[w]` names the place in `set_Capture`; each `invokeMethod` or
  `emit` is a step of its own (`Post`), so user input and other workers come
  between any two. In `pcap_loop` a worker is at one of two places: `loop`,
  where the break flag is tested, and `read`, where it waits for a packet.
  `Receive` is the handler accepting a packet, `ReadNothing` a read that times out
  or a packet the handler returns early on, `LoopError` an error of `pcap_loop`.
  The loop is skipped when the filter does not compile. After
  `clear_wk_pp` the worker is at `wait` until the GUI thread has run the call.
- **Break flag.** `pcap_breakloop` sets a flag (`brk`) that `pcap_loop` tests
  before it reads (`TestFlag`). It does not wake a read: one more packet may be
  handled, and without one the read may never return.
- **GUI thread.** `Deliver` runs the oldest call of the queue, one action per
  slot. `quit` is `sig_end` reaching `QThread::quit`; the thread and then the
  worker are deleted.
- **User.** One action per QML handler. A modal save dialog blocks input but
  not the posted calls. Reading a file happens in one go in `onCompleted`.
- **A closed handle.** `pcap_breakloop` on a handle that the worker has closed
  is undefined. The model allows both outcomes a build can show: nothing is
  noticed, or the process goes down (`crashed`), after which nothing moves.
- **WaitsForWorker.** TRUE restricts the *user*, never the code: captures are
  started, views left and opened only when no worker is alive. Properties that
  the code keeps for such a user only are checked with TRUE; those it keeps for
  everyone with FALSE.

The table is a set of rows here: sorting never changes which rows there are
(`CaptureTable` models their order). `Written` is what `save_md` would write;
opening it
later is opening a file like any other, and `PacketDetail` tells what it reads.

### PacketLog

The rows and the raw packets are those of one capture or one file, numbered
from 0; a packet is shown, then stored; the two lists are cleared together,
never between the two halves of a packet. `CaptureSession` with a user who
waits implements it (`ImplementsPacketLog`: rows are the numbers in `vec`,
dumps the numbers in `vec_dump`). For a user who does not wait it does not:
that is the finding `WrongDetail`.

### CaptureTable

`std::sort` is any rearrangement in which no row stands behind one that the
comparator puts after it: rows that compare equal may come out in any order.
The four ordered columns and the protocol column are actions of their own
because they turn their flags differently: number, source and destination sort
and then turn, length turns and then sorts, protocol moves on and then sorts.
`sorted` is a history variable: the column clicked last, and how many rows
there were. It is read by properties only.

### IpChecksum

The locals of the function, one action per statement. `Byte` is how many values
a byte has (256 in the program), a word is `Byte^2`, and the sum wraps at
`Byte^4`, so that TLC covers *all* headers of a small width. `Done` lets the
finished function stutter. The reference, `Sums`, adds the words of the header as
naturals; it is a recursive function and not a RECURSIVE operator, so that the
proofs can speak of it.

### PacketFields

Pure operators. A 16 bit field is its two bytes in the order of the packet, high
first, and `ntohs` reads it. `Info` is what the two parsers put into a row,
`IpPage` and `TransportPage` what `start_tree_md` puts into the titles of the
tree. `tcp_header_len` is `unsigned` (`Pcap.cpp:122`), so the length of the row is
computed modulo `UInt` and then made an `int`; that of the page is computed with
ints. Fields that are copied to the screen as they are (addresses, sequence
numbers, window, ids) are left out, and the MAC addresses are there for the
order they are shown in.

### PacketDetail

The user waits for a capture to be through before starting another, leaving the
view or opening a file (the interleavings are `CaptureSession`'s); a raw packet
still comes one posted call behind its row. One Pcap, a child of `Main.qml`,
serves all views: its tree, flags and `num` outlive a view, and `Back` only
clears the lists. A frame is its captured length, the header fields that the
branches test, and the fields shown; a byte is its position.
`my_packet_handler` and `packet_func` give the row of a frame, whose protocol is
`"none"` at an early return. They are two operators because they are two copies
in the code, and a mutant changes one of them.

`start_tree_md` is, for each item that it calls `addChild` on, the list of the
items added, in order (`HeaderLists`, then the list of the protocol's branch,
`TransportLists`). `addChild` sets the parent, whatever the constructor was given;
the two differ for `icmp_code` (`Pcap.cpp:1421`). An item is `<<g, v>>`: the
variable it is built in and the number of the call, so that items of two trees
differ and `heap` tells what has not been deleted. `DoubleClick` is the whole handler: the
old tree goes, the new one is built, and a PktView is pushed that reads the top
level of the model and evaluates `start_hax`. If the raw packet has not arrived
yet the fields are read from memory that is no packet, and the tree may be that
of any protocol. `~TreeModel` is empty, so the last tree is never deleted:
`ReplacedIsFreed` speaks of replaced trees only.

For UDP and ICMP neither copy of the parser, nor `start_tree_md`, compares a
header's length with what was captured. What such a frame shows is whatever lies
behind it in memory; `WholeAssumption` leaves frames cut there out, and
`TcpFieldsCaptured` is about TCP, where the code does check. `start_hax` and
`save_md` go by `caplen`, and so does the copy of the bytes here; the code copies
`len` bytes (`Pcap.cpp:239`, `:738`), and nothing it shows comes from behind `caplen`.

`MaxPkts` bounds the rows and the packets of a file, `MaxDetails` the detail
pages opened.

### OpenList

Each SQL statement is an action and may fail for whatever reason. `add_db` is
three steps: the call, the INSERT, and the SELECT with `update_vec`. A copy can
be ended between any two of them; what is committed stays. `query.next()` ends the
loop on an error as it does behind the last row (`Open_List.cpp:169`, `:207`), and
`update_vec` installs what was read until then: a SELECT may take paths off the
list, the one just added among them. So no property says that a list is complete
or only grows; `ShownIsStored` says that it shows nothing but what is stored.

### NicList and StartPage

`NicList` is pure: an interface is its name and the *marks* that `compare_Nic`
looks for in its name, description and flags, and `compare_Nic` is the order in
which it tests them. `set_Nic` gives the lists an enumeration may leave, for the
interfaces that are present when it asks.

`StartPage` is the first page of one copy of the program, `Here`, with the other
copies still working on the database. Which interfaces are present is chosen
anew at each enumeration: adapters come and go, and the page learns of it only
when it asks. The page is built in the order of the code (NicList, Open_List,
`onCompleted`). `onActivated` is the whole handler of the combo box: the list is
replaced, then the first entry is selected. The first click of a double click
is a click, so `onDoubleClicked` selects too. `add_db` runs to its end before a
file view is pushed, so `Accepted` is the last step of `add_db` and the push. A
file view is given `selectNic` along with the path, as in `NicListView.qml`.

### Shutdown

`CaptureSession` with the end of `main`. `app` goes from `exec` to `closing` (the
event loop is told to quit, and may still run posted calls), to `deleted` (the
engine has deleted the QML objects, Pcap among them), to `exited`. From Qt: calls
queued for an object go with it, and a thread blocked on such a call
(`Pcap.cpp:334`) is let go; `sig_end` is connected to the thread and not to Pcap.
A worker that posts a call to the deleted Pcap does what is undefined: either
nobody ever runs the call (`Post`), or the process goes down (`DanglingPost`).
`owing` records which workers had calls to post when the window was closed; it is
read by `QuietCloseIsSafe` only. A modal save dialog keeps the window from being closed.

## Runs

| Run | Instance | Shows |
|---|---|---|
| `Hurried` | 2 sources, 1 packet each, any user | `HandleWindow`, `RowHasDump`, `NothingFromTheDead`, `QuietIsClean`, `NobodyIsStuck` |
| `Patient` | 2 sources, 2 packets, waiting user | `DetailIsOwn`, `SaveMeansStopped`, `SavedIsOneCapture`, `ImplementsPacketLog` |
| `Progress` | 1 source, 4 packets, any user, fairness | `TypeOK`, `DumpInOrder`, `BrokenLoopEnds`, `RowGetsDump` |
| `Exit` | 2 sources, no packets, any user, fairness | `QuietCloseIsSafe`, `CloseEnds`, `StoppedEndOrClosed` |
| `Detail` | 7 frames, 2 packets, 2 detail pages | `TypeOK`, `TreeIsOfRow`, `PageTellsRow`, `FlagsTellSame`, `TcpFieldsCaptured`, `HexIsDump`, `ParentOfIndex`, `ReplacedIsFreed`, `SavedReadsBack` |
| `Table` | 4 packets, up to 3 rows | `ComparatorsAreOrders`, `HeadIsSorted`, `ProtosInTurn` |
| `Checksum` | bytes of 3 values, headers of 4 and 8 bytes | `ReturnsChecksum`, `NeverWraps`, `Terminates` |
| `Start` | 2 copies, 2 paths, 4 interfaces | `ShownIsStored`, `SelectionIsListed`, `OpenedIsOfLabel` |
| `LostStop` | 1 source, 1 packet, waiting user, fairness | **violated**: `StopReachesLoop` |
| `NotSavable` | 1 source, 1 packet, waiting user | **violated**: `StoppedIsSavable` |
| `WrongDetail` | 2 sources, 1 packet, any user | **violated**: `DetailIsOwn` |
| `SwappedMacs` | 7 frames, 1 packet, 1 detail page | **violated**: `HeadlineNamesMacs` |

Why the bounds are enough to be interesting:

- Two sources are what overlap needs: a worker that is still closing while the
  next one opens, or a file read over a running capture. One packet each is
  what a number clash needs. `Progress` trades the second source for packets,
  so that a packet, a clear and further packets fit in one capture; it
  checks `DumpInOrder` within one source, and the proof covers overlaps.
- `Exit` needs two workers, one of which may be blocked while the other opens or
  loops; `StoppedEndOrClosed` is `BrokenLoopEnds` for workers that overlap. It has
  no packets: a row or a raw packet posted to a deleted Pcap is one more post of
  the same kind as those around it, and the proof of `QuietCloseIsSafe` covers
  any number of them.
- `Patient` needs two packets for order and gaps, and two sources for a second
  session after the first.
- The frames of `MCPacketDetail` lie on the boundaries of the parser's checks (a
  TCP header that just fits, one byte short, options in both headers) and of the
  hex lines (a length that is a multiple of 16, lengths that are not). Two detail
  pages are what replacing a tree needs; two packets give a lookup something to
  miss. The fields lie on boundaries too: a total length smaller than the headers
  (the row's unsigned subtraction wraps), the largest total length, fragments with
  DF, with MF, and with RF and MF set, a UDP length below 8. `UInt` is 2^18, the
  smallest power of two that the assumption allows and within TLC's ints; the
  proof is for every width.
- Three rows are what transitivity of a comparator needs, and the packets of
  `MCCaptureTable` hold two rows with one number, an address that is larger in
  an early octet and smaller in a later one, and all three protocols.
- With bytes of three values and eight bytes the four words reach a sum with a
  carry that has to be added; a carry out of adding a carry needs no more.
- Two copies and two paths give an INSERT of one between the INSERT and the
  SELECT of the other, of the same or another path, and a SELECT that reads one
  path of two. Of the four interfaces three
  look like Ethernet adapters and two of those are of another kind as well, so
  that only the order of the tests tells them apart; each may be absent, so lists
  are empty, of one entry and of several.

`CHECK_DEADLOCK` is on everywhere. After a crash and after the function has
returned, `Down` and `Done` stutter.

### Fairness

`FairSpec` of `CaptureSession` has weak fairness of the GUI event loop
(`Deliver`) and of each step of a worker that is straight-line code, the test of
the break flag included. Nothing is assumed of the user, of traffic, of an
interface going down, or of a read: `Receive`, `ReadNothing` and `LoopError` are
not fair. The read timeout of 1000 ms (`Pcap.cpp:264`) is no reason to assume that
reads return: it "cannot be used" to make them return within a limited time
(`third_party/npcap-sdk-1.13/docs/wpcap/pcap.html:111`), and `pcap_breakloop` from
another thread does not wake the loop (`pcap_breakloop.html:64`, same directory).
So `BrokenLoopEnds` and `StoppedEndOrClosed` speak of a worker that is not in a
read, or comes out of one: it ends, and no packet sends it into another read. A
stopped capture on a silent interface may stay in its read for ever, with
`wk_life` TRUE; that is what the code leaves open. The program ends all the same
when its window is closed: `CloseEnds` holds with a worker in such a read.
`ShutdownFairness` keeps this, for the stages in
which the event loop or the threads still run, and adds that `main` goes on once
`exec` has been told to quit; nothing is assumed of when the window is closed, or of
the order in which the process and its threads end. `FairSpec` of `IpChecksum` has weak fairness of
the function's own next step.

## Findings

- **A Stop can be lost** (`LostStop`). `stop_Th` returns while `wk_pp` is null
  (`Pcap.cpp:406`), which it is until the posted `set_wk_pp` has been run. The
  handler in `CaptureView.qml:129` sets `isCapturing` to false regardless. In the
  trace Stop comes between Start and `set_wk_pp`: the capture goes on with Stop
  disabled, and its break flag is never set.
- **A capture that ended by itself cannot be saved** (`NotSavable`). Save is
  enabled by flags that only `stop_Th` sets, and only while a handle is held. In
  the trace a packet is captured, `pcap_loop` returns an error, the worker closes
  its handle and ends; a Stop after that changes neither flag.
- **The detail page can show another capture's packet** (`WrongDetail`). Back
  stops, resets and leaves without waiting for the worker
  (`CaptureView.qml:428-430`), and a file opened next shares the table with what
  the worker still adds, or with rows that the reset left. Either order violates
  the property equally soon. Back before `set_wk_pp` and `set_wk_life` were run: the
  Stop is lost, the lists are cleared, and the capture adds its first packet after
  the file was opened. Back while `wk_life` is TRUE: the reset is skipped
  (`Pcap.cpp:446`) and the rows stay. Both number from 0, and lookups go by number.
- **The headline of the Ethernet header swaps the addresses** (`SwappedMacs`).
  `Pcap.cpp:892` fills `Src` with the destination and `Dst` with the source; the
  two lines under it (`:897`, `:898`) are right.

## Proofs

All theorems hold for every value of the constants allowed by the named
assumptions (`SourcesAssumption`, `UserAssumption`, `PacketsAssumption`,
`RowsAssumption`, `UIntAssumption`, `FramesAssumption`, `WholeAssumption`,
`BoundsAssumption`, `ByteAssumption`, `HeaderAssumption`, `PathAssumption`,
`InterfacesAssumption`, `HereAssumption`).

**CaptureSession_proofs**, for any number of captures, files and packets.

- `TypeCorrect`: `TypeOK` is not inductive alone. A row is posted with number
  `num[w] - 1`, a natural number only because `Receive` has counted it:
  `NumCounted` is the other half of `TypeInv`.
- `HandleWindowHolds` and `DeadAreSilent` come from one invariant, `HandleInv`.
  What matters is what is still in the queue, and that it is FIFO. A
  `clear_wk_pp` or a `quit` is the last queued call of its worker, which has
  stopped there (`LastStops`, `LastIsLast`); a worker whose `set_wk_pp` is queued,
  or whose handle Pcap holds, has not had its `clear_wk_pp` run (`HandleQueued`,
  `HandleKnown`); and a handle is closed late in the code (`ClosedLate`).
  `HandleWindow` alone says nothing of the queue, so no step could keep it.
- `RowsHaveDumps`: a queued `update_md` is followed in the queue by the
  `dump_push_back` of the same packet, or its worker is about to post it
  (`RowFollowed`). So it does not matter when the lists are cleared.
- `QuietStaysClean`: `wk_life` is one flag for all workers, so with two of them
  it does not say *which* runs. The invariant (`LifeInv`): while it is set, or a
  `life_on` is queued, some worker's `life_off` is still to come (`LifeEnds`,
  `LifeFollowed`). The handle is `HandleKnown`.
- `NobodyStaysStuck`: a worker at the blocking call, or at its end, has that call in
  the queue. With `HandleInv` this is inductive: the queue loses its head only, and
  when the head is what a worker waits for, it is this worker that moves. It is
  the safety half of `BrokenLoopEnds`, for any number of overlapping captures.

**WaitingUser_proofs**, about `CaptureSession` for a user who waits for the worker
(`WaitsForWorker /\ Spec`). None of the properties is inductive: each is decided
by calls that are still queued. `WaitInv` says that one source at a time owns the
lists (`Owner`), and ties what Pcap holds to how far the worker has come: the oldest
call finds Pcap as the call before it left it (`Ready`), each queued call is the one
`set_Capture` posts after the call before it (`Follows`), and the youngest is the
last that the worker posted (`Stands`). An unfinished row is the last of `vec`, and its
raw packet the next to be stored (`Half`).

- `DetailStaysOwn`, `SaveStaysStopped` and `SavesOneCapture` are read off `WaitInv`.
- `PacketsAreOneLog`: each step of the session is a step of `PacketLog` or changes
  neither list; a row arrives at a level table, a raw packet behind its row, and
  the lists are cleared when no packet is half stored.

**DumpOrder_proofs**: `DumpsInOrder`, for overlapping captures too. For each
source `posted` counts the raw packets it has posted or read. Of those stored,
then those queued, numbers go up (`QueuedUp`, `StoredUp`, `StoredFirst`), stay below
`posted` (`QueuedBelow`, `StoredBelow`), and every number between one of them
and `posted` comes behind it (`QueuedAll`, `StoredAll`). `DumpInOrder` alone is not
inductive: what is stored next is decided by what is queued.

**CaptureTable_proofs**: `SortsAreDefined` follows from types and from the
order of addresses (the first octet that differs decides). `ClicksStay` is by
one step per action, with the direction of the last click read off the flag.
`ProtocolsTakeTurns` follows from it.

**IpChecksum_proofs**: `SumNeverWraps` from `Bounded` (after `i` bytes the sum is
at most `i / 2` words) and the length of a header. `EveryStepCounts` is the
safety half of termination. `CarriesKeepResidue` is why the result is a one's
complement sum: a carry takes a multiple of `Word - 1` away.
`ReturnsTheChecksum` is the whole: the invariant `Added` says that the sum is that of
the words so far while words are added, that afterwards only a multiple of
`Word - 1` is missing, and that a sum is 0 only if all words are. It needs to know
what the recursive function `Sums` is for a header of any length, hence that the
function exists, which is an induction over the length. The induction theorems of
the library take the induction hypothesis as an operator and cannot be used; but
inclusion among the subsets of a finite set is well founded by a theorem without
such a parameter, and applied to the intervals `1..k` that gives a least element
for every set of naturals (`Smallest`), and so induction for sets (`Inductive`).

**PacketDetail_proofs**, for any frames and any number of packets, pages and files.

- The lemmas about operators carry the arithmetic. `ParserCoversTree`: a TCP frame
  that either parser accepts holds all the bytes `start_tree_md` reads.
  `SignedIsExact`: an unsigned difference made an `int` again is the difference,
  as long as that fits; `TcpLengthsAgree` follows, and with it `RowMatchesText`:
  the row of a frame and the page of the same frame tell the same.
- The inductive invariant is `IInv` (it was first tried with TLC on the instance of
  `Detail`). `LogInv`: rows are numbered by their place, the raw packet in a place has
  the row's number and is the frame that the row was made of, and the queued raw
  packet is the missing last one. So the lookup by number finds the frame of the row
  or nothing (`DumpIsOfRow`), which `ShownInv` says of what a PktView shows.
  `TreeInv`: the heap is the tree of one protocol, built by the last call, and
  nothing else; `PageInv`: what the page shows is that tree, of the packet's
  protocol. `FileInv`: each frame of a saved file gets a row. The properties
  alone are not inductive: a page is made of lists that they do not speak of, and
  that a tree is deleted whole depends on the shape of *every* tree that may be there.
- `DetailTypes`, `TcpReadsInside`, `PageTellsOfRow` and `TreeIsOfItsRow` follow.
  `ParentsOfIndexes` and `ReplacedTreesAreFreed` rest on
  lemmas about trees: no item is held by two lists or twice by one, and no tree is
  deeper than what `~TreeItem` is unfolded to.
- `FlagsTellTheSame` is about all values of the two bytes, by arithmetic on the bits.
  `HexShowsDump` is about every length. `SavedFilesReadBack`: the positions of a
  saved file's frames that get a row are all of them, and an increasing map of
  `1..n` into itself is the identity; this is where `Smallest` is needed here.

**StartPage_proofs**, for any interfaces and any number of copies. `PageInv`: the
list on the page holds names of interfaces of the kind that the combo box shows,
`selectNic` is one of the list (none when it is empty), and a view on top was
given that very name. `SetNicLists` is the
lemma about `set_Nic`: what it lists is in `Interfaces` and of the kind asked
for. `SelectionStaysListed` and `LabelsAreKept` follow. `ShownStaysStored` is from
the fact that rows of the database are never deleted and a list is only ever replaced
by some of the rows there are. It is of `OpenList`'s
specification, and `PageIsACopy` carries it over: every step of the page is a step of
one copy in `OpenList`, or changes nothing there.

**Shutdown_proofs**. `QuietClosesAreSafe` from `ClosedInv`, on top of `TypeInv` and
`HandleInv` of `CaptureSession_proofs`: when no worker owed a call as the window
was closed, every worker stays silent. That needs `HandleInv`: the closing event
loop may still run posted calls, and one of them, `clear_wk_pp`, sets its worker
going again; a silent worker must not be the sender of one.

Model-checked only: all liveness (`BrokenLoopEnds`, `RowGetsDump`, `Terminates`,
`CloseEnds`, `StoppedEndOrClosed`), since the prover does not reason about fairness
and ENABLED. Of what they rest on, `NobodyStaysStuck`, `RowsHaveDumps` and
`EveryStepCounts` are the safety halves and are proved. Every invariant and every
action property that a passing run checks, and the refinement, has a theorem.

## Not modelled

- Payloads, timestamps, fields that are copied to the screen as they are,
  wording, layout and animation: no property is about them. The text of the
  capture filter is whether it compiles.
- Expanding lines of the tree (`PktView.qml`): it changes what Qt's view asks
  for, and `ParentOfIndex` speaks of all that it can ask.
- What Qt's views do while the tree is exchanged: `start_tree_md` announces the new
  root before its children (`Pcap.cpp:861`). The PktView that shows them is pushed
  when the handler has built the tree, and `DoubleClick` is that whole handler.
- `TreeModel::clear` and what else nothing calls; `Support.h`, `PlatformCompat.h`
  and the start of `main`: macros, includes and a fixed list of registrations.
- UDP and ICMP frames cut inside their header, see `PacketDetail`.
- `CaptureTable` is not composed with `CaptureSession`: a sort changes the order of
  the rows only, no handler of the session reads the order, and a double click
  goes by the row's number. The product would have the states of both and no
  property of its own.
- Data inside libpcap, Qt and SQLite. They appear as the program uses them:
  a FIFO of posted calls, a break flag, `std::sort` as a rearrangement, a
  statement that commits or fails.
- A `pcap_loop` that ends on its own with return value 0 does not happen with
  a count of -1 on a live handle.

## Plan

1. Core: `CaptureSession`, `PacketLog`, `CaptureTable`, `IpChecksum`, `OpenList`,
   `PacketDetail` and their first theorems. Done.
2. `PacketFields`, `NicList` with `StartPage`, `Shutdown`, and their theorems. Done.
3. The waiting user and the refinement of `PacketLog`; the tree, the hex lines and
   reading back; the checksum. Done.
4. What is left: `NobodyIsStuck` for the program that is being closed (`Shutdown`), up
   to the deletion of Pcap; a theorem that the sorts of `CaptureTable` keep the set of
   rows, on which `CaptureSession` relies when it takes the table for a set.
