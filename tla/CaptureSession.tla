----------------------------- MODULE CaptureSession -----------------------------
(***************************************************************************)
(* A capture session of Mini Wireshark: the Pcap object and the QML views  *)
(* on the GUI thread, one Worker per Start button press on a thread of its *)
(* own, and the event queue of the GUI thread through which the workers    *)
(* call Pcap.                                                              *)
(*                                                                         *)
(* A worker never touches Pcap: it posts calls (Qt::QueuedConnection) that *)
(* the GUI thread runs one by one, in the order in which they were posted, *)
(* with user input between any two of them.  The one thing both threads    *)
(* hold is the pcap_t handle: the worker opens, loops on and closes it;    *)
(* stop_Th breaks the loop through the copy that set_wk_pp left in wk_pp.  *)
(***************************************************************************)
EXTENDS Naturals, Sequences, FiniteSets

CONSTANTS
    MaxSources,     \* bound: captures started plus files read
    MaxPkts,        \* bound: packets a capture or a file contributes
    WaitsForWorker  \* the user starts, leaves and opens only when no worker runs

ASSUME SourcesAssumption == MaxSources \in Nat /\ MaxPkts \in Nat
ASSUME UserAssumption == WaitsForWorker \in BOOLEAN

(***************************************************************************)
(* Every Worker and every file that is read is a source of its own, taken  *)
(* in increasing order.  A packet is known by its source and by the number *)
(* in st_pkt.num and dump_data.pkt_num; the program sees the number only.  *)
(***************************************************************************)
Sources == 1..MaxSources
NULL == 0
Packet == [src : Sources, num : Nat]
NoPacket == [src |-> NULL, num |-> 0]

VARIABLES
    (* Pcap, GUI thread *)
    wk_life,      \* a worker said it is running
    wk_pp,        \* the worker whose handle Pcap holds, or NULL
    stop_flag,    \* the flag that, with wk_flag, enables the Save button
    wk_flag,
    vec,          \* md->vec, the rows of the table (their order is sorted at will)
    vec_dump,     \* the raw packets, in the order in which they arrived
    (* QML, GUI thread *)
    view,         \* the page on top of the StackView
    nicName,      \* interface of the CaptureView, possibly empty
    isCapturing,  \* what the buttons of the CaptureView go by
    saveDia,      \* the modal save dialog is open
    detail,       \* the row PktView was opened for and the dump it shows
    (* between the threads *)
    queue,        \* calls posted to the GUI thread and not run yet
    (* Workers *)
    pc,           \* where the worker is in set_Capture
    num,          \* Worker::num, the next packet number
    pp,           \* its pcap_t: not opened, open or closed
    brk,          \* break flag of that pcap_t
    crashed       \* a call through a closed pcap_t brought the process down

pcapVars == <<wk_life, wk_pp, stop_flag, wk_flag, vec, vec_dump>>
flagVars == <<stop_flag, wk_flag>>
dataVars == <<vec, vec_dump>>
viewVars == <<view, nicName, isCapturing, saveDia, detail>>
workerVars == <<pc, num, pp, brk>>
vars == <<pcapVars, viewVars, queue, workerVars, crashed>>

(***************************************************************************)
(* The steps of set_Capture, my_packet_handler included.  A worker at one  *)
(* of Posting is about to post a call.  In pcap_loop it is at "loop" where *)
(* the break flag is tested, and at "read" while it waits for a packet.    *)
(***************************************************************************)
Posting == {"pp", "life", "row", "dump", "null", "dead", "nolife", "noflag", "end"}
Idle == {"unused", "file", "finished"}
PC == Posting \cup Idle
        \cup {"start", "filter", "loop", "read", "close", "wait", "ended"}

Calls == {"set_wk_pp", "clear_wk_pp", "life_on", "life_off", "flag_off",
          "update_md", "dump_push_back", "quit"}
Event == [call : Calls, from : Sources, num : Nat]

TypeOK ==
    /\ wk_life \in BOOLEAN /\ stop_flag \in BOOLEAN /\ wk_flag \in BOOLEAN
    /\ wk_pp \in Sources \cup {NULL}
    /\ vec \subseteq Packet
    /\ vec_dump \in Seq(Packet)
    /\ view \in {"nic", "capture", "pkt"}
    /\ nicName \in {"", "nic"}
    /\ isCapturing \in BOOLEAN /\ saveDia \in BOOLEAN
    /\ detail \in [row : Packet \cup {NoPacket}, dump : Packet \cup {NoPacket}]
    /\ queue \in Seq(Event)
    /\ pc \in [Sources -> PC]
    /\ num \in [Sources -> Nat]
    /\ pp \in [Sources -> {"none", "open", "closed"}]
    /\ brk \in [Sources -> {"no", "set"}]
    /\ crashed \in BOOLEAN

Init ==
    /\ wk_life = FALSE /\ wk_pp = NULL
    /\ stop_flag = FALSE /\ wk_flag = FALSE
    /\ vec = {} /\ vec_dump = <<>>
    /\ view = "nic" /\ nicName = "" /\ isCapturing = FALSE
    /\ saveDia = FALSE
    /\ detail = [row |-> NoPacket, dump |-> NoPacket]
    /\ queue = <<>>
    /\ pc = [w \in Sources |-> "unused"]
    /\ num = [w \in Sources |-> 0]
    /\ pp = [w \in Sources |-> "none"]
    /\ brk = [w \in Sources |-> "no"]
    /\ crashed = FALSE

Fresh(s) == pc[s] = "unused" /\ \A t \in Sources : t < s => pc[t] # "unused"
Alive(w) == pc[w] \notin Idle
NoneAlive == \A w \in Sources : ~Alive(w)
MayProceed == WaitsForWorker => NoneAlive
Input(page) == ~crashed /\ view = page /\ ~saveDia

-----------------------------------------------------------------------------
(***************************************************************************)
(* The worker thread: Worker::set_Capture and the packet handler.          *)
(***************************************************************************)
OpenFails(w) ==
    /\ ~crashed /\ pc[w] = "start"
    /\ pc' = [pc EXCEPT ![w] = "nolife"]
    /\ UNCHANGED <<pcapVars, viewVars, queue, num, pp, brk, crashed>>

OpenSucceeds(w) ==
    /\ ~crashed /\ pc[w] = "start"
    /\ pc' = [pc EXCEPT ![w] = "pp"]
    /\ pp' = [pp EXCEPT ![w] = "open"]
    /\ UNCHANGED <<pcapVars, viewVars, queue, num, brk, crashed>>

\* An empty BFS_ft, or one that compiles and can be set: into pcap_loop.
EnterLoop(w) ==
    /\ ~crashed /\ pc[w] = "filter"
    /\ pc' = [pc EXCEPT ![w] = "loop"]
    /\ UNCHANGED <<pcapVars, viewVars, queue, num, pp, brk, crashed>>

\* pcap_compile or pcap_setfilter fails: the loop is skipped.
FilterRejected(w) ==
    /\ ~crashed /\ pc[w] = "filter"
    /\ pc' = [pc EXCEPT ![w] = "close"]
    /\ UNCHANGED <<pcapVars, viewVars, queue, num, pp, brk, crashed>>

\* Mutants: the number is never increased; the loop is called again after a
\* break, which has cleared the flag.
Bug_NumberReused(w) ==
    /\ ~crashed /\ pc[w] = "read" /\ num[w] < MaxPkts
    /\ pc' = [pc EXCEPT ![w] = "row"]
    /\ UNCHANGED <<pcapVars, viewVars, queue, num, pp, brk, crashed>>
Bug_LoopsAgain(w) ==
    /\ ~crashed /\ pc[w] = "loop"
    /\ pc' = [pc EXCEPT ![w] = "read"]
    /\ brk' = [brk EXCEPT ![w] = "no"]
    /\ UNCHANGED <<pcapVars, viewVars, queue, num, pp, crashed>>

\* pcap_loop tests the break flag before it reads and between packets.
TestFlag(w) ==
    /\ ~crashed /\ pc[w] = "loop"
    /\ pc' = [pc EXCEPT ![w] = IF brk[w] = "no" THEN "read" ELSE "close"]
    /\ UNCHANGED <<pcapVars, viewVars, queue, num, pp, brk, crashed>>

\* The handler accepts a packet and numbers it; it is posted in two calls.  The
\* flag may have been set since it was tested: that packet is still handled.
Receive(w) ==
    /\ ~crashed /\ pc[w] = "read" /\ num[w] < MaxPkts
    /\ num' = [num EXCEPT ![w] = @ + 1]
    /\ pc' = [pc EXCEPT ![w] = "row"]
    /\ UNCHANGED <<pcapVars, viewVars, queue, pp, brk, crashed>>

\* The read times out, or the handler returns early: nothing changes.
ReadNothing(w) ==
    /\ ~crashed /\ pc[w] = "read"
    /\ pc' = [pc EXCEPT ![w] = "loop"]
    /\ UNCHANGED <<pcapVars, viewVars, queue, num, pp, brk, crashed>>

\* pcap_loop returns an error: the interface went down or was removed.
LoopError(w) ==
    /\ ~crashed /\ pc[w] = "read"
    /\ pc' = [pc EXCEPT ![w] = "close"]
    /\ UNCHANGED <<pcapVars, viewVars, queue, num, pp, brk, crashed>>

Close(w) ==
    /\ ~crashed /\ pc[w] = "close"
    /\ pc' = [pc EXCEPT ![w] = "null"]
    /\ pp' = [pp EXCEPT ![w] = "closed"]
    /\ UNCHANGED <<pcapVars, viewVars, queue, num, brk, crashed>>

\* Mutants: the worker does not wait for clear_wk_pp; sig_end comes before the
\* last set_wk_life; the handler returns without the dump once broken.
Bug_NotBlocking(w, at, call, n, next) ==
    /\ ~crashed /\ pc[w] = at
    /\ queue' = Append(queue, [call |-> call, from |-> w, num |-> n])
    /\ pc' = [pc EXCEPT ![w] = IF next = "wait" THEN "dead" ELSE next]
    /\ UNCHANGED <<pcapVars, viewVars, num, pp, brk, crashed>>
Bug_EndFirst(w, at, call, n, next) ==
    /\ ~crashed /\ pc[w] = at
    /\ LET swapped == CASE call = "quit" -> "life_off" [] call = "life_off" -> "quit"
                         [] OTHER -> call
       IN  queue' = Append(queue, [call |-> swapped, from |-> w, num |-> n])
    /\ pc' = [pc EXCEPT ![w] = next]
    /\ UNCHANGED <<pcapVars, viewVars, num, pp, brk, crashed>>
Bug_DumpSkipped(w, at, call, n, next) ==
    /\ ~crashed /\ pc[w] = at
    /\ queue' = IF call = "dump_push_back" /\ brk[w] # "no" THEN queue
                ELSE Append(queue, [call |-> call, from |-> w, num |-> n])
    /\ pc' = [pc EXCEPT ![w] = next]
    /\ UNCHANGED <<pcapVars, viewVars, num, pp, brk, crashed>>

PostCall(w, at, call, n, next) ==
    /\ ~crashed /\ pc[w] = at
    /\ queue' = Append(queue, [call |-> call, from |-> w, num |-> n])
    /\ pc' = [pc EXCEPT ![w] = next]
    /\ UNCHANGED <<pcapVars, viewVars, num, pp, brk, crashed>>

\* Mutant: a worker whose loop failed opens the interface again when it is done.
Bug_Reopens(w) ==
    \/ PostCall(w, "pp", "set_wk_pp", 0, "life")
    \/ PostCall(w, "life", "life_on", 0, "filter")
    \/ PostCall(w, "row", "update_md", num[w] - 1, "dump")
    \/ PostCall(w, "dump", "dump_push_back", num[w] - 1, "loop")
    \/ PostCall(w, "null", "clear_wk_pp", 0, "wait")
    \/ PostCall(w, "dead", "life_off", 0, "end")
    \/ PostCall(w, "nolife", "life_off", 0, "noflag")
    \/ PostCall(w, "noflag", "flag_off", 0, "end")
    \/ PostCall(w, "end", "quit", 0, IF brk[w] = "no" THEN "start" ELSE "ended")

\* The posts of set_Capture in program order.  At "wait" the worker is blocked
\* until the GUI thread has run the call (Qt::BlockingQueuedConnection).
Post(w) ==
    \/ PostCall(w, "pp", "set_wk_pp", 0, "life")
    \/ PostCall(w, "life", "life_on", 0, "filter")
    \/ PostCall(w, "row", "update_md", num[w] - 1, "dump")
    \/ PostCall(w, "dump", "dump_push_back", num[w] - 1, "loop")
    \/ PostCall(w, "null", "clear_wk_pp", 0, "wait")
    \/ PostCall(w, "dead", "life_off", 0, "end")
    \/ PostCall(w, "nolife", "life_off", 0, "noflag")
    \/ PostCall(w, "noflag", "flag_off", 0, "end")
    \/ PostCall(w, "end", "quit", 0, "ended")

Opens(w) == OpenFails(w) \/ OpenSucceeds(w)
Filters(w) == EnterLoop(w) \/ FilterRejected(w)
Loops(w) == TestFlag(w) \/ ReadNothing(w) \/ LoopError(w)

WorkerStep(w) ==
    Opens(w) \/ Filters(w) \/ Loops(w) \/ Receive(w) \/ Close(w) \/ Post(w)

-----------------------------------------------------------------------------
(***************************************************************************)
(* The GUI thread runs the posted calls, oldest first.                     *)
(***************************************************************************)
Run(call) ==
    /\ ~crashed /\ queue # <<>> /\ Head(queue).call = call
    /\ queue' = Tail(queue)

HeadPacket == [src |-> Head(queue).from, num |-> Head(queue).num]

set_wk_pp ==
    /\ Run("set_wk_pp")
    /\ wk_pp' = Head(queue).from
    /\ UNCHANGED <<wk_life, flagVars, dataVars, viewVars, workerVars, crashed>>

\* Mutant: a call that is not for the handle Pcap holds is dropped unanswered.
Bug_NullGuarded ==
    /\ Run("clear_wk_pp")
    /\ IF wk_pp = Head(queue).from
       THEN wk_pp' = NULL /\ pc' = [pc EXCEPT ![Head(queue).from] = "dead"]
       ELSE UNCHANGED <<wk_pp, pc>>
    /\ UNCHANGED <<wk_life, flagVars, dataVars, viewVars, num, pp, brk, crashed>>

\* The blocking call: it releases the worker.
clear_wk_pp ==
    /\ Run("clear_wk_pp")
    /\ wk_pp' = NULL
    /\ pc' = [pc EXCEPT ![Head(queue).from] = "dead"]
    /\ UNCHANGED <<wk_life, flagVars, dataVars, viewVars, num, pp, brk, crashed>>

\* Mutant: the end of a worker is not noticed.
Bug_LifeStays ==
    /\ \/ Run("life_on") \/ Run("life_off")
    /\ wk_life' = TRUE
    /\ UNCHANGED <<wk_pp, flagVars, dataVars, viewVars, workerVars, crashed>>

set_wk_life ==
    /\ \/ Run("life_on") /\ wk_life' = TRUE
       \/ Run("life_off") /\ wk_life' = FALSE
    /\ UNCHANGED <<wk_pp, flagVars, dataVars, viewVars, workerVars, crashed>>

set_wk_flag ==
    /\ Run("flag_off")
    /\ wk_flag' = FALSE
    /\ UNCHANGED <<wk_life, wk_pp, stop_flag, dataVars, viewVars, workerVars, crashed>>

update_md ==
    /\ Run("update_md")
    /\ vec' = vec \cup {HeadPacket}
    /\ UNCHANGED <<wk_life, wk_pp, flagVars, vec_dump, viewVars, workerVars, crashed>>

\* Mutant: the packet is put in front.
Bug_PushFront ==
    /\ Run("dump_push_back")
    /\ vec_dump' = <<HeadPacket>> \o vec_dump
    /\ UNCHANGED <<wk_life, wk_pp, flagVars, vec, viewVars, workerVars, crashed>>

dump_push_back ==
    /\ Run("dump_push_back")
    /\ vec_dump' = Append(vec_dump, HeadPacket)
    /\ UNCHANGED <<wk_life, wk_pp, flagVars, vec, viewVars, workerVars, crashed>>

\* sig_end is connected to QThread::quit of a QThread that lives in the GUI
\* thread; the event loop of the worker's thread ends and both are deleted.
quit ==
    /\ Run("quit")
    /\ pc' = [pc EXCEPT ![Head(queue).from] = "finished"]
    /\ UNCHANGED <<pcapVars, viewVars, num, pp, brk, crashed>>

Deliver ==
    \/ set_wk_pp \/ clear_wk_pp \/ set_wk_life \/ set_wk_flag
    \/ update_md \/ dump_push_back \/ quit

-----------------------------------------------------------------------------
(***************************************************************************)
(* User input, one action per QML handler.                                 *)
(***************************************************************************)
CaptureViewOpens(nic) ==
    /\ view' = "capture" /\ nicName' = nic /\ isCapturing' = FALSE
    /\ UNCHANGED <<saveDia, detail>>

OpenNic ==
    /\ Input("nic") /\ MayProceed
    /\ CaptureViewOpens("nic")
    /\ UNCHANGED <<pcapVars, queue, workerVars, crashed>>

\* Recent captures and the open dialog push a CaptureView with a path, whose
\* onCompleted reads the whole file; selectNic may be empty.
FilePackets(s, k) == [i \in 1..k |-> [src |-> s, num |-> i - 1]]

pcapFile_Read(s, k) ==
    /\ Input("nic") /\ MayProceed /\ Fresh(s)
    /\ \E nic \in {"", "nic"} : CaptureViewOpens(nic)
    /\ vec' = vec \cup {FilePackets(s, k)[i] : i \in 1..k}
    /\ vec_dump' = vec_dump \o FilePackets(s, k)
    /\ pc' = [pc EXCEPT ![s] = "file"]
    /\ num' = [num EXCEPT ![s] = k]
    /\ UNCHANGED <<wk_life, wk_pp, flagVars, queue, pp, brk, crashed>>

\* pcap_open_offline fails: the view opens all the same.
FileUnreadable ==
    /\ Input("nic") /\ MayProceed
    /\ \E nic \in {"", "nic"} : CaptureViewOpens(nic)
    /\ UNCHANGED <<pcapVars, queue, workerVars, crashed>>

\* Mutants: only the table, or only the raw packets, are cleared.
Bug_RowsOnly == vec' = {} /\ UNCHANGED vec_dump
Bug_DumpsOnly == vec_dump' = <<>> /\ UNCHANGED vec

Clear == vec' = {} /\ vec_dump' = <<>>

StartWithoutNic ==
    /\ Input("capture") /\ MayProceed /\ ~isCapturing /\ nicName = ""
    /\ isCapturing' = TRUE
    /\ UNCHANGED <<pcapVars, view, nicName, saveDia, detail, queue, workerVars, crashed>>

\* Mutant: the flags of the capture before stay.
Bug_FlagsStay(w) ==
    /\ Input("capture") /\ MayProceed /\ ~isCapturing /\ nicName # ""
    /\ Fresh(w)
    /\ pc' = [pc EXCEPT ![w] = "start"]
    /\ Clear
    /\ isCapturing' = TRUE
    /\ UNCHANGED <<wk_life, wk_pp, flagVars, view, nicName, saveDia, detail,
                   queue, num, pp, brk, crashed>>

create_Th(w) ==
    /\ Input("capture") /\ MayProceed /\ ~isCapturing /\ nicName # ""
    /\ Fresh(w)
    /\ pc' = [pc EXCEPT ![w] = "start"]
    /\ stop_flag' = FALSE /\ wk_flag' = TRUE
    /\ Clear
    /\ isCapturing' = TRUE
    /\ UNCHANGED <<wk_life, wk_pp, view, nicName, saveDia, detail, queue,
                   num, pp, brk, crashed>>

\* pcap_breakloop on a handle that its worker has closed is undefined: the
\* process may go down, or the write into freed memory may go unnoticed.
stop_Th ==
    \/ /\ wk_pp = NULL
       /\ UNCHANGED <<brk, flagVars, crashed>>
    \/ /\ wk_pp # NULL /\ pp[wk_pp] = "open"
       /\ brk' = [brk EXCEPT ![wk_pp] = "set"]
       /\ stop_flag' = TRUE /\ wk_flag' = FALSE
       /\ UNCHANGED crashed
    \/ /\ wk_pp # NULL /\ pp[wk_pp] = "closed"
       /\ stop_flag' = TRUE /\ wk_flag' = FALSE
       /\ UNCHANGED <<brk, crashed>>
    \/ /\ wk_pp # NULL /\ pp[wk_pp] = "closed"
       /\ crashed' = TRUE
       /\ UNCHANGED <<brk, flagVars>>

Stop ==
    /\ Input("capture") /\ isCapturing
    /\ stop_Th
    /\ isCapturing' = crashed'
    /\ UNCHANGED <<wk_life, wk_pp, dataVars, view, nicName, saveDia, detail,
                   queue, pc, num, pp>>

\* Mutant: the table is reset under a running worker.
Bug_ResetAlways == Clear

reset_md == IF wk_life THEN UNCHANGED dataVars ELSE Clear

Reset ==
    /\ Input("capture")
    /\ reset_md
    /\ UNCHANGED <<wk_life, wk_pp, flagVars, viewVars, queue, workerVars, crashed>>

Back ==
    /\ Input("capture") /\ MayProceed
    /\ stop_Th
    /\ IF crashed'
       THEN UNCHANGED <<dataVars, view, nicName, isCapturing>>
       ELSE reset_md /\ view' = "nic" /\ nicName' = "" /\ isCapturing' = FALSE
    /\ UNCHANGED <<wk_life, wk_pp, saveDia, detail, queue, pc, num, pp>>

SaveEnabled == stop_flag /\ ~wk_flag

OpenSave ==
    /\ Input("capture") /\ SaveEnabled
    /\ saveDia' = TRUE
    /\ UNCHANGED <<pcapVars, view, nicName, isCapturing, detail, queue, workerVars, crashed>>

\* The file that save_md writes when the dialog is accepted; none if it returns
\* early.  Opening it later is a file like any other (and see PacketDetail).
Written == IF vec_dump = <<>> \/ ~stop_flag THEN <<>> ELSE vec_dump

\* The dialog is accepted or dismissed; calls were run while it was open.
save_md ==
    /\ ~crashed /\ saveDia
    /\ saveDia' = FALSE
    /\ UNCHANGED <<pcapVars, view, nicName, isCapturing, detail, queue, workerVars, crashed>>

\* start_tree_md and start_hax look the number up and keep the last match.
LastMatch(idx) ==
    {i \in 1..Len(vec_dump) : /\ vec_dump[i].num = idx
                              /\ \A j \in (i + 1)..Len(vec_dump) : vec_dump[j].num # idx}
Lookup(idx) ==
    IF LastMatch(idx) = {} THEN NoPacket
    ELSE vec_dump[CHOOSE i \in LastMatch(idx) : TRUE]

DoubleClick(p) ==
    /\ Input("capture") /\ ~isCapturing
    /\ view' = "pkt"
    /\ detail' = [row |-> p, dump |-> Lookup(p.num)]
    /\ UNCHANGED <<pcapVars, nicName, isCapturing, saveDia, queue, workerVars, crashed>>

PktBack ==
    /\ Input("pkt")
    /\ view' = "capture"
    /\ detail' = [row |-> NoPacket, dump |-> NoPacket]
    /\ UNCHANGED <<pcapVars, nicName, isCapturing, saveDia, queue, workerVars, crashed>>

UserStep ==
    \/ OpenNic \/ FileUnreadable \/ StartWithoutNic \/ Stop \/ Reset \/ Back
    \/ OpenSave \/ save_md \/ PktBack
    \/ \E s \in Sources : create_Th(s) \/ \E k \in 0..MaxPkts : pcapFile_Read(s, k)
    \/ \E p \in vec : DoubleClick(p)

-----------------------------------------------------------------------------
\* After a crash nothing moves.
Down == crashed /\ UNCHANGED vars

Next == Deliver \/ UserStep \/ (\E w \in Sources : WorkerStep(w)) \/ Down

Spec == Init /\ [][Next]_vars

(***************************************************************************)
(* The threads keep running: the event loop of the GUI thread runs what is *)
(* posted, and a worker goes on with its straight-line code, the test of   *)
(* the break flag included.  Nothing is assumed of the user, of traffic,   *)
(* of an interface going down, or of a read ever returning: npcap promises *)
(* none of it (the timeout of 1000 ms may not start without a packet, and  *)
(* pcap_breakloop does not wake a thread that waits for one).              *)
(***************************************************************************)
Fairness ==
    /\ WF_vars(Deliver)
    /\ \A w \in Sources :
        /\ WF_vars(Opens(w)) /\ WF_vars(Filters(w)) /\ WF_vars(TestFlag(w))
        /\ WF_vars(Close(w)) /\ WF_vars(Post(w))

FairSpec == Spec /\ Fairness

-----------------------------------------------------------------------------
(***************************************************************************)
(* Properties that no user can break.                                      *)
(***************************************************************************)
\* Pcap holds a closed handle only while its worker is between pcap_close and
\* the return of the blocking call that clears wk_pp: what that call is for.
HandleWindow ==
    \A w \in Sources : wk_pp = w /\ pp[w] = "closed" => pc[w] \in {"null", "wait"}

Stored(p) == \E i \in 1..Len(vec_dump) : vec_dump[i] = p
DumpCall(p) == [call |-> "dump_push_back", from |-> p.src, num |-> p.num]
Dumping(p) == pc[p.src] = "dump" /\ num[p.src] = p.num + 1
Coming(p) == Dumping(p) \/ \E i \in 1..Len(queue) : queue[i] = DumpCall(p)

\* A row and its raw packet arrive in two calls: whoever clears the lists, and
\* whenever, a row in the table has its raw packet stored or on the way.
RowHasDump == \A p \in vec : Stored(p) \/ Coming(p)

\* The raw packets of one source are stored in the order captured, each once,
\* and none is missing between two that are stored, also when captures overlap.
DumpInOrder ==
    \A i, j \in 1..Len(vec_dump) :
        i < j /\ vec_dump[i].src = vec_dump[j].src =>
            /\ vec_dump[i].num < vec_dump[j].num
            /\ \A n \in (vec_dump[i].num + 1)..(vec_dump[j].num - 1) :
                \E k \in i..j : vec_dump[k] = [src |-> vec_dump[i].src, num |-> n]

\* When the thread of a worker has finished, and Qt deletes it, no call of that
\* worker is still queued.
NothingFromTheDead == \A i \in 1..Len(queue) : pc[queue[i].from] \notin Idle

\* However captures overlapped, once all workers are gone Pcap holds no handle
\* and Reset works again.
QuietIsClean == NoneAlive => wk_pp = NULL /\ ~wk_life

\* The call that lets a blocked worker go on, or ends its thread, is queued.
Awaited(w) ==
    LET call == IF pc[w] = "wait" THEN "clear_wk_pp" ELSE "quit"
    IN  \E i \in 1..Len(queue) : queue[i].call = call /\ queue[i].from = w

\* A worker never waits for nothing: when it has no step of its own to take, what
\* it waits for is still to be run, whatever the other workers had the GUI thread do.
NobodyIsStuck == \A w \in Sources : pc[w] \in {"wait", "ended"} => Awaited(w)

\* A worker whose loop stop_Th has broken ends, unless it is in a read and stays
\* there: wherever else the break finds it, or the read leaves it, no packet
\* starts another read, and its close, blocking call and last posts go through.
BrokenLoopEnds ==
    \A w \in Sources :
        (brk[w] = "set" /\ pc[w] # "read") ~> (pc[w] = "finished" \/ crashed)

\* The raw packet of a row that stays in the table is stored in the end.
RowGetsDump ==
    \A p \in [src : Sources, num : 0..MaxPkts] :
        p \in vec ~> (Stored(p) \/ p \notin vec \/ crashed)

(***************************************************************************)
(* Properties of a session whose user waits for the worker.                *)
(***************************************************************************)
\* The detail page never shows the raw packet of another row.
DetailIsOwn == view = "pkt" => detail.dump \in {detail.row, NoPacket}

\* A saved file holds the packets of one capture, from its first on, in order,
\* whatever calls were run while the save dialog was open.
SavedIsOneCapture ==
    [][saveDia /\ ~saveDia' =>
        \A i \in 1..Len(Written) :
            Written[i] = [src |-> Written[1].src, num |-> i - 1]]_vars

PastLoop(w) == pc[w] \in {"close", "null", "wait", "dead", "end", "ended"}

\* When the Save button is enabled, no worker is left that nobody has stopped.
SaveMeansStopped ==
    SaveEnabled => \A w \in Sources : Alive(w) => brk[w] # "no" \/ PastLoop(w)

\* The table and the raw packets behave as one log (module PacketLog).
Log == INSTANCE PacketLog WITH
    rows <- {p.num : p \in vec},
    dumps <- [i \in 1..Len(vec_dump) |-> vec_dump[i].num]
ImplementsPacketLog == Log!LogSpec

(***************************************************************************)
(* What README.md says of the program, and the code does not keep.         *)
(***************************************************************************)
\* "The Stop button ends the capture" (README.md:236): a worker that runs
\* behind a CaptureView whose Stop was pressed is told to leave its loop.
StopReachesLoop ==
    \A w \in Sources :
        (Alive(w) /\ view = "capture" /\ ~isCapturing)
            ~> (brk[w] = "set" \/ PastLoop(w) \/ ~Alive(w) \/ crashed)

\* "While the capture is stopped, the Save button saves it" (README.md:239): a
\* Stop that is pressed when the worker has ended, with packets, enables Save.
StoppedIsSavable ==
    [][(/\ view = "capture" /\ isCapturing /\ ~isCapturing' /\ NoneAlive
        /\ \E i \in 1..Len(vec_dump) : pc[vec_dump[i].src] = "finished")
       => view' = "nic" \/ SaveEnabled']_vars
=============================================================================
