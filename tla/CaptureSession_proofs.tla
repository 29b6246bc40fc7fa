------------------------- MODULE CaptureSession_proofs -------------------------
(***************************************************************************)
(* Proofs about CaptureSession, for any number of captures, files and      *)
(* packets and for a user who waits for the worker as for one who does not.*)
(***************************************************************************)
EXTENDS CaptureSession, SequenceTheorems, TLAPS

-----------------------------------------------------------------------------
(***************************************************************************)
(* The queue: what running the oldest call and posting a call do to it.    *)
(***************************************************************************)
\* Running the oldest call leaves the others in place, one position further on.
LEMMA TailOfQueue ==
    ASSUME NEW S, NEW q \in Seq(S), q # <<>>
    PROVE  /\ Len(q) \in Nat \ {0} /\ Head(q) = q[1] /\ q[1] \in S
           /\ Tail(q) \in Seq(S)
           /\ Len(Tail(q)) = Len(q) - 1
           /\ \A i \in 1..Len(Tail(q)) : i + 1 \in 1..Len(q) /\ Tail(q)[i] = q[i + 1]
<1>1. Len(q) \in Nat \ {0}
    BY EmptySeq, LenProperties
<1>2. Head(q) = q[1] /\ q[1] \in S
    BY <1>1, ElementOfSeq
<1> QED  BY <1>1, <1>2, HeadTailProperties

\* Posting a call leaves the others where they are.
LEMMA AppendToQueue ==
    ASSUME NEW S, NEW q \in Seq(S), NEW e \in S
    PROVE  /\ Len(q) \in Nat
           /\ Append(q, e) \in Seq(S)
           /\ Len(Append(q, e)) = Len(q) + 1
           /\ \A i \in 1..Len(q) : Append(q, e)[i] = q[i]
           /\ Append(q, e)[Len(q) + 1] = e
           /\ \A i \in 1..Len(Append(q, e)) : i \in 1..Len(q) \/ i = Len(q) + 1
<1>1. Len(q) \in Nat
    BY LenProperties
<1> QED  BY <1>1, AppendProperties

-----------------------------------------------------------------------------
(***************************************************************************)
(* Type correctness.  The number of a packet under way is one that Receive *)
(* has counted: without that, num - 1 need not be a number of a packet.    *)
(***************************************************************************)
NumCounted == \A w \in Sources : pc[w] \in {"row", "dump"} => num[w] > 0

TypeInv == TypeOK /\ NumCounted

LEMMA TypeInit == Init => TypeInv
<1> SUFFICES ASSUME Init PROVE TypeInv
    OBVIOUS
<1>1. <<>> \in Seq(Packet) /\ <<>> \in Seq(Event)
    OBVIOUS
<1> QED  BY <1>1 DEF Init, TypeInv, TypeOK, NumCounted, NULL, NoPacket, PC, Posting, Idle

\* Facts about constants that the steps below need.
LEMMA PacketTypes ==
    /\ NULL \notin Sources
    /\ \A s \in Sources, n \in Nat : [src |-> s, num |-> n] \in Packet
    /\ \A p \in Packet : p.src \in Sources /\ p.num \in Nat
    /\ \A c \in Calls, s \in Sources, n \in Nat :
        [call |-> c, from |-> s, num |-> n] \in Event
    /\ \A e \in Event : e.call \in Calls /\ e.from \in Sources /\ e.num \in Nat
BY DEF NULL, Sources, Packet, Event

\* The packets of a file are packets, numbered from 0.
LEMMA FileTypes ==
    ASSUME NEW s \in Sources, NEW k \in Nat
    PROVE  /\ FilePackets(s, k) \in Seq(Packet)
           /\ Len(FilePackets(s, k)) = k
           /\ \A i \in 1..k : FilePackets(s, k)[i] \in Packet
<1>1. \A i \in 1..k : i - 1 \in Nat /\ [src |-> s, num |-> i - 1] \in Packet
    BY PacketTypes
<1>2. FilePackets(s, k) \in [1..k -> Packet]
    BY <1>1 DEF FilePackets
<1> QED  BY <1>2

\* What the detail page finds under a number is a packet or nothing.
LEMMA LookupType ==
    ASSUME TypeOK, NEW idx \in Nat
    PROVE  Lookup(idx) \in Packet \cup {NoPacket}
<1>1. CASE LastMatch(idx) = {}
    BY <1>1 DEF Lookup
<1>2. CASE LastMatch(idx) # {}
    <2> DEFINE last == CHOOSE i \in LastMatch(idx) : TRUE
    <2>1. last \in LastMatch(idx)
        BY <1>2
    <2>2. last \in 1..Len(vec_dump)
        BY <2>1 DEF LastMatch
    <2>3. vec_dump \in Seq(Packet)
        BY DEF TypeOK
    <2>4. vec_dump[last] \in Packet
        BY <2>2, <2>3, ElementOfSeq
    <2> QED  BY <1>2, <2>4 DEF Lookup
<1> QED  BY <1>1, <1>2

\* The oldest call, and the packet it carries.
LEMMA HeadType ==
    ASSUME TypeOK, queue # <<>>
    PROVE  /\ Head(queue) \in Event /\ Tail(queue) \in Seq(Event)
           /\ Head(queue).from \in Sources /\ HeadPacket \in Packet
<1>1. queue \in Seq(Event)
    BY DEF TypeOK
<1>2. Head(queue) \in Event /\ Tail(queue) \in Seq(Event)
    BY <1>1, TailOfQueue
<1> QED  BY <1>2, PacketTypes DEF HeadPacket

\* Posting a call keeps the types; the number posted is one that was counted.
LEMMA PostType ==
    ASSUME TypeInv, NEW w \in Sources, Post(w)
    PROVE  TypeInv'
<1>1. queue \in Seq(Event) /\ pc \in [Sources -> PC] /\ num \in [Sources -> Nat]
    BY DEF TypeInv, TypeOK
<1>2. num[w] \in Nat /\ (pc[w] \in {"row", "dump"} => num[w] - 1 \in Nat)
    BY <1>1 DEF TypeInv, NumCounted
<1>a. ASSUME NEW at \in Posting, NEW call \in Calls, NEW n \in Nat, NEW next \in PC,
             PostCall(w, at, call, n, next),
             next \in {"row", "dump"} => at \in {"row", "dump"}
      PROVE  TypeInv'
    <2>1. [call |-> call, from |-> w, num |-> n] \in Event
        BY PacketTypes
    <2>2. queue' \in Seq(Event)
        BY <1>1, <1>a, <2>1, AppendToQueue DEF PostCall
    <2>3. pc' = [pc EXCEPT ![w] = next] /\ num' = num /\ pc[w] = at
        BY <1>a DEF PostCall
    <2>4. pc' \in [Sources -> PC]
        BY <1>1, <2>3
    <2>5. NumCounted'
        BY <1>1, <1>a, <2>3 DEF TypeInv, NumCounted
    <2>6. UNCHANGED <<pcapVars, viewVars, num, pp, brk, crashed>>
        BY <1>a DEF PostCall
    <2>7. TypeOK'
        BY ZenonT(60), <2>2, <2>4, <2>6 DEF TypeInv, TypeOK, pcapVars, viewVars
    <2> QED  BY <2>5, <2>7 DEF TypeInv
<1>3. CASE PostCall(w, "row", "update_md", num[w] - 1, "dump")
    BY <1>a, <1>2, <1>3 DEF PostCall, Posting, Calls, PC
<1>4. CASE PostCall(w, "dump", "dump_push_back", num[w] - 1, "loop")
    BY <1>a, <1>2, <1>4 DEF PostCall, Posting, Calls, PC
<1> QED  BY <1>a, <1>3, <1>4 DEF Post, Posting, Calls, PC

\* A step of a worker between its posts keeps the types.
LEMMA LocalType ==
    ASSUME TypeInv, NEW w \in Sources,
           Opens(w) \/ Filters(w) \/ Receive(w) \/ Loops(w) \/ Close(w)
    PROVE  TypeInv'
<1>1. /\ pc \in [Sources -> PC] /\ num \in [Sources -> Nat]
      /\ pp \in [Sources -> {"none", "open", "closed"}]
      /\ brk \in [Sources -> {"no", "set"}]
    BY DEF TypeInv, TypeOK
<1>2. UNCHANGED <<pcapVars, viewVars, queue, crashed>>
    BY DEF Opens, OpenFails, OpenSucceeds, Filters, EnterLoop, FilterRejected,
           Receive, Loops, TestFlag, ReadNothing, LoopError, Close
<1>3. PICK at \in PC : pc' = [pc EXCEPT ![w] = at]
    BY DEF Opens, OpenFails, OpenSucceeds, Filters, EnterLoop, FilterRejected,
           Receive, Loops, TestFlag, ReadNothing, LoopError, Close, PC, Posting
<1>4. pc' \in [Sources -> PC]
    BY <1>1, <1>3
<1>5. pp' \in [Sources -> {"none", "open", "closed"}]
    BY <1>1 DEF Opens, OpenFails, OpenSucceeds, Filters, EnterLoop, FilterRejected,
           Receive, Loops, TestFlag, ReadNothing, LoopError, Close
<1>6. /\ num' \in [Sources -> Nat] /\ brk' \in [Sources -> {"no", "set"}]
      /\ NumCounted'
    <2>1. CASE Receive(w)
        BY <1>1, <2>1 DEF Receive, TypeInv, NumCounted
    <2>2. CASE ~Receive(w)
        <3>1. num' = num /\ brk' = brk /\ pc'[w] \notin {"row", "dump"}
            BY <1>1, <2>2 DEF Opens, OpenFails, OpenSucceeds, Filters, EnterLoop,
                FilterRejected, Loops, TestFlag, ReadNothing, LoopError, Close
        <3> QED  BY <1>1, <1>3, <3>1 DEF TypeInv, NumCounted
    <2> QED  BY <2>1, <2>2
<1>7. TypeOK'
    BY ZenonT(60), <1>2, <1>4, <1>5, <1>6 DEF TypeInv, TypeOK, pcapVars, viewVars
<1> QED  BY <1>6, <1>7 DEF TypeInv

\* Running a posted call keeps the types.
LEMMA DeliverType ==
    ASSUME TypeInv, Deliver
    PROVE  TypeInv'
<1>1. /\ pc \in [Sources -> PC] /\ vec \subseteq Packet /\ vec_dump \in Seq(Packet)
    BY DEF TypeInv, TypeOK
<1>2. queue # <<>> /\ queue' = Tail(queue) /\ UNCHANGED <<viewVars, num, pp, brk, crashed>>
    BY DEF Deliver, set_wk_pp, clear_wk_pp, set_wk_life, set_wk_flag, update_md,
           dump_push_back, quit, Run, workerVars
<1>3. queue' \in Seq(Event) /\ Head(queue).from \in Sources /\ HeadPacket \in Packet
    BY <1>2, HeadType DEF TypeInv
<1>4. wk_life' \in BOOLEAN /\ wk_flag' \in BOOLEAN /\ stop_flag' \in BOOLEAN
    BY DEF TypeInv, TypeOK, Deliver, set_wk_pp, clear_wk_pp, set_wk_life, set_wk_flag,
           update_md, dump_push_back, quit, flagVars, pcapVars
<1>5. wk_pp' \in Sources \cup {NULL}
    BY <1>3 DEF TypeInv, TypeOK, Deliver, set_wk_pp, clear_wk_pp, set_wk_life, set_wk_flag,
           update_md, dump_push_back, quit, pcapVars
<1>6. vec' \subseteq Packet
    BY <1>1, <1>3 DEF Deliver, set_wk_pp, clear_wk_pp, set_wk_life, set_wk_flag,
           update_md, dump_push_back, quit, dataVars, pcapVars
<1>7. vec_dump' \in Seq(Packet)
    <2>1. CASE dump_push_back
        BY <1>1, <1>3, <2>1, AppendToQueue DEF dump_push_back
    <2>2. CASE ~dump_push_back
        BY <1>1, <2>2 DEF Deliver, set_wk_pp, clear_wk_pp, set_wk_life, set_wk_flag,
           update_md, quit, dataVars, pcapVars
    <2> QED  BY <2>1, <2>2
<1>8. pc' = pc \/ \E at \in {"dead", "finished"} : pc' = [pc EXCEPT ![Head(queue).from] = at]
    BY DEF Deliver, set_wk_pp, clear_wk_pp, set_wk_life, set_wk_flag, update_md,
           dump_push_back, quit, workerVars
<1>9. pc' \in [Sources -> PC] /\ NumCounted'
    BY <1>1, <1>2, <1>3, <1>8 DEF TypeInv, NumCounted, PC, Posting, Idle
<1>10. TypeOK'
    BY <1>2, <1>3, <1>4, <1>5, <1>6, <1>7, <1>9 DEF TypeInv, TypeOK, viewVars
<1> QED  BY <1>9, <1>10 DEF TypeInv

\* User input keeps the types.
LEMMA UserType ==
    ASSUME TypeInv, UserStep
    PROVE  TypeInv'
<1> USE DEF TypeInv, NumCounted
<1>1. /\ pc \in [Sources -> PC] /\ num \in [Sources -> Nat]
      /\ vec \subseteq Packet /\ vec_dump \in Seq(Packet)
    BY DEF TypeOK
<1>2. stop_Th => /\ stop_flag' \in BOOLEAN /\ wk_flag' \in BOOLEAN /\ crashed' \in BOOLEAN
                 /\ brk' \in [Sources -> {"no", "set"}]
    BY DEF stop_Th, TypeOK, flagVars
<1>3. (reset_md \/ UNCHANGED dataVars) => vec' \subseteq Packet /\ vec_dump' \in Seq(Packet)
    BY <1>1, EmptySeq DEF reset_md, Clear, dataVars
<1>4. CASE OpenNic \/ FileUnreadable
    BY <1>4 DEF OpenNic, FileUnreadable, CaptureViewOpens, TypeOK, pcapVars, workerVars
<1>5. CASE StartWithoutNic
    BY <1>5 DEF StartWithoutNic, TypeOK, pcapVars, workerVars
<1>6. CASE Stop
    <2>1. isCapturing' \in BOOLEAN
        BY <1>2, <1>6 DEF Stop
    <2> QED  BY <1>2, <1>3, <1>6, <2>1 DEF Stop, TypeOK
<1>7. CASE Reset
    <2>1. UNCHANGED <<wk_life, wk_pp, stop_flag, wk_flag, view, nicName, isCapturing,
                      saveDia, detail, queue, pc, num, pp, brk, crashed>>
        BY <1>7 DEF Reset, flagVars, viewVars, workerVars
    <2>2. vec' \subseteq Packet /\ vec_dump' \in Seq(Packet)
        BY <1>3, <1>7 DEF Reset
    <2>3. TypeOK'
        BY ZenonT(60), <2>1, <2>2 DEF TypeOK
    <2> QED  BY <2>1, <2>3
<1>8. CASE Back
    <2>1. /\ view' \in {"nic", "capture", "pkt"} /\ nicName' \in {"", "nic"}
          /\ isCapturing' \in BOOLEAN
        BY <1>8 DEF Back, TypeOK
    <2>2. reset_md \/ UNCHANGED dataVars
        BY <1>8 DEF Back, dataVars
    <2> QED  BY <1>2, <1>3, <1>8, <2>1, <2>2 DEF Back, TypeOK
<1>9. CASE OpenSave \/ save_md
    BY <1>9 DEF OpenSave, save_md, TypeOK, pcapVars, workerVars
<1>10. CASE PktBack
    BY <1>10 DEF PktBack, TypeOK, pcapVars, workerVars
<1>11. ASSUME NEW w \in Sources, create_Th(w) PROVE TypeInv'
    <2>1. pc' \in [Sources -> PC] /\ NumCounted'
        BY <1>1, <1>11 DEF create_Th, PC
    <2>2. vec' \subseteq Packet /\ vec_dump' \in Seq(Packet)
        BY <1>11, EmptySeq DEF create_Th, Clear
    <2> QED  BY <1>11, <2>1, <2>2 DEF create_Th, TypeOK
<1>12. ASSUME NEW s \in Sources, NEW k \in 0..MaxPkts, pcapFile_Read(s, k) PROVE TypeInv'
    <2>1. k \in Nat
        BY SourcesAssumption
    <2>2. pc' \in [Sources -> PC] /\ num' \in [Sources -> Nat] /\ NumCounted'
        BY <1>1, <1>12, <2>1 DEF pcapFile_Read, PC, Idle
    <2>3. vec' \subseteq Packet
        BY <1>1, <1>12, <2>1, FileTypes DEF pcapFile_Read
    <2>4. vec_dump' \in Seq(Packet)
        BY <1>1, <1>12, <2>1, FileTypes, ConcatProperties DEF pcapFile_Read
    <2>5. nicName' \in {"", "nic"} /\ view' \in {"nic", "capture", "pkt"}
              /\ isCapturing' \in BOOLEAN /\ UNCHANGED <<saveDia, detail>>
        BY <1>12 DEF pcapFile_Read, CaptureViewOpens
    <2> QED  BY <1>12, <2>2, <2>3, <2>4, <2>5 DEF pcapFile_Read, TypeOK, flagVars
<1>13. ASSUME NEW p \in vec, DoubleClick(p) PROVE TypeInv'
    <2>1. p \in Packet /\ p.num \in Nat
        BY <1>1, PacketTypes
    <2>2. Lookup(p.num) \in Packet \cup {NoPacket}
        BY <2>1, LookupType
    <2>3. detail' \in [row : Packet \cup {NoPacket}, dump : Packet \cup {NoPacket}]
        BY <1>13, <2>1, <2>2 DEF DoubleClick
    <2> QED  BY <1>13, <2>3 DEF DoubleClick, TypeOK, pcapVars, workerVars
<1> QED
    BY <1>4, <1>5, <1>6, <1>7, <1>8, <1>9, <1>10, <1>11, <1>12, <1>13 DEF UserStep

\* Every step keeps the types.
LEMMA TypeStep == TypeInv /\ [Next]_vars => TypeInv'
<1> SUFFICES ASSUME TypeInv, [Next]_vars PROVE TypeInv'
    OBVIOUS
<1>1. CASE Deliver
    BY <1>1, DeliverType
<1>2. CASE UserStep
    BY <1>2, UserType
<1>3. ASSUME NEW w \in Sources, WorkerStep(w) PROVE TypeInv'
    BY <1>3, PostType, LocalType DEF WorkerStep
<1>4. CASE UNCHANGED vars
    <2>1. UNCHANGED <<wk_life, wk_pp, stop_flag, wk_flag, vec, vec_dump, view, nicName,
                      isCapturing, saveDia, detail, queue, pc, num, pp, brk, crashed>>
        BY <1>4 DEF vars, pcapVars, viewVars, workerVars
    <2>2. TypeOK'
        BY ZenonT(60), <2>1 DEF TypeInv, TypeOK
    <2>3. NumCounted'
        BY <2>1 DEF TypeInv, NumCounted
    <2> QED  BY <2>2, <2>3 DEF TypeInv
<1> QED  BY <1>1, <1>2, <1>3, <1>4 DEF Next, Down

(***************************************************************************)
(* Every variable keeps its type, whatever the user and the network do.    *)
(***************************************************************************)
THEOREM TypeCorrect == Spec => []TypeOK
<1>1. TypeInv => TypeOK
    BY DEF TypeInv
<1> QED  BY <1>1, TypeInit, TypeStep, PTL DEF Spec

-----------------------------------------------------------------------------
(***************************************************************************)
(* Handles and threads.  HandleWindow and NothingFromTheDead are not       *)
(* inductive: they hold because of what is still in the queue.  The queue  *)
(* is FIFO, so a clear_wk_pp comes after every call its worker posted      *)
(* before it, and the worker posts nothing while it waits; likewise quit.  *)
(***************************************************************************)
Held == {"life", "filter", "loop", "read", "row", "dump", "close", "null", "wait"}
LastCall(e) == e.call \in {"clear_wk_pp", "quit"}
AfterLast(e) == IF e.call = "quit" THEN "ended" ELSE "wait"

\* A clear_wk_pp or a quit is the last call of its worker, which has stopped there.
LastStops == \A i \in 1..Len(queue) : LastCall(queue[i]) => pc[queue[i].from] = AfterLast(queue[i])
LastIsLast ==
    \A i, j \in 1..Len(queue) :
        LastCall(queue[i]) /\ i < j => queue[j].from # queue[i].from
\* A handle is on its way to Pcap, or in it, only until clear_wk_pp has run.
HandleQueued == \A i \in 1..Len(queue) : queue[i].call = "set_wk_pp" => pc[queue[i].from] \in Held
HandleKnown == wk_pp # NULL => pc[wk_pp] \in Held
\* A handle is closed late in set_Capture only.
ClosedLate ==
    \A w \in Sources : pp[w] = "closed" => pc[w] \in {"null", "wait", "dead", "end", "ended", "finished"}

HandleInv ==
    LastStops /\ LastIsLast /\ HandleQueued /\ HandleKnown /\ ClosedLate /\ NothingFromTheDead

LEMMA HandleInvImplies == HandleInv => HandleWindow /\ NothingFromTheDead
<1> SUFFICES ASSUME HandleInv PROVE HandleWindow
    BY DEF HandleInv
<1> SUFFICES ASSUME NEW w \in Sources, wk_pp = w, pp[w] = "closed"
             PROVE  pc[w] \in {"null", "wait"}
    BY DEF HandleWindow
<1>1. pc[w] \in Held
    BY PacketTypes DEF HandleInv, HandleKnown
<1>2. pc[w] \in {"null", "wait", "dead", "end", "ended", "finished"}
    BY DEF HandleInv, ClosedLate
<1> QED  BY <1>1, <1>2 DEF Held

\* The worker, or the GUI thread for a new one, moves on in the code and posts nothing.
LEMMA HandleLocal ==
    ASSUME TypeOK, HandleInv, NEW w \in Sources, NEW at,
           pc' = [pc EXCEPT ![w] = at], UNCHANGED <<queue, wk_pp>>,
           pc[w] \notin {"wait", "ended"},
           pc[w] \in Held => at \in Held,
           at \in Idle => pc[w] \in Idle,
           ClosedLate'
    PROVE  HandleInv'
<1>1. /\ pc \in [Sources -> PC] /\ queue \in Seq(Event) /\ wk_pp \in Sources \cup {NULL}
    BY DEF TypeOK
<1>2. \A i \in 1..Len(queue) : queue[i].from \in Sources
    BY <1>1, ElementOfSeq, PacketTypes
<1>3. LastStops'
    BY <1>1, <1>2 DEF HandleInv, LastStops, AfterLast, LastCall
<1>4. LastIsLast'
    BY DEF HandleInv, LastIsLast, LastCall
<1>5. HandleQueued'
    BY <1>1, <1>2 DEF HandleInv, HandleQueued
<1>6. HandleKnown'
    BY <1>1 DEF HandleInv, HandleKnown
<1>7. NothingFromTheDead'
    BY <1>1, <1>2 DEF HandleInv, NothingFromTheDead
<1> QED  BY <1>3, <1>4, <1>5, <1>6, <1>7 DEF HandleInv

\* The worker posts a call.
LEMMA HandlePost ==
    ASSUME TypeOK, HandleInv, NEW w \in Sources, NEW at, NEW call \in Calls,
           NEW n \in Nat, NEW next,
           PostCall(w, at, call, n, next),
           at \in Posting, next \notin Idle,
           at \in Held => next \in Held,
           call = "set_wk_pp" => next \in Held,
           call = "clear_wk_pp" => next = "wait",
           call = "quit" => next = "ended",
           at \in {"null", "dead", "end"} => next \in {"wait", "end", "ended"}
    PROVE  HandleInv'
<1> DEFINE e == [call |-> call, from |-> w, num |-> n]
<1>1. /\ pc \in [Sources -> PC] /\ queue \in Seq(Event) /\ wk_pp \in Sources \cup {NULL}
    BY DEF TypeOK
<1>2. \A i \in 1..Len(queue) : queue[i].from \in Sources
    BY <1>1, ElementOfSeq, PacketTypes
<1>3. /\ pc[w] = at /\ pc' = [pc EXCEPT ![w] = next] /\ UNCHANGED <<wk_pp, pp>>
      /\ queue' = Append(queue, e)
    BY DEF PostCall, pcapVars
<1>4. /\ Len(queue) \in Nat /\ Len(queue') = Len(queue) + 1
      /\ \A i \in 1..Len(queue) : queue'[i] = queue[i]
      /\ queue'[Len(queue) + 1] = e
      /\ \A i \in 1..Len(queue') : i \in 1..Len(queue) \/ i = Len(queue) + 1
    BY <1>1, <1>3, PacketTypes, AppendToQueue
<1>5. e.call = call /\ e.from = w
    OBVIOUS
<1>6. \A i \in 1..Len(queue) : queue[i].from = w => ~LastCall(queue[i])
    BY <1>3 DEF HandleInv, LastStops, AfterLast, Posting
<1> HIDE DEF e
<1>7. LastStops'
    <2> SUFFICES ASSUME NEW i \in 1..Len(queue'), LastCall(queue'[i])
                 PROVE  pc'[queue'[i].from] = AfterLast(queue'[i])
        BY DEF LastStops, LastCall, AfterLast
    <2>1. CASE i \in 1..Len(queue)
        BY <1>1, <1>2, <1>3, <1>4, <1>6, <2>1 DEF HandleInv, LastStops
    <2>2. CASE i = Len(queue) + 1
        BY <1>1, <1>3, <1>4, <1>5, <2>2 DEF LastCall, AfterLast
    <2> QED  BY <1>4, <2>1, <2>2
<1>8. LastIsLast'
    <2> SUFFICES ASSUME NEW i \in 1..Len(queue'), NEW j \in 1..Len(queue'),
                        LastCall(queue'[i]), i < j
                 PROVE  queue'[j].from # queue'[i].from
        BY DEF LastIsLast, LastCall
    <2>1. i \in 1..Len(queue) /\ queue'[i] = queue[i]
        BY <1>4
    <2>2. CASE j \in 1..Len(queue)
        BY <1>4, <2>1, <2>2 DEF HandleInv, LastIsLast
    <2>3. CASE j = Len(queue) + 1
        BY <1>4, <1>5, <1>6, <2>1, <2>3
    <2> QED  BY <1>4, <2>2, <2>3
<1>9. HandleQueued'
    BY <1>1, <1>2, <1>3, <1>4, <1>5 DEF HandleInv, HandleQueued
<1>10. HandleKnown'
    BY <1>1, <1>3 DEF HandleInv, HandleKnown
<1>11. ClosedLate'
    BY <1>1, <1>3 DEF HandleInv, ClosedLate, Posting
<1>12. NothingFromTheDead'
    BY <1>1, <1>2, <1>3, <1>4, <1>5 DEF HandleInv, NothingFromTheDead
<1> QED  BY <1>7, <1>8, <1>9, <1>10, <1>11, <1>12 DEF HandleInv

\* The GUI thread runs the oldest call; of the workers only the one that waits
\* for it, or whose thread it ends, moves.
LEMMA HandleRun ==
    ASSUME TypeOK, HandleInv, NEW call, Run(call), UNCHANGED pp,
           NEW at,
           \/ pc' = pc /\ ~LastCall(Head(queue))
           \/ /\ pc' = [pc EXCEPT ![Head(queue).from] = at]
              /\ \/ call = "clear_wk_pp" /\ at = "dead" /\ wk_pp' = NULL
                 \/ call = "quit" /\ at = "finished" /\ wk_pp' = wk_pp,
           wk_pp' \in {wk_pp, NULL} \/ (wk_pp' = Head(queue).from /\ call = "set_wk_pp")
    PROVE  HandleInv'
<1> DEFINE h == Head(queue)
<1>1. /\ pc \in [Sources -> PC] /\ queue \in Seq(Event) /\ wk_pp \in Sources \cup {NULL}
    BY DEF TypeOK
<1>2. \A i \in 1..Len(queue) : queue[i].from \in Sources
    BY <1>1, ElementOfSeq, PacketTypes
<1>3. queue # <<>> /\ h.call = call /\ queue' = Tail(queue)
    BY DEF Run
<1>4. /\ 1 \in 1..Len(queue) /\ h = queue[1] /\ Len(queue) \in Nat
      /\ Len(queue') = Len(queue) - 1
      /\ \A i \in 1..Len(queue') : i + 1 \in 2..Len(queue) /\ queue'[i] = queue[i + 1]
    BY <1>1, <1>3, TailOfQueue
<1>5. LastCall(h) => /\ pc[h.from] = AfterLast(h)
                     /\ \A i \in 1..Len(queue') : queue'[i].from # h.from
    BY <1>4 DEF HandleInv, LastStops, LastIsLast
<1>6. pc' = pc \/ (LastCall(h) /\ pc' = [pc EXCEPT ![h.from] = at])
    BY <1>3 DEF LastCall
<1>7. \A i \in 1..Len(queue') :
        queue'[i].from \in Sources /\ pc'[queue'[i].from] = pc[queue'[i].from]
    BY <1>1, <1>2, <1>4, <1>5, <1>6
<1> HIDE DEF h
<1>8. LastStops'
    <2> SUFFICES ASSUME NEW i \in 1..Len(queue'), LastCall(queue'[i])
                 PROVE  pc'[queue'[i].from] = AfterLast(queue'[i])
        BY DEF LastStops, LastCall, AfterLast
    <2> QED  BY SMTT(30), <1>4, <1>7 DEF HandleInv, LastStops
<1>9. LastIsLast'
    <2> SUFFICES ASSUME NEW i \in 1..Len(queue'), NEW j \in 1..Len(queue'),
                        LastCall(queue'[i]), i < j
                 PROVE  queue'[j].from # queue'[i].from
        BY DEF LastIsLast, LastCall
    <2>1. /\ i + 1 \in 1..Len(queue) /\ j + 1 \in 1..Len(queue) /\ i + 1 < j + 1
          /\ queue'[i] = queue[i + 1] /\ queue'[j] = queue[j + 1]
        BY <1>4
    <2> QED  BY <2>1 DEF HandleInv, LastIsLast
<1>10. HandleQueued'
    BY <1>4, <1>7 DEF HandleInv, HandleQueued
<1>11. HandleKnown'
    <2>1. CASE LastCall(h) /\ call = "quit"
        <3>1. wk_pp' = wk_pp \/ wk_pp' = NULL
            BY <2>1
        <3>2. pc[h.from] = "ended"
            BY <1>3, <1>5, <2>1 DEF AfterLast
        <3> QED  BY <1>1, <1>6, <3>1, <3>2 DEF HandleInv, HandleKnown, Held
    <2>2. CASE LastCall(h) /\ call # "quit"
        <3>1. wk_pp' = NULL
            BY <1>3, <2>2 DEF LastCall, h
        <3> QED  BY <3>1 DEF HandleKnown
    <2>3. CASE ~LastCall(h)
        <3>1. pc' = pc
            BY <1>6, <2>3
        <3>2. wk_pp' = h.from /\ call = "set_wk_pp" => pc[wk_pp'] \in Held
            BY <1>3, <1>4 DEF HandleInv, HandleQueued
        <3>3. wk_pp' \in {wk_pp, NULL} \/ (wk_pp' = h.from /\ call = "set_wk_pp")
            BY DEF h
        <3> QED  BY <3>1, <3>2, <3>3 DEF HandleInv, HandleKnown
    <2> QED  BY <2>1, <2>2, <2>3
<1>12. ClosedLate'
    <2>1. LastCall(h) => pc[h.from] \in {"wait", "ended"} /\ h.from \in Sources
        BY <1>2, <1>4, <1>5 DEF AfterLast
    <2>2. pc' = pc \/ at \in {"dead", "finished"}
        OBVIOUS
    <2> QED  BY <1>1, <1>6, <2>1, <2>2 DEF HandleInv, ClosedLate
<1>13. NothingFromTheDead'
    BY <1>4, <1>7 DEF HandleInv, NothingFromTheDead
<1> QED  BY <1>8, <1>9, <1>10, <1>11, <1>12, <1>13 DEF HandleInv

LEMMA HandleInit == Init => HandleInv
<1> SUFFICES ASSUME Init PROVE HandleInv
    OBVIOUS
<1>1. Len(queue) = 0 /\ wk_pp = NULL /\ \A w \in Sources : pp[w] = "none"
    BY EmptySeq DEF Init
<1> QED  BY <1>1 DEF HandleInv, LastStops, LastIsLast, HandleQueued, HandleKnown, ClosedLate,
                     NothingFromTheDead

LEMMA HandleStep == TypeInv /\ HandleInv /\ [Next]_vars => HandleInv'
<1> SUFFICES ASSUME TypeOK, NumCounted, HandleInv, [Next]_vars PROVE HandleInv'
    BY DEF TypeInv
<1>1. /\ pc \in [Sources -> PC] /\ pp \in [Sources -> {"none", "open", "closed"}]
      /\ num \in [Sources -> Nat]
    BY DEF TypeOK
\* The GUI thread runs a call.
<1>2. CASE set_wk_pp
    BY <1>2, HandleRun DEF set_wk_pp, workerVars, Run, LastCall
<1>3. CASE clear_wk_pp
    BY <1>3, HandleRun DEF clear_wk_pp
<1>4. CASE set_wk_life
    BY <1>4, HandleRun DEF set_wk_life, workerVars, Run, LastCall
<1>5. CASE set_wk_flag
    BY <1>5, HandleRun DEF set_wk_flag, workerVars, Run, LastCall
<1>6. CASE update_md
    BY <1>6, HandleRun DEF update_md, workerVars, Run, LastCall
<1>7. CASE dump_push_back
    BY <1>7, HandleRun DEF dump_push_back, workerVars, Run, LastCall
<1>8. CASE quit
    BY <1>8, HandleRun DEF quit, pcapVars
\* A worker moves.
<1>9. ASSUME NEW w \in Sources, Opens(w) \/ Filters(w) \/ Receive(w) \/ Loops(w) \/ Close(w)
      PROVE  HandleInv'
    <2>1. UNCHANGED <<queue, wk_pp>>
        BY <1>9 DEF Opens, OpenFails, OpenSucceeds, Filters, EnterLoop, FilterRejected,
                    Receive, Loops, TestFlag, ReadNothing, LoopError, Close, pcapVars
    <2>2. PICK at : /\ pc' = [pc EXCEPT ![w] = at]
                    /\ at \notin Idle /\ pc[w] \notin {"wait", "ended"}
                    /\ pc[w] \in Held => at \in Held
        BY <1>9 DEF Opens, OpenFails, OpenSucceeds, Filters, EnterLoop, FilterRejected,
                    Receive, Loops, TestFlag, ReadNothing, LoopError, Close, Idle, Held
    <2>3. ClosedLate'
        BY <1>1, <1>9 DEF HandleInv, ClosedLate, Opens, OpenFails, OpenSucceeds, Filters,
                          EnterLoop, FilterRejected, Receive, Loops, TestFlag, ReadNothing, LoopError, Close
    <2> QED  BY <2>1, <2>2, <2>3, HandleLocal
<1>10. ASSUME NEW w \in Sources, PostCall(w, "row", "update_md", num[w] - 1, "dump") \/
                                 PostCall(w, "dump", "dump_push_back", num[w] - 1, "loop")
       PROVE  HandleInv'
    <2>1. num[w] - 1 \in Nat
        BY <1>1, <1>10 DEF NumCounted, PostCall
    <2>2. PICK n \in Nat : n = num[w] - 1
        BY <2>1
    <2>3. \/ PostCall(w, "row", "update_md", n, "dump")
          \/ PostCall(w, "dump", "dump_push_back", n, "loop")
        BY <1>10, <2>2 DEF PostCall
    <2> QED  BY <2>3, HandlePost DEF Calls, Posting, Idle, Held
<1>11. ASSUME NEW w \in Sources, Post(w)
       PROVE  HandleInv'
    BY <1>10, <1>11, HandlePost DEF Post, Calls, Posting, Idle, Held
\* The user does something: only a Start and a file that is read take a source.
<1>12. ASSUME NEW w \in Sources, NEW at \in {"start", "file"},
              pc[w] = "unused", pc' = [pc EXCEPT ![w] = at], UNCHANGED <<wk_pp, queue, pp>>
       PROVE  HandleInv'
    <2>1. ClosedLate'
        BY <1>1, <1>12 DEF HandleInv, ClosedLate
    <2> QED  BY <1>12, <2>1, HandleLocal DEF Held, Idle
<1>13. ASSUME UNCHANGED <<wk_pp, queue, pc, pp>> PROVE HandleInv'
    BY <1>13 DEF HandleInv, LastStops, LastIsLast, HandleQueued, HandleKnown, ClosedLate,
                 NothingFromTheDead, LastCall, AfterLast
<1>14. CASE UserStep
    <2>1. \/ UNCHANGED <<wk_pp, queue, pc, pp>>
          \/ \E w \in Sources : create_Th(w) \/ \E k \in 0..MaxPkts : pcapFile_Read(w, k)
        BY <1>14 DEF UserStep, OpenNic, FileUnreadable, StartWithoutNic, Stop, Reset, Back,
            OpenSave, save_md, PktBack, DoubleClick, pcapVars, workerVars
    <2>2. ASSUME NEW w \in Sources,
                 create_Th(w) \/ \E k \in 0..MaxPkts : pcapFile_Read(w, k)
          PROVE  HandleInv'
        BY <1>12, <2>2 DEF create_Th, pcapFile_Read, Fresh
    <2> QED  BY <1>13, <2>1, <2>2
<1>15. CASE UNCHANGED vars
    BY <1>13, <1>15 DEF vars, pcapVars, workerVars
<1> QED
    BY <1>2, <1>3, <1>4, <1>5, <1>6, <1>7, <1>8, <1>9, <1>11, <1>14, <1>15
    DEF Next, Down, Deliver, WorkerStep

LEMMA SpecHandleInv == Spec => [](TypeInv /\ HandleInv)
<1>1. Init => TypeInv /\ HandleInv
    BY TypeInit, HandleInit
<1>2. TypeInv /\ HandleInv /\ [Next]_vars => (TypeInv /\ HandleInv)'
    BY TypeStep, HandleStep
<1> QED  BY <1>1, <1>2, PTL DEF Spec

(***************************************************************************)
(* However many captures overlap and whatever buttons are pressed, Pcap    *)
(* holds a closed handle only between pcap_close and the return of the     *)
(* blocking set_wk_pp(nullptr) of its worker.                              *)
(***************************************************************************)
THEOREM HandleWindowHolds == Spec => []HandleWindow
BY SpecHandleInv, HandleInvImplies, PTL

(***************************************************************************)
(* When a worker's thread has finished, and Qt deletes thread and worker,  *)
(* no call of that worker is left in the queue.                            *)
(***************************************************************************)
THEOREM DeadAreSilent == Spec => []NothingFromTheDead
BY SpecHandleInv, HandleInvImplies, PTL

-----------------------------------------------------------------------------
(***************************************************************************)
(* Nobody is stuck.  The queue loses its oldest call only, and when that   *)
(* is the one a worker waits for, it moves this very worker.               *)
(***************************************************************************)
LEMMA StuckPost ==
    ASSUME TypeOK, NobodyIsStuck, NEW w \in Sources, NEW at \in Posting,
           NEW call \in Calls, NEW n \in Nat, NEW next,
           PostCall(w, at, call, n, next),
           next = "wait" => call = "clear_wk_pp",
           next = "ended" => call = "quit"
    PROVE  NobodyIsStuck'
<1> DEFINE e == [call |-> call, from |-> w, num |-> n]
<1>1. /\ pc \in [Sources -> PC] /\ queue \in Seq(Event) /\ e \in Event
      /\ e.call = call /\ e.from = w
    BY PacketTypes DEF TypeOK, Event
<1>2. pc[w] = at /\ pc' = [pc EXCEPT ![w] = next] /\ queue' = Append(queue, e)
    BY DEF PostCall
<1>3. /\ Len(queue) \in Nat /\ Len(queue') = Len(queue) + 1
      /\ \A i \in 1..Len(queue) : queue'[i] = queue[i]
      /\ queue'[Len(queue) + 1] = e
    BY <1>1, <1>2, AppendToQueue
<1> HIDE DEF e
<1> SUFFICES ASSUME NEW v \in Sources, pc'[v] \in {"wait", "ended"}
             PROVE  Awaited(v)'
    BY DEF NobodyIsStuck
<1>4. CASE v = w
    <2>1. pc'[v] = next
        BY <1>1, <1>2, <1>4
    <2>2. Len(queue) + 1 \in 1..Len(queue')
        BY <1>3
    <2> QED  BY <1>1, <1>3, <1>4, <2>1, <2>2 DEF Awaited
<1>5. CASE v # w
    <2>1. pc'[v] = pc[v]
        BY <1>1, <1>2, <1>5
    <2>2. Awaited(v)
        BY <2>1 DEF NobodyIsStuck
    <2>3. \A i \in 1..Len(queue) : i \in 1..Len(queue')
        BY <1>3
    <2> QED  BY <1>3, <2>1, <2>2, <2>3 DEF Awaited
<1> QED  BY <1>4, <1>5

LEMMA StuckRun ==
    ASSUME TypeOK, HandleInv, NobodyIsStuck, NEW call, Run(call),
           \/ pc' = pc /\ ~LastCall(Head(queue))
           \/ LastCall(Head(queue)) /\ \E at \in {"dead", "finished"} :
                pc' = [pc EXCEPT ![Head(queue).from] = at]
    PROVE  NobodyIsStuck'
<1>1. pc \in [Sources -> PC] /\ queue \in Seq(Event) /\ queue # <<>> /\ queue' = Tail(queue)
    BY DEF TypeOK, Run
<1>2. /\ 1 \in 1..Len(queue) /\ Head(queue) = queue[1] /\ Len(queue) \in Nat
      /\ Len(queue') = Len(queue) - 1
      /\ \A i \in 1..Len(queue') : i + 1 \in 2..Len(queue) /\ queue'[i] = queue[i + 1]
    BY <1>1, TailOfQueue
<1>3. queue[1].from \in Sources
    BY <1>1, <1>2, ElementOfSeq, PacketTypes
<1> SUFFICES ASSUME NEW v \in Sources, pc'[v] \in {"wait", "ended"}
             PROVE  Awaited(v)'
    BY DEF NobodyIsStuck
<1>4. pc'[v] = pc[v] /\ (LastCall(queue[1]) => queue[1].from # v)
    BY <1>1, <1>2, <1>3
<1>5. PICK i \in 1..Len(queue) :
        /\ queue[i].call = IF pc[v] = "wait" THEN "clear_wk_pp" ELSE "quit"
        /\ queue[i].from = v
    BY <1>4 DEF NobodyIsStuck, Awaited
<1>6. i # 1
    BY <1>4, <1>5 DEF LastCall
<1>7. i - 1 \in 1..Len(queue') /\ queue'[i - 1] = queue[i]
    <2>1. i - 1 \in 1..Len(queue') /\ (i - 1) + 1 = i
        BY <1>2, <1>6
    <2> QED  BY <1>2, <2>1
<1> QED  BY <1>4, <1>5, <1>7 DEF Awaited

LEMMA StuckStep == TypeInv /\ HandleInv /\ NobodyIsStuck /\ [Next]_vars => NobodyIsStuck'
<1> SUFFICES ASSUME TypeOK, NumCounted, HandleInv, NobodyIsStuck, [Next]_vars
             PROVE  NobodyIsStuck'
    BY DEF TypeInv
<1>1. pc \in [Sources -> PC] /\ num \in [Sources -> Nat]
    BY DEF TypeOK
<1>2. CASE Deliver
    <2>1. CASE set_wk_pp \/ set_wk_life \/ set_wk_flag \/ update_md \/ dump_push_back
        BY <2>1, StuckRun DEF set_wk_pp, set_wk_life, set_wk_flag, update_md, dump_push_back,
            workerVars, Run, LastCall
    <2>2. CASE clear_wk_pp \/ quit
        BY <2>2, StuckRun DEF clear_wk_pp, quit, Run, LastCall
    <2> QED  BY <1>2, <2>1, <2>2 DEF Deliver
\* Whoever moves without a call does not come to a place where it waits.
<1>3. ASSUME NEW w \in Sources, NEW at \in PC \ {"wait", "ended"},
             pc' = [pc EXCEPT ![w] = at], UNCHANGED queue
      PROVE  NobodyIsStuck'
    BY <1>1, <1>3 DEF NobodyIsStuck, Awaited
<1>4. ASSUME NEW w \in Sources, Opens(w) \/ Filters(w) \/ Receive(w) \/ Loops(w) \/ Close(w)
      PROVE  NobodyIsStuck'
    BY <1>3, <1>4 DEF Opens, OpenFails, OpenSucceeds, Filters, EnterLoop, FilterRejected,
        Receive, Loops, TestFlag, ReadNothing, LoopError, Close, PC, Posting
<1>5. ASSUME NEW w \in Sources, PostCall(w, "row", "update_md", num[w] - 1, "dump") \/
                                PostCall(w, "dump", "dump_push_back", num[w] - 1, "loop")
      PROVE  NobodyIsStuck'
    <2>1. num[w] - 1 \in Nat
        BY <1>1, <1>5 DEF NumCounted, PostCall
    <2> QED  BY <1>5, <2>1, StuckPost DEF Calls, Posting
<1>6. ASSUME NEW w \in Sources, Post(w) PROVE NobodyIsStuck'
    BY <1>5, <1>6, StuckPost DEF Post, Calls, Posting
<1>7. ASSUME UNCHANGED <<queue, pc>> PROVE NobodyIsStuck'
    BY <1>7 DEF NobodyIsStuck, Awaited
<1>8. CASE UserStep
    <2>1. \/ UNCHANGED <<queue, pc>>
          \/ \E w \in Sources : create_Th(w) \/ \E k \in 0..MaxPkts : pcapFile_Read(w, k)
        BY <1>8 DEF UserStep, OpenNic, FileUnreadable, StartWithoutNic, Stop, Reset, Back,
            OpenSave, save_md, PktBack, DoubleClick, workerVars
    <2>2. ASSUME NEW w \in Sources,
                 create_Th(w) \/ \E k \in 0..MaxPkts : pcapFile_Read(w, k)
          PROVE  NobodyIsStuck'
        BY <1>3, <2>2 DEF create_Th, pcapFile_Read, PC, Idle
    <2> QED  BY <1>7, <2>1, <2>2
<1>9. CASE UNCHANGED vars
    BY <1>7, <1>9 DEF vars, workerVars
<1> QED
    BY <1>2, <1>4, <1>6, <1>8, <1>9 DEF Next, Down, WorkerStep

(***************************************************************************)
(* A worker that is blocked in set_wk_pp(nullptr), or has emitted sig_end, *)
(* finds its call still queued, however many workers' calls are mixed in   *)
(* one queue: the safety half of BrokenLoopEnds.                           *)
(***************************************************************************)
THEOREM NobodyStaysStuck == Spec => []NobodyIsStuck
<1>1. Init => NobodyIsStuck
    BY DEF Init, NobodyIsStuck
<1>2. TypeInv /\ HandleInv /\ NobodyIsStuck /\ [Next]_vars => NobodyIsStuck'
    BY StuckStep
<1> QED  BY <1>1, <1>2, SpecHandleInv, PTL DEF Spec

-----------------------------------------------------------------------------
(***************************************************************************)
(* Rows and raw packets.  A row in the queue is followed there by its raw  *)
(* packet, or its worker is about to post it; that carries over to the     *)
(* table when the row is shown, and clearing empties both lists at once.   *)
(***************************************************************************)
RowCall(p) == [call |-> "update_md", from |-> p.src, num |-> p.num]
RowFollowed ==
    \A p \in Packet, i \in 1..Len(queue) : queue[i] = RowCall(p) =>
        \/ Dumping(p)
        \/ \E j \in 1..Len(queue) : i < j /\ queue[j] = DumpCall(p)

RowInv == RowFollowed /\ RowHasDump

\* What is about to be posted stays so until it is posted.
LEMMA DumpingStays ==
    ASSUME TypeInv, HandleInv, [Next]_vars, NEW p \in Packet, Dumping(p)
    PROVE  Dumping(p)' \/ \E n \in Nat : PostCall(p.src, "dump", "dump_push_back", n, "loop")
                                         /\ n = p.num
<1>1. /\ pc \in [Sources -> PC] /\ num \in [Sources -> Nat] /\ queue \in Seq(Event)
      /\ p.src \in Sources /\ p.num \in Nat
    BY PacketTypes DEF TypeInv, TypeOK
<1>2. pc[p.src] = "dump" /\ num[p.src] = p.num + 1
    BY DEF Dumping
<1>3. ASSUME UNCHANGED <<pc, num>> PROVE Dumping(p)'
    BY <1>3 DEF Dumping
<1>4. ASSUME NEW w \in Sources, NEW at, NEW n,
             pc[w] # "dump", pc' = [pc EXCEPT ![w] = at],
             num' = num \/ num' = [num EXCEPT ![w] = n]
      PROVE  Dumping(p)'
    BY <1>1, <1>2, <1>4 DEF Dumping
<1>5. CASE Deliver
    <2>1. CASE clear_wk_pp \/ quit
        <3>1. 1 \in 1..Len(queue) /\ Head(queue) = queue[1] /\ Head(queue).from \in Sources
            BY <1>1, <2>1, TailOfQueue, PacketTypes DEF clear_wk_pp, quit, Run
        <3>2. pc[Head(queue).from] \in {"wait", "ended"}
            BY <2>1, <3>1 DEF clear_wk_pp, quit, Run, HandleInv, LastStops, LastCall, AfterLast
        <3> QED  BY <1>4, <2>1, <3>1, <3>2 DEF clear_wk_pp, quit
    <2>2. CASE ~(clear_wk_pp \/ quit)
        BY <1>3, <1>5, <2>2 DEF Deliver, set_wk_pp, set_wk_life, set_wk_flag, update_md,
            dump_push_back, workerVars
    <2> QED  BY <2>1, <2>2
<1>6. CASE UserStep
    <2>1. \/ UNCHANGED <<pc, num>>
          \/ \E w \in Sources : create_Th(w) \/ \E k \in 0..MaxPkts : pcapFile_Read(w, k)
        BY <1>6 DEF UserStep, OpenNic, FileUnreadable, StartWithoutNic, Stop, Reset, Back,
            OpenSave, save_md, PktBack, DoubleClick, workerVars
    <2>2. ASSUME NEW w \in Sources,
                 create_Th(w) \/ \E k \in 0..MaxPkts : pcapFile_Read(w, k)
          PROVE  Dumping(p)'
        BY <1>4, <2>2 DEF create_Th, pcapFile_Read, Fresh
    <2> QED  BY <1>3, <2>1, <2>2
<1>7. ASSUME NEW w \in Sources, Opens(w) \/ Filters(w) \/ Receive(w) \/ Loops(w) \/ Close(w)
      PROVE  Dumping(p)'
    <2>1. \E at, n : /\ pc[w] # "dump" /\ pc' = [pc EXCEPT ![w] = at]
                     /\ num' = num \/ num' = [num EXCEPT ![w] = n]
        BY <1>7 DEF Opens, OpenFails, OpenSucceeds, Filters, EnterLoop, FilterRejected,
                    Receive, Loops, TestFlag, ReadNothing, LoopError, Close
    <2> QED  BY <1>4, <2>1
<1>8. ASSUME NEW w \in Sources, Post(w)
      PROVE  Dumping(p)' \/ \E n \in Nat : PostCall(p.src, "dump", "dump_push_back", n, "loop")
                                           /\ n = p.num
    <2>1. CASE w = p.src
        <3>1. PostCall(w, "dump", "dump_push_back", num[w] - 1, "loop")
            BY <1>2, <1>8, <2>1 DEF Post, PostCall
        <3>2. num[w] - 1 = p.num
            BY <1>1, <1>2, <2>1
        <3> QED  BY <1>1, <2>1, <3>1, <3>2
    <2>2. CASE w # p.src
        BY <1>1, <1>2, <1>8, <2>2 DEF Post, PostCall, Dumping
    <2> QED  BY <2>1, <2>2
<1>9. CASE UNCHANGED vars
    BY <1>3, <1>9 DEF vars, workerVars
<1> QED  BY <1>5, <1>6, <1>7, <1>8, <1>9 DEF Next, Down, WorkerStep

\* The queue grows at its end, shrinks at its front, or stays.
LEMMA QueueMoves ==
    ASSUME TypeInv, [Next]_vars
    PROVE  \/ queue' = queue
           \/ \E w \in Sources, e \in Event : Post(w) /\ queue' = Append(queue, e)
           \/ Deliver /\ queue # <<>> /\ queue' = Tail(queue)
<1>1. num \in [Sources -> Nat]
    BY DEF TypeInv, TypeOK
<1>2. ASSUME NEW w \in Sources, Post(w)
      PROVE  \E e \in Event : queue' = Append(queue, e)
    <2>1. pc[w] \in {"row", "dump"} => num[w] - 1 \in Nat
        BY <1>1 DEF TypeInv, NumCounted
    <2>2. \E c \in Calls, n \in Nat : queue' = Append(queue, [call |-> c, from |-> w, num |-> n])
        BY <1>2, <2>1 DEF Post, PostCall, Calls
    <2> QED  BY <2>2, PacketTypes
<1>3. CASE Deliver
    BY <1>3 DEF Deliver, set_wk_pp, clear_wk_pp, set_wk_life, set_wk_flag, update_md,
        dump_push_back, quit, Run
<1>4. ASSUME ~Deliver, \A w \in Sources : ~Post(w) PROVE queue' = queue
    BY <1>4 DEF Next, Down, vars, UserStep, OpenNic, FileUnreadable, StartWithoutNic, Stop,
        Reset, Back, OpenSave, save_md, PktBack, DoubleClick, create_Th, pcapFile_Read,
        WorkerStep, Opens, OpenFails, OpenSucceeds, Filters, EnterLoop, FilterRejected,
        Receive, Loops, TestFlag, ReadNothing, LoopError, Close
<1> QED  BY <1>2, <1>3, <1>4

\* A raw packet on the way stays on the way until it is stored.
LEMMA ComingStays ==
    ASSUME TypeInv, HandleInv, [Next]_vars, NEW p \in Packet, Coming(p)
    PROVE  Coming(p)' \/ Stored(p)'
<1>1. queue \in Seq(Event) /\ vec_dump \in Seq(Packet) /\ p.src \in Sources /\ p.num \in Nat
    BY PacketTypes DEF TypeInv, TypeOK
<1>2. CASE Dumping(p)
    <2>1. ASSUME NEW n \in Nat, n = p.num, PostCall(p.src, "dump", "dump_push_back", n, "loop")
          PROVE  Coming(p)'
        <3>1. queue' = Append(queue, DumpCall(p)) /\ DumpCall(p) \in Event
            BY <1>1, <2>1, PacketTypes DEF PostCall, DumpCall, Calls
        <3>2. queue'[Len(queue) + 1] = DumpCall(p) /\ Len(queue) + 1 \in 1..Len(queue')
            BY <1>1, <3>1, AppendToQueue
        <3> QED  BY <3>2 DEF Coming, DumpCall
    <2> QED  BY <1>2, <2>1, DumpingStays DEF Coming
<1>3. CASE \E i \in 1..Len(queue) : queue[i] = DumpCall(p)
    <2>1. PICK i \in 1..Len(queue) : queue[i] = DumpCall(p)
        BY <1>3
    <2>2. CASE queue' = queue
        BY <2>1, <2>2 DEF Coming, DumpCall
    <2>3. ASSUME NEW e \in Event, queue' = Append(queue, e) PROVE Coming(p)'
        <3>1. i \in 1..Len(queue') /\ queue'[i] = queue[i]
            BY <1>1, <2>3, AppendToQueue
        <3> QED  BY <2>1, <3>1 DEF Coming, DumpCall
    <2>4. CASE Deliver /\ queue # <<>> /\ queue' = Tail(queue)
        <3>1. /\ Len(queue) \in Nat /\ Head(queue) = queue[1] /\ Len(queue') = Len(queue) - 1
              /\ \A k \in 1..Len(queue') : queue'[k] = queue[k + 1]
            BY <1>1, <2>4, TailOfQueue
        <3>2. CASE i = 1
            <4>1. Head(queue).call = "dump_push_back" /\ HeadPacket = [src |-> p.src, num |-> p.num]
                BY <2>1, <3>1, <3>2 DEF HeadPacket, DumpCall
            <4>2. HeadPacket = p
                BY <4>1 DEF Packet
            <4>3. vec_dump' = Append(vec_dump, p)
                BY <2>4, <4>1, <4>2 DEF Deliver, set_wk_pp, clear_wk_pp, set_wk_life, set_wk_flag,
                    update_md, dump_push_back, quit, Run
            <4>4. vec_dump'[Len(vec_dump) + 1] = p /\ Len(vec_dump) + 1 \in 1..Len(vec_dump')
                BY <1>1, <4>3, AppendToQueue
            <4> QED  BY <4>4 DEF Stored
        <3>3. CASE i # 1
            <4>1. i - 1 \in 1..Len(queue') /\ queue'[i - 1] = queue[i]
                BY <3>1, <3>3
            <4> QED  BY <2>1, <4>1 DEF Coming, DumpCall
        <3> QED  BY <3>2, <3>3
    <2> QED  BY <2>2, <2>3, <2>4, QueueMoves
<1> QED  BY <1>2, <1>3 DEF Coming

\* The lists: they are cleared together, and a row is added by update_md or by
\* reading a file, which stores it too.
LEMMA ListsMove ==
    ASSUME TypeInv, [Next]_vars
    PROVE  \/ vec' = {}
           \/ /\ \A p \in Packet : Stored(p) => Stored(p)'
              /\ \A p \in vec' : \/ p \in vec
                                 \/ Stored(p)'
                                 \/ update_md /\ p = HeadPacket
<1>1. vec_dump \in Seq(Packet) /\ queue \in Seq(Event) /\ vec \subseteq Packet
    BY DEF TypeInv, TypeOK
<1>2. CASE UNCHANGED <<vec, vec_dump>>
    BY <1>2 DEF Stored
<1>3. CASE update_md
    BY <1>3 DEF update_md, Stored
<1>4. CASE dump_push_back
    <2>1. HeadPacket \in Packet /\ vec' = vec /\ vec_dump' = Append(vec_dump, HeadPacket)
        BY <1>4, HeadType DEF dump_push_back, Run, TypeInv
    <2>2. \A i \in 1..Len(vec_dump) : i \in 1..Len(vec_dump') /\ vec_dump'[i] = vec_dump[i]
        BY <1>1, <2>1, AppendToQueue
    <2> QED  BY <2>1, <2>2 DEF Stored
<1>5. ASSUME NEW s \in Sources, NEW k \in 0..MaxPkts, pcapFile_Read(s, k)
      PROVE  /\ \A p \in Packet : Stored(p) => Stored(p)'
             /\ \A p \in vec' : p \in vec \/ Stored(p)'
    <2> DEFINE F == FilePackets(s, k)
    <2>1. k \in Nat /\ F \in Seq(Packet) /\ Len(F) = k /\ Len(vec_dump) \in Nat
        BY <1>1, SourcesAssumption, FileTypes, LenProperties
    <2>2. vec' = vec \cup {F[i] : i \in 1..k} /\ vec_dump' = vec_dump \o F
        BY <1>5 DEF pcapFile_Read
    <2> HIDE DEF F
    <2>3. /\ Len(vec_dump') = Len(vec_dump) + k
          /\ \A i \in 1..Len(vec_dump) : vec_dump'[i] = vec_dump[i]
          /\ \A i \in 1..k : vec_dump'[Len(vec_dump) + i] = F[i]
        <3>1. /\ Len(vec_dump \o F) = Len(vec_dump) + Len(F)
              /\ \A i \in 1..(Len(vec_dump) + Len(F)) :
                    (vec_dump \o F)[i] = IF i <= Len(vec_dump) THEN vec_dump[i]
                                         ELSE F[i - Len(vec_dump)]
            BY <1>1, <2>1, ConcatProperties
        <3>2. \A i \in 1..k : Len(vec_dump) + i \in 1..(Len(vec_dump) + k)
                              /\ ~(Len(vec_dump) + i <= Len(vec_dump))
                              /\ Len(vec_dump) + i - Len(vec_dump) = i
            BY <2>1
        <3>3. \A i \in 1..Len(vec_dump) : i \in 1..(Len(vec_dump) + k) /\ i <= Len(vec_dump)
            BY <2>1
        <3> QED  BY <2>1, <2>2, <3>1, <3>2, <3>3
    <2>4. ASSUME NEW p \in Packet, Stored(p) PROVE Stored(p)'
        BY <2>1, <2>3, <2>4 DEF Stored
    <2>5. \A i \in 1..k : \E j \in 1..Len(vec_dump') : vec_dump'[j] = F[i]
        BY <2>1, <2>3
    <2>6. \A p \in vec' : p \in vec \/ \E j \in 1..Len(vec_dump') : vec_dump'[j] = p
        BY <2>2, <2>5
    <2> QED  BY <2>4, <2>6 DEF Stored
<1>6. ASSUME vec' # {}, ~update_md, ~dump_push_back,
             \A s \in Sources, k \in 0..MaxPkts : ~pcapFile_Read(s, k)
      PROVE  UNCHANGED <<vec, vec_dump>>
    <2>1. CASE Deliver
        BY <1>6, <2>1 DEF Deliver, set_wk_pp, clear_wk_pp, set_wk_life, set_wk_flag, quit,
            pcapVars, dataVars
    <2>2. CASE UserStep
        BY <1>6, <2>2 DEF UserStep, OpenNic, FileUnreadable, StartWithoutNic, Stop, Reset, Back,
            OpenSave, save_md, PktBack, DoubleClick, create_Th, reset_md, Clear,
            pcapVars, dataVars
    <2>3. CASE \E w \in Sources : WorkerStep(w)
        BY <2>3 DEF WorkerStep, Post, PostCall, Opens, OpenFails, OpenSucceeds, Filters,
            EnterLoop, FilterRejected, Receive, Loops, TestFlag, ReadNothing, LoopError, Close, pcapVars
    <2>4. CASE UNCHANGED vars
        BY <2>4 DEF vars, pcapVars
    <2> QED  BY <2>1, <2>2, <2>3, <2>4 DEF Next, Down
<1> QED  BY <1>2, <1>3, <1>4, <1>5, <1>6

LEMMA RowStep == TypeInv /\ HandleInv /\ RowInv /\ [Next]_vars => RowInv'
<1> SUFFICES ASSUME TypeInv, HandleInv, RowInv, [Next]_vars PROVE RowInv'
    OBVIOUS
<1>1. /\ queue \in Seq(Event) /\ vec \subseteq Packet /\ num \in [Sources -> Nat]
      /\ pc \in [Sources -> PC]
    BY DEF TypeInv, TypeOK
<1>2. RowHasDump'
    <2> SUFFICES ASSUME NEW p \in vec', vec' # {} PROVE Stored(p)' \/ Coming(p)'
        BY DEF RowHasDump, Stored, Coming, Dumping, DumpCall
    <2>1. CASE p \in vec
        <3>1. p \in Packet /\ (Stored(p) \/ Coming(p))
            BY <1>1, <2>1 DEF RowInv, RowHasDump
        <3> QED  BY <3>1, ListsMove, ComingStays
    <2>2. CASE update_md /\ p = HeadPacket
        <3>1. /\ 1 \in 1..Len(queue) /\ queue[1] \in Event /\ queue[1].call = "update_md"
              /\ p = [src |-> queue[1].from, num |-> queue[1].num] /\ p \in Packet
            BY <1>1, <2>2, TailOfQueue, PacketTypes DEF update_md, Run, HeadPacket
        <3>2. queue[1] = RowCall(p)
            BY <3>1 DEF RowCall, Event
        <3>3. Coming(p)
            BY <3>1, <3>2 DEF Coming, RowInv, RowFollowed
        <3> QED  BY <3>1, <3>3, ComingStays
    <2> QED  BY <2>1, <2>2, ListsMove
<1>3. RowFollowed'
    <2> SUFFICES ASSUME NEW p \in Packet, NEW i \in 1..Len(queue'), queue'[i] = RowCall(p)
                 PROVE  Dumping(p)' \/ \E j \in 1..Len(queue') : i < j /\ queue'[j] = DumpCall(p)
        BY DEF RowFollowed, RowCall, DumpCall, Dumping
    <2>1. CASE queue' = queue
        <3>1. Dumping(p) \/ \E j \in 1..Len(queue) : i < j /\ queue[j] = DumpCall(p)
            BY <2>1 DEF RowInv, RowFollowed
        <3>2. Dumping(p) => Dumping(p)' \/ \E n \in Nat : queue' = Append(queue, DumpCall(p))
            BY DumpingStays DEF PostCall, DumpCall
        <3>3. DumpCall(p) \in Event
            BY PacketTypes DEF DumpCall, Calls
        <3>4. queue' # Append(queue, DumpCall(p))
            BY <1>1, <2>1, <3>3, AppendToQueue
        <3> QED  BY <2>1, <3>1, <3>2, <3>4
    <2>2. ASSUME NEW w \in Sources, NEW e \in Event, Post(w), queue' = Append(queue, e)
          PROVE  Dumping(p)' \/ \E j \in 1..Len(queue') : i < j /\ queue'[j] = DumpCall(p)
        <3>1. /\ Len(queue) \in Nat /\ Len(queue') = Len(queue) + 1 /\ queue'[Len(queue) + 1] = e
              /\ \A k \in 1..Len(queue) : queue'[k] = queue[k]
            BY <1>1, <2>2, AppendToQueue
        <3>2. CASE i \in 1..Len(queue)
            <4>1. Dumping(p) \/ \E j \in 1..Len(queue) : i < j /\ queue[j] = DumpCall(p)
                BY <3>1, <3>2 DEF RowInv, RowFollowed
            <4>2. ASSUME NEW n \in Nat, n = p.num,
                         PostCall(p.src, "dump", "dump_push_back", n, "loop")
                  PROVE  queue'[Len(queue) + 1] = DumpCall(p)
                <5>1. queue' = Append(queue, DumpCall(p)) /\ DumpCall(p) \in Event
                    BY <4>2, PacketTypes DEF PostCall, DumpCall, Calls
                <5> QED  BY <1>1, <5>1, AppendToQueue
            <4>3. Dumping(p) => Dumping(p)' \/ queue'[Len(queue) + 1] = DumpCall(p)
                BY <4>2, DumpingStays
            <4> QED  BY <3>1, <3>2, <4>1, <4>3
        <3>3. CASE i = Len(queue) + 1
            <4>1. Append(queue, e)[Len(queue) + 1] = RowCall(p)
                BY <2>2, <3>3
            <4>2. e = RowCall(p)
                BY <3>1, <3>3
            <4>3. PICK c \in Calls, n \in Nat, at \in PC :
                    /\ queue' = Append(queue, [call |-> c, from |-> w, num |-> n])
                    /\ c = "update_md" => pc'[w] = "dump" /\ num'[w] = n + 1
                <5>1. pc[w] \in {"row", "dump"} => num[w] - 1 \in Nat /\ num[w] - 1 + 1 = num[w]
                    BY <1>1 DEF TypeInv, NumCounted
                <5> QED  BY <1>1, <2>2, <5>1 DEF Post, PostCall, Calls, PC, Posting
            <4>4. [call |-> c, from |-> w, num |-> n] = e
                <5>1. [call |-> c, from |-> w, num |-> n] \in Event
                    BY PacketTypes
                <5> QED  BY <1>1, <3>1, <4>3, <5>1, AppendToQueue
            <4>5. c = "update_md" /\ w = p.src /\ n = p.num
                BY <4>2, <4>4 DEF RowCall
            <4> QED  BY <4>3, <4>5 DEF Dumping
        <3> QED  BY <3>1, <3>2, <3>3
    <2>3. CASE Deliver /\ queue # <<>> /\ queue' = Tail(queue)
        <3>1. /\ Len(queue) \in Nat /\ Len(queue') = Len(queue) - 1
              /\ \A k \in 1..Len(queue') : k + 1 \in 1..Len(queue) /\ queue'[k] = queue[k + 1]
            BY <1>1, <2>3, TailOfQueue
        <3>2. Dumping(p) \/ \E j \in 1..Len(queue) : i + 1 < j /\ queue[j] = DumpCall(p)
            BY <3>1 DEF RowInv, RowFollowed
        <3>3. Dumping(p) => Dumping(p)'
            <4>1. ~ \E n \in Nat : PostCall(p.src, "dump", "dump_push_back", n, "loop")
                <5> SUFFICES ASSUME NEW n \in Nat, PostCall(p.src, "dump", "dump_push_back", n, "loop")
                             PROVE  FALSE
                    OBVIOUS
                <5>1. DumpCall(p) \in Event /\ [call |-> "dump_push_back", from |-> p.src, num |-> n] \in Event
                    BY PacketTypes DEF DumpCall, Calls
                <5>2. queue' = Append(queue, [call |-> "dump_push_back", from |-> p.src, num |-> n])
                    BY DEF PostCall
                <5> QED  BY <1>1, <3>1, <5>1, <5>2, AppendToQueue
            <4> QED  BY <4>1, DumpingStays
        <3>4. ASSUME NEW j \in 1..Len(queue), i + 1 < j, queue[j] = DumpCall(p)
              PROVE  j - 1 \in 1..Len(queue') /\ i < j - 1 /\ queue'[j - 1] = DumpCall(p)
            BY <3>1, <3>4
        <3> QED  BY <3>2, <3>3, <3>4
    <2> QED  BY <2>1, <2>2, <2>3, QueueMoves
<1> QED  BY <1>2, <1>3 DEF RowInv

LEMMA RowInit == Init => RowInv
<1> SUFFICES ASSUME Init PROVE RowInv
    OBVIOUS
<1>1. queue = <<>> /\ Len(queue) = 0
    BY EmptySeq DEF Init
<1>2. RowFollowed
    BY <1>1 DEF RowFollowed
<1>3. RowHasDump
    BY DEF Init, RowHasDump
<1> QED  BY <1>2, <1>3 DEF RowInv

\* A row in the table always has its raw packet stored or on the way: the calls
\* update_md and dump_push_back of one packet (my_packet_handler) may be run with
\* any clearing of the two lists between them and never leave a row alone.
THEOREM RowsHaveDumps == Spec => []RowHasDump
<1>1. Init => TypeInv /\ HandleInv /\ RowInv
    BY TypeInit, HandleInit, RowInit
<1>2. TypeInv /\ HandleInv /\ RowInv /\ [Next]_vars => (TypeInv /\ HandleInv /\ RowInv)'
    BY TypeStep, HandleStep, RowStep
<1>3. TypeInv /\ HandleInv /\ RowInv => RowHasDump
    BY DEF RowInv
<1> QED  BY <1>1, <1>2, <1>3, PTL DEF Spec

-----------------------------------------------------------------------------
(***************************************************************************)
(* What is left when all workers have ended.  wk_life is one flag for all  *)
(* of them: while it is set, some worker that set it has its life_off      *)
(* still to come.  It need not be the one that set it last.                *)
(***************************************************************************)
LifeIsOn == {"filter", "loop", "read", "row", "dump", "close", "null", "wait", "dead"}
Living(w) == pc[w] \in LifeIsOn
OffQueued(w, i) ==
    \E j \in 1..Len(queue) : i < j /\ queue[j].call = "life_off" /\ queue[j].from = w

LifeEnds == wk_life => \E w \in Sources : Living(w) \/ OffQueued(w, 0)
LifeFollowed ==
    \A i \in 1..Len(queue) : queue[i].call = "life_on" =>
        Living(queue[i].from) \/ OffQueued(queue[i].from, i)

LifeInv == LifeEnds /\ LifeFollowed

LEMMA LifeInvImplies == TypeInv /\ HandleInv /\ LifeInv => QuietIsClean
<1> SUFFICES ASSUME TypeInv, HandleInv, LifeInv, NoneAlive PROVE wk_pp = NULL /\ ~wk_life
    BY DEF QuietIsClean
<1>1. queue \in Seq(Event) /\ wk_pp \in Sources \cup {NULL}
    BY DEF TypeInv, TypeOK
<1>2. wk_pp = NULL
    BY <1>1 DEF HandleInv, HandleKnown, NoneAlive, Alive, Held, Idle
<1>3. ASSUME NEW w \in Sources PROVE ~Living(w) /\ ~OffQueued(w, 0)
    BY <1>3 DEF Living, LifeIsOn, OffQueued, HandleInv, NothingFromTheDead, NoneAlive, Alive, Idle
<1> QED  BY <1>2, <1>3 DEF LifeInv, LifeEnds

\* A worker is past life_on until it posts life_off.
LEMMA LivingStays ==
    ASSUME TypeInv, HandleInv, [Next]_vars, NEW w \in Sources, Living(w)
    PROVE  Living(w)' \/ queue' = Append(queue, [call |-> "life_off", from |-> w, num |-> 0])
<1>1. pc \in [Sources -> PC] /\ queue \in Seq(Event)
    BY DEF TypeInv, TypeOK
<1>2. ASSUME UNCHANGED pc PROVE Living(w)'
    BY <1>2 DEF Living
<1>3. ASSUME NEW v \in Sources, NEW at, pc' = [pc EXCEPT ![v] = at],
             v # w \/ at \in LifeIsOn
      PROVE  Living(w)'
    BY <1>1, <1>3 DEF Living
<1>4. CASE Deliver
    <2>1. CASE clear_wk_pp
        <3>1. Head(queue).from \in Sources /\ pc' = [pc EXCEPT ![Head(queue).from] = "dead"]
            BY <1>1, <2>1, TailOfQueue, PacketTypes DEF clear_wk_pp, Run
        <3> QED  BY <1>1, <3>1 DEF Living, LifeIsOn
    <2>2. CASE quit
        <3>1. /\ 1 \in 1..Len(queue) /\ Head(queue) = queue[1] /\ Head(queue).from \in Sources
              /\ pc' = [pc EXCEPT ![Head(queue).from] = "finished"]
            BY <1>1, <2>2, TailOfQueue, PacketTypes DEF quit, Run
        <3>2. pc[Head(queue).from] = "ended"
            BY <2>2, <3>1 DEF quit, Run, HandleInv, LastStops, LastCall, AfterLast
        <3> QED  BY <1>1, <3>1, <3>2 DEF Living, LifeIsOn
    <2> QED  BY <1>2, <1>4, <2>1, <2>2 DEF Deliver, set_wk_pp, set_wk_life, set_wk_flag, update_md,
            dump_push_back, workerVars
<1>5. CASE UserStep
    <2>1. \/ UNCHANGED pc
          \/ \E v \in Sources : create_Th(v) \/ \E k \in 0..MaxPkts : pcapFile_Read(v, k)
        BY <1>5 DEF UserStep, OpenNic, FileUnreadable, StartWithoutNic, Stop, Reset, Back,
            OpenSave, save_md, PktBack, DoubleClick, workerVars
    <2>2. ASSUME NEW v \in Sources,
                 create_Th(v) \/ \E k \in 0..MaxPkts : pcapFile_Read(v, k)
          PROVE  Living(w)'
        <3>1. PICK at : pc' = [pc EXCEPT ![v] = at]
            BY <2>2 DEF create_Th, pcapFile_Read
        <3>2. v # w
            BY <2>2 DEF create_Th, pcapFile_Read, Fresh, Living, LifeIsOn
        <3> QED  BY <1>3, <3>1, <3>2
    <2> QED  BY <1>2, <2>1, <2>2
<1>6. ASSUME NEW v \in Sources, Opens(v) \/ Filters(v) \/ Receive(v) \/ Loops(v) \/ Close(v)
      PROVE  Living(w)'
    <2>1. PICK at : pc' = [pc EXCEPT ![v] = at] /\ (at \in LifeIsOn \/ pc[v] = "start")
        BY <1>6 DEF Opens, OpenFails, OpenSucceeds, Filters, EnterLoop, FilterRejected,
                    Receive, Loops, TestFlag, ReadNothing, LoopError, Close, LifeIsOn
    <2>2. pc[v] = "start" => v # w
        BY DEF Living, LifeIsOn
    <2> QED  BY <1>3, <2>1, <2>2
<1>7. ASSUME NEW v \in Sources, Post(v)
      PROVE  Living(w)' \/ queue' = Append(queue, [call |-> "life_off", from |-> w, num |-> 0])
    <2>1. PICK at : pc' = [pc EXCEPT ![v] = at]
        BY <1>7 DEF Post, PostCall
    <2>2. CASE v # w
        BY <1>3, <2>1, <2>2
    <2>3. CASE v = w /\ pc[w] = "dead"
        BY <1>7, <2>3 DEF Post, PostCall
    <2>4. CASE v = w /\ pc[w] # "dead"
        BY <1>1, <1>7, <2>4 DEF Post, PostCall, Living, LifeIsOn
    <2> QED  BY <2>2, <2>3, <2>4
<1>8. CASE UNCHANGED vars
    BY <1>2, <1>8 DEF vars, workerVars
<1> QED  BY <1>4, <1>5, <1>6, <1>7, <1>8 DEF Next, Down, WorkerStep

\* A life_off that is queued behind a place stays so, until it is the oldest call.
LEMMA OffStays ==
    ASSUME TypeInv, NEW w \in Sources, NEW i \in Nat, OffQueued(w, i)
    PROVE  /\ queue' = queue => OffQueued(w, i)'
           /\ \A e \in Event : queue' = Append(queue, e) => OffQueued(w, i)'
           /\ queue # <<>> /\ queue' = Tail(queue) /\ i > 0 => OffQueued(w, i - 1)'
           /\ queue # <<>> /\ queue' = Tail(queue) /\ i = 0 =>
                OffQueued(w, 0)' \/ Head(queue).call = "life_off"
<1>1. queue \in Seq(Event)
    BY DEF TypeInv, TypeOK
<1>2. PICK j \in 1..Len(queue) : i < j /\ queue[j].call = "life_off" /\ queue[j].from = w
    BY DEF OffQueued
<1>3. ASSUME queue' = queue PROVE OffQueued(w, i)'
    BY <1>2, <1>3 DEF OffQueued
<1>4. ASSUME NEW e \in Event, queue' = Append(queue, e) PROVE OffQueued(w, i)'
    <2>1. j \in 1..Len(queue') /\ queue'[j] = queue[j]
        BY <1>1, <1>4, AppendToQueue
    <2> QED  BY <1>2, <2>1 DEF OffQueued
<1>5. ASSUME queue # <<>>, queue' = Tail(queue)
      PROVE  /\ i > 0 => OffQueued(w, i - 1)'
             /\ i = 0 => OffQueued(w, 0)' \/ Head(queue).call = "life_off"
    <2>1. /\ Len(queue) \in Nat /\ Head(queue) = queue[1] /\ Len(queue') = Len(queue) - 1
          /\ \A k \in 1..Len(queue') : queue'[k] = queue[k + 1]
        BY <1>1, <1>5, TailOfQueue
    <2>2. j # 1 => j - 1 \in 1..Len(queue') /\ queue'[j - 1] = queue[j] /\ i - 1 < j - 1
                   /\ (i = 0 => 0 < j - 1)
        BY <1>2, <2>1
    <2> QED  BY <1>2, <2>1, <2>2 DEF OffQueued
<1> QED  BY <1>3, <1>4, <1>5

LEMMA LifeStep == TypeInv /\ HandleInv /\ LifeInv /\ [Next]_vars => LifeInv'
<1> SUFFICES ASSUME TypeInv, HandleInv, LifeInv, [Next]_vars PROVE LifeInv'
    OBVIOUS
<1>1. /\ queue \in Seq(Event) /\ Len(queue) \in Nat
      /\ \A i \in 1..Len(queue) : queue[i].from \in Sources
    BY ElementOfSeq, LenProperties, PacketTypes DEF TypeInv, TypeOK
<1>a. ASSUME NEW w \in Sources, NEW i \in 0..Len(queue),
             queue' = Append(queue, [call |-> "life_off", from |-> w, num |-> 0])
      PROVE  OffQueued(w, i)'
    <2>1. [call |-> "life_off", from |-> w, num |-> 0] \in Event
        BY PacketTypes DEF Calls
    <2>2. /\ Len(queue) + 1 \in 1..Len(queue')
          /\ queue'[Len(queue) + 1] = [call |-> "life_off", from |-> w, num |-> 0]
        BY <1>1, <1>a, <2>1, AppendToQueue
    <2> QED  BY <1>1, <2>2 DEF OffQueued
<1>2. CASE Deliver /\ queue # <<>> /\ queue' = Tail(queue)
    <2>1. /\ 1 \in 1..Len(queue) /\ Head(queue) = queue[1] /\ Len(queue') = Len(queue) - 1
          /\ \A k \in 1..Len(queue') : k + 1 \in 1..Len(queue) /\ queue'[k] = queue[k + 1]
        BY <1>1, <1>2, TailOfQueue
    <2>2. ASSUME NEW w \in Sources, Living(w) PROVE Living(w)'
        <3>1. ~(queue' = Append(queue, [call |-> "life_off", from |-> w, num |-> 0]))
            <4>1. [call |-> "life_off", from |-> w, num |-> 0] \in Event
                BY PacketTypes DEF Calls
            <4> QED  BY <1>1, <2>1, <4>1, AppendToQueue
        <3> QED  BY <2>2, <3>1, LivingStays
    <2>3. LifeEnds'
        <3>1. CASE Head(queue).call = "life_on"
            <4>1. PICK w \in Sources : w = queue[1].from
                BY <1>1, <2>1
            <4>2. Living(w) \/ OffQueued(w, 1)
                BY <2>1, <3>1, <4>1 DEF LifeInv, LifeFollowed
            <4>3. OffQueued(w, 1) => OffQueued(w, 1 - 1)'
                BY <1>2, OffStays
            <4> QED  BY <2>2, <4>2, <4>3 DEF LifeEnds
        <3>2. CASE Head(queue).call = "life_off"
            <4>1. ~wk_life'
                BY <1>2, <3>2 DEF Deliver, set_wk_pp, clear_wk_pp, set_wk_life, set_wk_flag,
                    update_md, dump_push_back, quit, Run
            <4> QED  BY <4>1 DEF LifeEnds
        <3>3. CASE Head(queue).call \notin {"life_on", "life_off"}
            <4>1. wk_life' = wk_life
                BY <1>2, <3>3 DEF Deliver, set_wk_pp, clear_wk_pp, set_wk_life, set_wk_flag,
                    update_md, dump_push_back, quit, Run, pcapVars
            <4>2. ASSUME wk_life PROVE \E w \in Sources : Living(w)' \/ OffQueued(w, 0)'
                <5>1. PICK w \in Sources : Living(w) \/ OffQueued(w, 0)
                    BY <4>2 DEF LifeInv, LifeEnds
                <5>2. OffQueued(w, 0) => OffQueued(w, 0)'
                    BY <1>2, <3>3, OffStays
                <5> QED  BY <2>2, <5>1, <5>2
            <4> QED  BY <4>1, <4>2 DEF LifeEnds
        <3> QED  BY <3>1, <3>2, <3>3
    <2>4. LifeFollowed'
        <3> SUFFICES ASSUME NEW i \in 1..Len(queue'), NEW w \in Sources,
                            queue'[i].call = "life_on", queue'[i].from = w
                     PROVE  Living(w)' \/ OffQueued(w, i)'
            <4>1. \A i \in 1..Len(queue') : queue'[i].from \in Sources
                BY <1>1, <2>1
            <4> QED  BY <4>1 DEF LifeFollowed, OffQueued, Living
        <3>1. i + 1 \in 1..Len(queue) /\ queue'[i] = queue[i + 1] /\ i + 1 \in Nat /\ i + 1 > 0
              /\ i + 1 - 1 = i
            BY <2>1
        <3>2. Living(w) \/ OffQueued(w, i + 1)
            BY <3>1 DEF LifeInv, LifeFollowed
        <3>3. OffQueued(w, i + 1) => OffQueued(w, i + 1 - 1)'
            BY <1>2, <3>1, OffStays
        <3> QED  BY <2>2, <3>1, <3>2, <3>3
    <2> QED  BY <2>3, <2>4 DEF LifeInv
<1>3. CASE ~Deliver
    <2>1. wk_life' = wk_life
        BY <1>3 DEF Next, Down, vars, UserStep, OpenNic, FileUnreadable, StartWithoutNic, Stop,
            Reset, Back, OpenSave, save_md, PktBack, DoubleClick, create_Th, pcapFile_Read,
            WorkerStep, Post, PostCall, Opens, OpenFails, OpenSucceeds, Filters, EnterLoop,
            FilterRejected, Receive, Loops, TestFlag, ReadNothing, LoopError, Close, pcapVars
    <2>2. queue' = queue \/ \E e \in Event : queue' = Append(queue, e)
        BY <1>3, QueueMoves
    <2>3. ASSUME NEW w \in Sources, NEW i \in 0..Len(queue), Living(w) \/ OffQueued(w, i)
          PROVE  Living(w)' \/ OffQueued(w, i)'
        <3>1. CASE Living(w)
            BY <1>a, <3>1, LivingStays
        <3>2. CASE OffQueued(w, i)
            <4>1. i \in Nat
                OBVIOUS
            <4> QED  BY <2>2, <3>2, <4>1, OffStays
        <3> QED  BY <2>3, <3>1, <3>2
    <2>4. LifeEnds'
        <3>1. 0 \in 0..Len(queue)
            BY <1>1
        <3> QED  BY <2>1, <2>3, <3>1 DEF LifeInv, LifeEnds
    <2>5. LifeFollowed'
        <3>1. /\ \A i \in 1..Len(queue') : queue'[i].from \in Sources
              /\ \A i \in 1..Len(queue) : queue'[i] = queue[i]
              /\ \A i \in 1..Len(queue') : i \in 1..Len(queue) \/ i = Len(queue) + 1
            BY SMTT(30), <1>1, <2>2, AppendToQueue, PacketTypes
        <3> SUFFICES ASSUME NEW i \in 1..Len(queue'), NEW w \in Sources,
                            queue'[i].call = "life_on", queue'[i].from = w
                     PROVE  Living(w)' \/ OffQueued(w, i)'
            BY <3>1 DEF LifeFollowed, OffQueued, Living
        <3>2. CASE i \in 1..Len(queue)
            <4>1. i \in 0..Len(queue) /\ queue'[i] = queue[i]
                BY <3>1, <3>2
            <4>2. Living(w) \/ OffQueued(w, i)
                BY <3>2, <4>1 DEF LifeInv, LifeFollowed
            <4> QED  BY <2>3, <4>1, <4>2
        <3>3. CASE i \notin 1..Len(queue)
            <4>1. PICK v \in Sources, e \in Event : Post(v) /\ queue' = Append(queue, e)
                BY <1>3, <3>3, QueueMoves
            <4>2. e.call = "life_on" /\ e.from = w
                BY <1>1, <3>1, <3>3, <4>1, AppendToQueue
            <4>3. PICK c \in Calls, n \in Nat :
                    /\ queue' = Append(queue, [call |-> c, from |-> v, num |-> n])
                    /\ c = "life_on" => pc'[v] = "filter"
                <5>1. pc \in [Sources -> PC] /\ num[v] \in Nat
                    BY DEF TypeInv, TypeOK
                <5>2. pc[v] \in {"row", "dump"} => num[v] - 1 \in Nat
                    BY <5>1 DEF TypeInv, NumCounted
                <5> QED  BY <4>1, <5>1, <5>2 DEF Post, PostCall, Calls
            <4>4. [call |-> c, from |-> v, num |-> n] = e
                <5>1. [call |-> c, from |-> v, num |-> n] \in Event
                    BY PacketTypes
                <5>2. queue'[Len(queue) + 1] = [call |-> c, from |-> v, num |-> n]
                    BY <1>1, <4>3, <5>1, AppendToQueue
                <5>3. queue'[Len(queue) + 1] = e
                    BY <1>1, <4>1, AppendToQueue
                <5> QED  BY <5>2, <5>3
            <4>5. c = "life_on" /\ v = w
                BY <4>2, <4>4
            <4> QED  BY <4>3, <4>5 DEF Living, LifeIsOn
        <3> QED  BY <3>2, <3>3
    <2> QED  BY <2>4, <2>5 DEF LifeInv
<1> QED  BY <1>2, <1>3, QueueMoves DEF Deliver, set_wk_pp, clear_wk_pp, set_wk_life, set_wk_flag,
            update_md, dump_push_back, quit, Run

LEMMA LifeInit == Init => LifeInv
<1> SUFFICES ASSUME Init PROVE LifeInv
    OBVIOUS
<1>1. Len(queue) = 0 /\ ~wk_life
    BY EmptySeq DEF Init
<1> QED  BY <1>1 DEF LifeInv, LifeEnds, LifeFollowed

\* However captures overlapped, when the last worker has ended (sig_end) Pcap
\* holds no handle and wk_life is false, so reset_md clears the lists again.
THEOREM QuietStaysClean == Spec => []QuietIsClean
<1>1. Init => TypeInv /\ HandleInv /\ LifeInv
    BY TypeInit, HandleInit, LifeInit
<1>2. TypeInv /\ HandleInv /\ LifeInv /\ [Next]_vars => (TypeInv /\ HandleInv /\ LifeInv)'
    BY TypeStep, HandleStep, LifeStep
<1>3. TypeInv /\ HandleInv /\ LifeInv => QuietIsClean
    BY LifeInvImplies
<1> QED  BY <1>1, <1>2, <1>3, PTL DEF Spec
=============================================================================
