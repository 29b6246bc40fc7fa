---------------------------- MODULE DumpOrder_proofs ----------------------------
(***************************************************************************)
(* Proofs about the raw packets of CaptureSession: in which order they are *)
(* stored, however many captures overlap.                                  *)
(*                                                                         *)
(* The calls of one worker reach Pcap in the order posted, so the raw      *)
(* packets of a source that are stored, followed by those still queued,    *)
(* count up to the number of packets posted, from the first that no        *)
(* clearing took.  The invariant says so of any two of them.               *)
(***************************************************************************)
EXTENDS CaptureSession_proofs

\* How many raw packets a source has posted, or read from its file.
posted == [w \in Sources |-> IF pc[w] \in {"row", "dump"} THEN num[w] - 1 ELSE num[w]]

IsDump(e) == e.call = "dump_push_back"
Same(e, f) == e.from = f.from

UnusedIsZero == \A w \in Sources : pc[w] = "unused" => num[w] = 0

\* The queued ones.
QueuedBelow ==
    \A i \in 1..Len(queue) : IsDump(queue[i]) => queue[i].num < posted[queue[i].from]
QueuedUp ==
    \A i, j \in 1..Len(queue) :
        i < j /\ IsDump(queue[i]) /\ IsDump(queue[j]) /\ Same(queue[i], queue[j]) =>
            queue[i].num < queue[j].num
QueuedAll ==
    \A i \in 1..Len(queue), n \in Nat :
        IsDump(queue[i]) /\ queue[i].num < n /\ n < posted[queue[i].from] =>
            \E k \in 1..Len(queue) :
                i < k /\ IsDump(queue[k]) /\ Same(queue[i], queue[k]) /\ queue[k].num = n

\* The stored ones, and those among them with those queued.
StoredBelow ==
    \A i \in 1..Len(vec_dump) : vec_dump[i].num < posted[vec_dump[i].src]
StoredUp ==
    \A i, j \in 1..Len(vec_dump) :
        i < j /\ vec_dump[i].src = vec_dump[j].src => vec_dump[i].num < vec_dump[j].num
StoredFirst ==
    \A i \in 1..Len(vec_dump), j \in 1..Len(queue) :
        IsDump(queue[j]) /\ queue[j].from = vec_dump[i].src =>
            vec_dump[i].num < queue[j].num
StoredAll ==
    \A i \in 1..Len(vec_dump), n \in Nat :
        vec_dump[i].num < n /\ n < posted[vec_dump[i].src] =>
            \/ \E k \in 1..Len(vec_dump) :
                i < k /\ vec_dump[k].src = vec_dump[i].src /\ vec_dump[k].num = n
            \/ \E k \in 1..Len(queue) :
                IsDump(queue[k]) /\ queue[k].from = vec_dump[i].src /\ queue[k].num = n

OrderInv ==
    /\ UnusedIsZero
    /\ QueuedBelow /\ QueuedUp /\ QueuedAll
    /\ StoredBelow /\ StoredUp /\ StoredFirst /\ StoredAll

\* Two stored packets have those numbered between them between them: one that is
\* queued is numbered above both.
LEMMA OrderInvImplies == TypeInv /\ OrderInv => DumpInOrder
<1> SUFFICES ASSUME TypeInv, OrderInv,
                    NEW i \in 1..Len(vec_dump), NEW j \in 1..Len(vec_dump),
                    i < j, vec_dump[i].src = vec_dump[j].src
             PROVE  /\ vec_dump[i].num < vec_dump[j].num
                    /\ \A n \in (vec_dump[i].num + 1)..(vec_dump[j].num - 1) :
                        \E k \in i..j : vec_dump[k] = [src |-> vec_dump[i].src, num |-> n]
    BY DEF DumpInOrder
<1>1. /\ vec_dump \in Seq(Packet) /\ Len(vec_dump) \in Nat
      /\ \A k \in 1..Len(vec_dump) : vec_dump[k] \in Packet /\ vec_dump[k].num \in Nat
                                     /\ vec_dump[k].src \in Sources
    BY ElementOfSeq, LenProperties, PacketTypes DEF TypeInv, TypeOK
<1>2. vec_dump[i].num < vec_dump[j].num
    BY DEF OrderInv, StoredUp
<1>3. ASSUME NEW n \in (vec_dump[i].num + 1)..(vec_dump[j].num - 1)
      PROVE  \E k \in i..j : vec_dump[k] = [src |-> vec_dump[i].src, num |-> n]
    <2>1. n \in Nat /\ vec_dump[i].num < n /\ n < vec_dump[j].num
        BY <1>1
    <2>2. posted[vec_dump[j].src] \in Int /\ vec_dump[j].num < posted[vec_dump[j].src]
        <3>1. num[vec_dump[j].src] \in Nat
            BY <1>1 DEF TypeInv, TypeOK
        <3>2. vec_dump[j].num < posted[vec_dump[j].src]
            BY DEF OrderInv, StoredBelow
        <3> QED  BY <1>1, <3>1, <3>2 DEF posted
    <2>3. n < posted[vec_dump[i].src]
        BY <1>1, <2>1, <2>2
    <2>4. ~ \E k \in 1..Len(queue) :
            IsDump(queue[k]) /\ queue[k].from = vec_dump[i].src /\ queue[k].num = n
        BY <1>1, <2>1 DEF OrderInv, StoredFirst
    <2>5. PICK k \in 1..Len(vec_dump) :
            i < k /\ vec_dump[k].src = vec_dump[i].src /\ vec_dump[k].num = n
        BY <2>1, <2>3, <2>4 DEF OrderInv, StoredAll
    <2>6. ~(j < k) /\ j # k
        BY <1>1, <2>1, <2>5 DEF OrderInv, StoredUp
    <2>7. k \in i..j
        BY <1>1, <2>5, <2>6
    <2>8. vec_dump[k] = [src |-> vec_dump[i].src, num |-> n]
        BY <1>1, <2>5 DEF Packet
    <2> QED  BY <2>7, <2>8
<1> QED  BY <1>2, <1>3

-----------------------------------------------------------------------------
(***************************************************************************)
(* What a step does to the raw packets: it posts one, posts another call,  *)
(* runs a call, reads a file, or leaves the queue alone and the stored     *)
(* packets too, or clears them.                                            *)
(***************************************************************************)
SamePosted == \A w \in Sources : posted'[w] = posted[w]

PostsDump ==
    \E w \in Sources :
        /\ queue' = Append(queue, DumpCall([src |-> w, num |-> posted[w]]))
        /\ posted[w] \in Nat /\ posted'[w] = posted[w] + 1
        /\ \A v \in Sources : v # w => posted'[v] = posted[v]
        /\ vec_dump' = vec_dump

PostsOther ==
    /\ \E e \in Event : ~IsDump(e) /\ queue' = Append(queue, e)
    /\ SamePosted /\ vec_dump' = vec_dump

RunsCall ==
    /\ queue # <<>> /\ queue' = Tail(queue)
    /\ SamePosted
    /\ \/ IsDump(Head(queue)) /\ vec_dump' = Append(vec_dump, HeadPacket)
       \/ ~IsDump(Head(queue)) /\ vec_dump' = vec_dump

ReadsFile ==
    \E s \in Sources, k \in Nat :
        /\ posted[s] = 0 /\ posted'[s] = k
        /\ \A v \in Sources : v # s => posted'[v] = posted[v]
        /\ queue' = queue
        /\ vec_dump' = vec_dump \o FilePackets(s, k)

KeepsOrClears ==
    queue' = queue /\ SamePosted /\ (vec_dump' = vec_dump \/ vec_dump' = <<>>)

LEMMA PostedMoves ==
    ASSUME TypeInv, HandleInv, UnusedIsZero, [Next]_vars
    PROVE  /\ PostsDump \/ PostsOther \/ RunsCall \/ ReadsFile \/ KeepsOrClears
           /\ UnusedIsZero'
<1>1. /\ pc \in [Sources -> PC] /\ num \in [Sources -> Nat] /\ queue \in Seq(Event)
    BY DEF TypeInv, TypeOK
<1>2. \A w \in Sources : pc[w] \in {"row", "dump"} => num[w] - 1 \in Nat
    BY <1>1 DEF TypeInv, NumCounted
\* pc and num of one worker change at most.
<1>3. ASSUME UNCHANGED <<pc, num>> PROVE SamePosted /\ UnusedIsZero'
    BY <1>3 DEF SamePosted, posted, UnusedIsZero
<1>4. ASSUME NEW w \in Sources, NEW at, pc' = [pc EXCEPT ![w] = at], num' = num,
             at # "unused", pc[w] \notin {"row", "dump"}, at \notin {"row", "dump"}
      PROVE  SamePosted /\ UnusedIsZero'
    BY <1>1, <1>4 DEF SamePosted, posted, UnusedIsZero
<1>5. CASE Deliver
    <2>1. /\ Head(queue) = queue[1] /\ 1 \in 1..Len(queue) /\ Head(queue).from \in Sources
          /\ queue # <<>> /\ queue' = Tail(queue)
        <3>1. queue # <<>> /\ queue' = Tail(queue)
            BY <1>5 DEF Deliver, set_wk_pp, clear_wk_pp, set_wk_life, set_wk_flag, update_md,
                dump_push_back, quit, Run
        <3> QED  BY <1>1, <3>1, TailOfQueue, PacketTypes
    <2>2. SamePosted /\ UnusedIsZero'
        <3>1. CASE clear_wk_pp \/ quit
            <4>1. pc[Head(queue).from] \in {"wait", "ended"}
                BY <2>1, <3>1 DEF clear_wk_pp, quit, Run, HandleInv, LastStops, LastCall, AfterLast
            <4>2. PICK at \in {"dead", "finished"} : pc' = [pc EXCEPT ![Head(queue).from] = at]
                BY <3>1 DEF clear_wk_pp, quit
            <4>3. num' = num
                BY <3>1 DEF clear_wk_pp, quit
            <4> QED  BY <1>4, <2>1, <4>1, <4>2, <4>3
        <3>2. CASE ~(clear_wk_pp \/ quit)
            BY <1>3, <1>5, <3>2 DEF Deliver, set_wk_pp, set_wk_life, set_wk_flag, update_md,
                dump_push_back, workerVars
        <3> QED  BY <3>1, <3>2
    <2>3. \/ IsDump(Head(queue)) /\ vec_dump' = Append(vec_dump, HeadPacket)
          \/ ~IsDump(Head(queue)) /\ vec_dump' = vec_dump
        BY <1>5 DEF Deliver, set_wk_pp, clear_wk_pp, set_wk_life, set_wk_flag, update_md,
            dump_push_back, quit, Run, IsDump, dataVars, pcapVars
    <2> QED  BY <2>1, <2>2, <2>3 DEF RunsCall
<1>6. ASSUME NEW w \in Sources, Post(w)
      PROVE  (PostsDump \/ PostsOther) /\ UnusedIsZero'
    <2>1. CASE PostCall(w, "dump", "dump_push_back", num[w] - 1, "loop")
        <3>1. /\ pc[w] = "dump" /\ pc' = [pc EXCEPT ![w] = "loop"] /\ num' = num
              /\ vec_dump' = vec_dump
              /\ queue' = Append(queue, DumpCall([src |-> w, num |-> num[w] - 1]))
            BY <2>1 DEF PostCall, DumpCall, pcapVars
        <3>2. posted[w] = num[w] - 1 /\ posted[w] \in Nat
            BY <1>2, <3>1 DEF posted
        <3>3. posted'[w] = posted[w] + 1
            BY <1>1, <3>1, <3>2 DEF posted
        <3>4. \A v \in Sources : v # w => posted'[v] = posted[v]
            BY <1>1, <3>1 DEF posted
        <3>5. UnusedIsZero'
            BY <1>1, <3>1 DEF UnusedIsZero
        <3> QED  BY <3>1, <3>2, <3>3, <3>4, <3>5 DEF PostsDump
    <2>2. CASE PostCall(w, "row", "update_md", num[w] - 1, "dump")
        <3>1. /\ pc[w] = "row" /\ pc' = [pc EXCEPT ![w] = "dump"] /\ num' = num
              /\ vec_dump' = vec_dump
              /\ queue' = Append(queue, [call |-> "update_md", from |-> w, num |-> num[w] - 1])
            BY <2>2 DEF PostCall, pcapVars
        <3>2. [call |-> "update_md", from |-> w, num |-> num[w] - 1] \in Event
            BY <1>2, <3>1, PacketTypes DEF Calls
        <3>3. SamePosted /\ UnusedIsZero'
            BY <1>1, <3>1 DEF SamePosted, posted, UnusedIsZero
        <3> QED  BY <3>1, <3>2, <3>3 DEF PostsOther, IsDump
    <2>3. ASSUME NEW at, NEW call \in Calls \ {"dump_push_back"}, NEW next,
                 PostCall(w, at, call, 0, next),
                 at \notin {"row", "dump"}, next \notin {"row", "dump", "unused"}
          PROVE  PostsOther /\ UnusedIsZero'
        <3>1. /\ pc[w] = at /\ pc' = [pc EXCEPT ![w] = next] /\ num' = num
              /\ vec_dump' = vec_dump
              /\ queue' = Append(queue, [call |-> call, from |-> w, num |-> 0])
            BY <2>3 DEF PostCall, pcapVars
        <3>2. [call |-> call, from |-> w, num |-> 0] \in Event
            BY PacketTypes
        <3> QED  BY <1>4, <2>3, <3>1, <3>2 DEF PostsOther, IsDump
    <2> QED  BY <1>6, <2>1, <2>2, <2>3 DEF Post, Calls
<1>7. ASSUME NEW w \in Sources, Opens(w) \/ Filters(w) \/ Loops(w) \/ Close(w)
      PROVE  KeepsOrClears /\ UnusedIsZero'
    <2>1. queue' = queue /\ vec_dump' = vec_dump
        BY <1>7 DEF Opens, OpenFails, OpenSucceeds, Filters, EnterLoop, FilterRejected,
                    Loops, TestFlag, ReadNothing, LoopError, Close, pcapVars
    <2>2. \E at : /\ pc' = [pc EXCEPT ![w] = at] /\ num' = num
                  /\ at \notin {"unused", "row", "dump"} /\ pc[w] \notin {"row", "dump"}
        BY <1>7 DEF Opens, OpenFails, OpenSucceeds, Filters, EnterLoop, FilterRejected,
                    Loops, TestFlag, ReadNothing, LoopError, Close
    <2> QED  BY <1>4, <2>1, <2>2 DEF KeepsOrClears
<1>8. ASSUME NEW w \in Sources, Receive(w) PROVE KeepsOrClears /\ UnusedIsZero'
    <2>1. /\ pc[w] = "read" /\ pc' = [pc EXCEPT ![w] = "row"]
          /\ num' = [num EXCEPT ![w] = @ + 1]
          /\ queue' = queue /\ vec_dump' = vec_dump
        BY <1>8 DEF Receive, pcapVars
    <2>2. SamePosted /\ UnusedIsZero'
        BY SMTT(30), <1>1, <2>1 DEF SamePosted, posted, UnusedIsZero
    <2> QED  BY <2>1, <2>2 DEF KeepsOrClears
<1>9. ASSUME NEW s \in Sources, NEW k \in 0..MaxPkts, pcapFile_Read(s, k)
      PROVE  ReadsFile /\ UnusedIsZero'
    <2>1. /\ pc[s] = "unused" /\ pc' = [pc EXCEPT ![s] = "file"]
          /\ num' = [num EXCEPT ![s] = k] /\ queue' = queue
          /\ vec_dump' = vec_dump \o FilePackets(s, k)
        BY <1>9 DEF pcapFile_Read, Fresh
    <2>2. k \in Nat
        BY SourcesAssumption
    <2>3. posted[s] = 0
        BY <2>1 DEF posted, UnusedIsZero
    <2>4. posted'[s] = k /\ UnusedIsZero'
        BY <1>1, <2>1 DEF posted, UnusedIsZero
    <2>5. \A v \in Sources : v # s => posted'[v] = posted[v]
        BY <1>1, <2>1 DEF posted
    <2> QED  BY <2>1, <2>2, <2>3, <2>4, <2>5 DEF ReadsFile
<1>10. ASSUME NEW w \in Sources, create_Th(w) PROVE KeepsOrClears /\ UnusedIsZero'
    <2>1. /\ pc[w] = "unused" /\ pc' = [pc EXCEPT ![w] = "start"] /\ num' = num
          /\ queue' = queue /\ vec_dump' = <<>>
        BY <1>10 DEF create_Th, Fresh, Clear
    <2>2. PICK at \in {"start"} : pc' = [pc EXCEPT ![w] = at]
        BY <2>1
    <2>3. SamePosted /\ UnusedIsZero'
        BY <1>4, <2>1, <2>2
    <2> QED  BY <2>1, <2>3 DEF KeepsOrClears
<1>11. ASSUME UserStep, \A w \in Sources : ~create_Th(w),
              \A s \in Sources, k \in 0..MaxPkts : ~pcapFile_Read(s, k)
       PROVE  KeepsOrClears /\ UnusedIsZero'
    <2>1. /\ UNCHANGED <<pc, num, queue>> /\ (vec_dump' = vec_dump \/ vec_dump' = <<>>)
        BY <1>11 DEF UserStep, OpenNic, FileUnreadable, StartWithoutNic, Stop, Reset, Back,
            OpenSave, save_md, PktBack, DoubleClick, reset_md, Clear, workerVars, pcapVars, dataVars
    <2> QED  BY <1>3, <2>1 DEF KeepsOrClears
<1>12. CASE UNCHANGED vars
    BY <1>3, <1>12 DEF vars, workerVars, pcapVars, KeepsOrClears
<1> QED
    BY <1>5, <1>6, <1>7, <1>8, <1>9, <1>10, <1>11, <1>12
    DEF Next, Down, WorkerStep

-----------------------------------------------------------------------------
\* The elements of the queue, and of the raw packets.
LEMMA OrderTypes ==
    ASSUME TypeInv
    PROVE  /\ queue \in Seq(Event) /\ vec_dump \in Seq(Packet)
           /\ Len(queue) \in Nat /\ Len(vec_dump) \in Nat
           /\ \A i \in 1..Len(queue) :
                queue[i] \in Event /\ queue[i].from \in Sources /\ queue[i].num \in Nat
           /\ \A i \in 1..Len(vec_dump) :
                vec_dump[i] \in Packet /\ vec_dump[i].src \in Sources /\ vec_dump[i].num \in Nat
           /\ \A w \in Sources : posted[w] \in Int
<1>1. queue \in Seq(Event) /\ vec_dump \in Seq(Packet) /\ num \in [Sources -> Nat]
    BY DEF TypeInv, TypeOK
<1>2. \A w \in Sources : posted[w] \in Int
    BY <1>1 DEF posted
<1> QED  BY <1>1, <1>2, ElementOfSeq, LenProperties, PacketTypes

\* A worker posts a raw packet: the next number, behind all of its others.
LEMMA OrderPostsDump ==
    ASSUME TypeInv, OrderInv, UnusedIsZero', PostsDump
    PROVE  OrderInv'
<1>1. PICK w \in Sources :
        /\ queue' = Append(queue, DumpCall([src |-> w, num |-> posted[w]]))
        /\ posted[w] \in Nat /\ posted'[w] = posted[w] + 1
        /\ \A v \in Sources : v # w => posted'[v] = posted[v]
        /\ vec_dump' = vec_dump
    BY DEF PostsDump
<1> DEFINE e == DumpCall([src |-> w, num |-> posted[w]])
<1>2. e \in Event /\ IsDump(e) /\ e.from = w /\ e.num = posted[w]
    BY <1>1, PacketTypes DEF DumpCall, Calls, IsDump
<1>3. queue' = Append(queue, e)
    BY <1>1
<1> HIDE DEF e
<1>4. /\ Len(queue') = Len(queue) + 1 /\ queue'[Len(queue) + 1] = e
      /\ \A i \in 1..Len(queue) : queue'[i] = queue[i]
      /\ \A i \in 1..Len(queue') : i \in 1..Len(queue) \/ i = Len(queue) + 1
    BY <1>2, <1>3, OrderTypes, AppendToQueue
<1>5. \A v \in Sources : posted[v] <= posted'[v] /\ posted[v] \in Int /\ posted'[v] \in Int
    BY SMTT(30), <1>1, OrderTypes
<1>6. \A v \in Sources, n \in Nat : n < posted'[v] => n < posted[v] \/ (v = w /\ n = posted[w])
    BY <1>1, <1>5
<1>7. QueuedBelow'
    <2> SUFFICES ASSUME NEW i \in 1..Len(queue'), IsDump(queue'[i])
                 PROVE  queue'[i].num < posted'[queue'[i].from]
        BY DEF QueuedBelow, IsDump
    <2>1. CASE i \in 1..Len(queue)
        BY SMTT(30), <1>4, <1>5, <2>1, OrderTypes DEF OrderInv, QueuedBelow
    <2>2. CASE i = Len(queue) + 1
        BY <1>1, <1>2, <1>4, <2>2
    <2> QED  BY <1>4, <2>1, <2>2
<1>8. QueuedUp'
    <2> SUFFICES ASSUME NEW i \in 1..Len(queue'), NEW j \in 1..Len(queue'), i < j,
                        IsDump(queue'[i]), IsDump(queue'[j]), Same(queue'[i], queue'[j])
                 PROVE  queue'[i].num < queue'[j].num
        BY DEF QueuedUp, IsDump, Same
    <2>1. i \in 1..Len(queue) /\ queue'[i] = queue[i]
        BY <1>4, OrderTypes
    <2>2. CASE j \in 1..Len(queue)
        BY <1>4, <2>1, <2>2 DEF OrderInv, QueuedUp
    <2>3. CASE j = Len(queue) + 1
        BY <1>2, <1>4, <2>1, <2>3 DEF OrderInv, QueuedBelow, Same
    <2> QED  BY <1>4, <2>2, <2>3
<1>9. QueuedAll'
    <2> SUFFICES ASSUME NEW i \in 1..Len(queue'), NEW n \in Nat, IsDump(queue'[i]),
                        queue'[i].num < n, n < posted'[queue'[i].from]
                 PROVE  \E k \in 1..Len(queue') :
                            /\ i < k /\ IsDump(queue'[k]) /\ Same(queue'[i], queue'[k])
                            /\ queue'[k].num = n
        BY DEF QueuedAll, IsDump, Same
    <2>1. CASE i \in 1..Len(queue)
        <3>1. queue'[i] = queue[i] /\ queue[i].from \in Sources
            BY <1>4, <2>1, OrderTypes
        <3>2. CASE n < posted[queue[i].from]
            <4>1. PICK k \in 1..Len(queue) :
                    i < k /\ IsDump(queue[k]) /\ Same(queue[i], queue[k]) /\ queue[k].num = n
                BY <2>1, <3>1, <3>2 DEF OrderInv, QueuedAll
            <4>2. k \in 1..Len(queue') /\ queue'[k] = queue[k]
                BY <1>4, OrderTypes
            <4> QED  BY <3>1, <4>1, <4>2
        <3>3. CASE queue[i].from = w /\ n = posted[w]
            <4>1. Len(queue) + 1 \in 1..Len(queue') /\ i < Len(queue) + 1
                BY <1>4, <2>1, OrderTypes
            <4> QED  BY <1>2, <1>4, <3>1, <3>3, <4>1 DEF Same
        <3> QED  BY <1>6, <3>1, <3>2, <3>3
    <2>2. CASE i = Len(queue) + 1
        BY <1>1, <1>2, <1>4, <2>2
    <2> QED  BY <1>4, <2>1, <2>2
<1>10. StoredBelow'
    <2> SUFFICES ASSUME NEW i \in 1..Len(vec_dump) PROVE vec_dump[i].num < posted'[vec_dump[i].src]
        BY <1>1 DEF StoredBelow
    <2> QED  BY <1>5, OrderTypes DEF OrderInv, StoredBelow
<1>11. StoredUp'
    BY <1>1 DEF OrderInv, StoredUp
<1>12. StoredFirst'
    <2> SUFFICES ASSUME NEW i \in 1..Len(vec_dump), NEW j \in 1..Len(queue'),
                        IsDump(queue'[j]), queue'[j].from = vec_dump[i].src
                 PROVE  vec_dump[i].num < queue'[j].num
        BY <1>1 DEF StoredFirst, IsDump
    <2>1. CASE j \in 1..Len(queue)
        BY <1>4, <2>1 DEF OrderInv, StoredFirst
    <2>2. CASE j = Len(queue) + 1
        BY <1>2, <1>4, <2>2 DEF OrderInv, StoredBelow
    <2> QED  BY <1>4, <2>1, <2>2
<1>13. StoredAll'
    <2> SUFFICES ASSUME NEW i \in 1..Len(vec_dump), NEW n \in Nat,
                        vec_dump[i].num < n, n < posted'[vec_dump[i].src]
                 PROVE  \/ \E k \in 1..Len(vec_dump) :
                            i < k /\ vec_dump[k].src = vec_dump[i].src /\ vec_dump[k].num = n
                        \/ \E k \in 1..Len(queue') :
                            /\ IsDump(queue'[k]) /\ queue'[k].from = vec_dump[i].src
                            /\ queue'[k].num = n
        BY <1>1 DEF StoredAll, IsDump
    <2>1. vec_dump[i].src \in Sources
        BY OrderTypes
    <2>2. CASE n < posted[vec_dump[i].src]
        <3>1. \/ \E k \in 1..Len(vec_dump) :
                    i < k /\ vec_dump[k].src = vec_dump[i].src /\ vec_dump[k].num = n
              \/ \E k \in 1..Len(queue) :
                    IsDump(queue[k]) /\ queue[k].from = vec_dump[i].src /\ queue[k].num = n
            BY <2>2 DEF OrderInv, StoredAll
        <3>2. \A k \in 1..Len(queue) : k \in 1..Len(queue') /\ queue'[k] = queue[k]
            BY <1>4, OrderTypes
        <3> QED  BY <3>1, <3>2
    <2>3. CASE vec_dump[i].src = w /\ n = posted[w]
        <3>1. Len(queue) + 1 \in 1..Len(queue')
            BY <1>4, OrderTypes
        <3> QED  BY <1>2, <1>4, <2>3, <3>1
    <2> QED  BY <1>6, <2>1, <2>2, <2>3
<1> QED  BY <1>7, <1>8, <1>9, <1>10, <1>11, <1>12, <1>13 DEF OrderInv

\* A worker posts another call: nothing that counts for the raw packets.
LEMMA OrderPostsOther ==
    ASSUME TypeInv, OrderInv, UnusedIsZero', PostsOther
    PROVE  OrderInv'
<1>1. PICK e \in Event : ~IsDump(e) /\ queue' = Append(queue, e)
    BY DEF PostsOther
<1>2. vec_dump' = vec_dump /\ \A w \in Sources : posted'[w] = posted[w]
    BY DEF PostsOther, SamePosted
<1>3. /\ Len(queue') = Len(queue) + 1
      /\ \A i \in 1..Len(queue) : i \in 1..Len(queue') /\ queue'[i] = queue[i]
      /\ \A i \in 1..Len(queue') : IsDump(queue'[i]) => i \in 1..Len(queue)
    BY <1>1, OrderTypes, AppendToQueue
<1>4. \A i \in 1..Len(queue) : posted'[queue[i].from] = posted[queue[i].from]
    BY <1>2, OrderTypes
<1>5. \A i \in 1..Len(vec_dump) : posted'[vec_dump[i].src] = posted[vec_dump[i].src]
    BY <1>2, OrderTypes
<1>6. QueuedBelow'
    BY <1>3, <1>4 DEF OrderInv, QueuedBelow, IsDump
<1>7. QueuedUp'
    BY <1>3 DEF OrderInv, QueuedUp, IsDump, Same
<1>8. QueuedAll'
    <2> SUFFICES ASSUME NEW i \in 1..Len(queue), NEW n \in Nat, IsDump(queue[i]),
                        queue[i].num < n, n < posted[queue[i].from]
                 PROVE  \E k \in 1..Len(queue') :
                            /\ i < k /\ IsDump(queue'[k]) /\ Same(queue[i], queue'[k])
                            /\ queue'[k].num = n
        BY <1>3, <1>4 DEF QueuedAll, IsDump, Same
    <2>1. PICK k \in 1..Len(queue) :
            i < k /\ IsDump(queue[k]) /\ Same(queue[i], queue[k]) /\ queue[k].num = n
        BY DEF OrderInv, QueuedAll
    <2> QED  BY <1>3, <2>1
<1>9. StoredBelow' /\ StoredUp'
    BY <1>2, <1>5 DEF OrderInv, StoredBelow, StoredUp
<1>10. StoredFirst'
    BY <1>2, <1>3 DEF OrderInv, StoredFirst, IsDump
<1>11. StoredAll'
    <2> SUFFICES ASSUME NEW i \in 1..Len(vec_dump), NEW n \in Nat,
                        vec_dump[i].num < n, n < posted[vec_dump[i].src]
                 PROVE  \/ \E k \in 1..Len(vec_dump) :
                            i < k /\ vec_dump[k].src = vec_dump[i].src /\ vec_dump[k].num = n
                        \/ \E k \in 1..Len(queue') :
                            /\ IsDump(queue'[k]) /\ queue'[k].from = vec_dump[i].src
                            /\ queue'[k].num = n
        BY <1>2, <1>5 DEF StoredAll, IsDump
    <2>1. \/ \E k \in 1..Len(vec_dump) :
                i < k /\ vec_dump[k].src = vec_dump[i].src /\ vec_dump[k].num = n
          \/ \E k \in 1..Len(queue) :
                IsDump(queue[k]) /\ queue[k].from = vec_dump[i].src /\ queue[k].num = n
        BY DEF OrderInv, StoredAll
    <2> QED  BY <1>3, <2>1
<1> QED  BY <1>6, <1>7, <1>8, <1>9, <1>10, <1>11 DEF OrderInv

\* The oldest call runs: a raw packet goes from the front of the queue to the end
\* of those stored.
LEMMA OrderRunsCall ==
    ASSUME TypeInv, OrderInv, UnusedIsZero', RunsCall
    PROVE  OrderInv'
<1>1. /\ \A w \in Sources : posted'[w] = posted[w]
      /\ queue # <<>> /\ queue' = Tail(queue)
    BY DEF RunsCall, SamePosted
<1>2. /\ 1 \in 1..Len(queue) /\ Head(queue) = queue[1] /\ Len(queue') = Len(queue) - 1
      /\ \A k \in 1..Len(queue') : k + 1 \in 1..Len(queue) /\ queue'[k] = queue[k + 1]
      /\ \A k \in 1..Len(queue) : k = 1 \/ (k - 1 \in 1..Len(queue') /\ queue'[k - 1] = queue[k])
    <2>1. /\ Len(queue) \in Nat \ {0} /\ Head(queue) = queue[1] /\ Len(queue') = Len(queue) - 1
          /\ \A k \in 1..Len(queue') : k + 1 \in 1..Len(queue) /\ queue'[k] = queue[k + 1]
        BY <1>1, OrderTypes, TailOfQueue
    <2> QED  BY <2>1
<1>3. \A i \in 1..Len(queue') : queue'[i].from \in Sources /\ queue'[i].num \in Nat
    BY <1>2, OrderTypes
<1>4. QueuedBelow'
    BY <1>1, <1>2, <1>3 DEF OrderInv, QueuedBelow, IsDump
<1>5. QueuedUp'
    <2> SUFFICES ASSUME NEW i \in 1..Len(queue'), NEW j \in 1..Len(queue'), i < j,
                        IsDump(queue'[i]), IsDump(queue'[j]), Same(queue'[i], queue'[j])
                 PROVE  queue'[i].num < queue'[j].num
        BY DEF QueuedUp, IsDump, Same
    <2>1. i + 1 \in 1..Len(queue) /\ j + 1 \in 1..Len(queue) /\ i + 1 < j + 1
        BY <1>2
    <2> QED  BY <1>2, <2>1 DEF OrderInv, QueuedUp
<1>6. QueuedAll'
    <2> SUFFICES ASSUME NEW i \in 1..Len(queue'), NEW n \in Nat, IsDump(queue'[i]),
                        queue'[i].num < n, n < posted'[queue'[i].from]
                 PROVE  \E k \in 1..Len(queue') :
                            /\ i < k /\ IsDump(queue'[k]) /\ Same(queue'[i], queue'[k])
                            /\ queue'[k].num = n
        BY DEF QueuedAll, IsDump, Same
    <2>1. i + 1 \in 1..Len(queue) /\ queue'[i] = queue[i + 1] /\ n < posted[queue[i + 1].from]
        BY <1>1, <1>2, <1>3
    <2>2. PICK k \in 1..Len(queue) :
            i + 1 < k /\ IsDump(queue[k]) /\ Same(queue[i + 1], queue[k]) /\ queue[k].num = n
        BY <2>1 DEF OrderInv, QueuedAll
    <2>3. k - 1 \in 1..Len(queue') /\ i < k - 1 /\ queue'[k - 1] = queue[k]
        BY <1>2, <2>2
    <2> QED  BY <2>1, <2>2, <2>3
<1>7. CASE ~IsDump(Head(queue)) /\ vec_dump' = vec_dump
    <2>1. StoredBelow' /\ StoredUp'
        BY <1>1, <1>7, OrderTypes DEF OrderInv, StoredBelow, StoredUp
    <2>2. StoredFirst'
        BY SMTT(30), <1>2, <1>7 DEF OrderInv, StoredFirst, IsDump
    <2>3. StoredAll'
        <3> SUFFICES ASSUME NEW i \in 1..Len(vec_dump), NEW n \in Nat,
                            vec_dump[i].num < n, n < posted'[vec_dump[i].src]
                     PROVE  \/ \E k \in 1..Len(vec_dump) :
                                i < k /\ vec_dump[k].src = vec_dump[i].src /\ vec_dump[k].num = n
                            \/ \E k \in 1..Len(queue') :
                                /\ IsDump(queue'[k]) /\ queue'[k].from = vec_dump[i].src
                                /\ queue'[k].num = n
            BY <1>7 DEF StoredAll, IsDump
        <3>1. n < posted[vec_dump[i].src]
            BY <1>1, OrderTypes
        <3>2. \/ \E k \in 1..Len(vec_dump) :
                    i < k /\ vec_dump[k].src = vec_dump[i].src /\ vec_dump[k].num = n
              \/ \E k \in 1..Len(queue) :
                    IsDump(queue[k]) /\ queue[k].from = vec_dump[i].src /\ queue[k].num = n
            BY <3>1 DEF OrderInv, StoredAll
        <3> QED  BY SMTT(30), <1>2, <1>7, <3>2
    <2> QED  BY <1>4, <1>5, <1>6, <2>1, <2>2, <2>3 DEF OrderInv
<1>8. CASE IsDump(Head(queue)) /\ vec_dump' = Append(vec_dump, HeadPacket)
    <2> DEFINE h == HeadPacket
    <2>1. h \in Packet /\ h.src = queue[1].from /\ h.num = queue[1].num /\ IsDump(queue[1])
        BY <1>2, <1>8, OrderTypes, PacketTypes DEF HeadPacket
    <2>2. vec_dump' = Append(vec_dump, h)
        BY <1>8
    <2> HIDE DEF h
    <2>3. /\ Len(vec_dump') = Len(vec_dump) + 1 /\ vec_dump'[Len(vec_dump) + 1] = h
          /\ \A i \in 1..Len(vec_dump) : i \in 1..Len(vec_dump') /\ vec_dump'[i] = vec_dump[i]
          /\ \A i \in 1..Len(vec_dump') : i \in 1..Len(vec_dump) \/ i = Len(vec_dump) + 1
          /\ Len(vec_dump) + 1 \in 1..Len(vec_dump')
        BY <2>1, <2>2, OrderTypes, AppendToQueue
    <2>4. StoredBelow'
        <3> SUFFICES ASSUME NEW i \in 1..Len(vec_dump')
                     PROVE  vec_dump'[i].num < posted'[vec_dump'[i].src]
            BY DEF StoredBelow
        <3>1. CASE i \in 1..Len(vec_dump)
            BY <1>1, <2>3, <3>1, OrderTypes DEF OrderInv, StoredBelow
        <3>2. CASE i = Len(vec_dump) + 1
            BY <1>1, <1>2, <2>1, <2>3, <3>2, OrderTypes DEF OrderInv, QueuedBelow
        <3> QED  BY <2>3, <3>1, <3>2
    <2>5. StoredUp'
        <3> SUFFICES ASSUME NEW i \in 1..Len(vec_dump'), NEW j \in 1..Len(vec_dump'), i < j,
                            vec_dump'[i].src = vec_dump'[j].src
                     PROVE  vec_dump'[i].num < vec_dump'[j].num
            BY DEF StoredUp
        <3>1. i \in 1..Len(vec_dump) /\ vec_dump'[i] = vec_dump[i]
            BY <2>3, OrderTypes
        <3>2. CASE j \in 1..Len(vec_dump)
            BY <2>3, <3>1, <3>2 DEF OrderInv, StoredUp
        <3>3. CASE j = Len(vec_dump) + 1
            BY <1>2, <2>1, <2>3, <3>1, <3>3 DEF OrderInv, StoredFirst
        <3> QED  BY <2>3, <3>2, <3>3
    <2>6. StoredFirst'
        <3> SUFFICES ASSUME NEW i \in 1..Len(vec_dump'), NEW j \in 1..Len(queue'),
                            IsDump(queue'[j]), queue'[j].from = vec_dump'[i].src
                     PROVE  vec_dump'[i].num < queue'[j].num
            BY DEF StoredFirst, IsDump
        <3>1. j + 1 \in 1..Len(queue) /\ queue'[j] = queue[j + 1] /\ 1 < j + 1
            BY <1>2
        <3>2. CASE i \in 1..Len(vec_dump)
            BY <2>3, <3>1, <3>2 DEF OrderInv, StoredFirst
        <3>3. CASE i = Len(vec_dump) + 1
            BY <1>2, <2>1, <2>3, <3>1, <3>3 DEF OrderInv, QueuedUp, Same
        <3> QED  BY <2>3, <3>2, <3>3
    <2>7. StoredAll'
        <3> SUFFICES ASSUME NEW i \in 1..Len(vec_dump'), NEW n \in Nat,
                            vec_dump'[i].num < n, n < posted'[vec_dump'[i].src]
                     PROVE  \/ \E k \in 1..Len(vec_dump') :
                                /\ i < k /\ vec_dump'[k].src = vec_dump'[i].src
                                /\ vec_dump'[k].num = n
                            \/ \E k \in 1..Len(queue') :
                                /\ IsDump(queue'[k]) /\ queue'[k].from = vec_dump'[i].src
                                /\ queue'[k].num = n
            BY DEF StoredAll, IsDump
        <3>1. CASE i \in 1..Len(vec_dump)
            <4>1. vec_dump'[i] = vec_dump[i] /\ n < posted[vec_dump[i].src]
                BY <1>1, <2>3, <3>1, OrderTypes
            <4>2. CASE \E k \in 1..Len(vec_dump) :
                        i < k /\ vec_dump[k].src = vec_dump[i].src /\ vec_dump[k].num = n
                BY <2>3, <4>1, <4>2
            <4>3. CASE \E k \in 1..Len(queue) :
                        IsDump(queue[k]) /\ queue[k].from = vec_dump[i].src /\ queue[k].num = n
                <5>1. PICK k \in 1..Len(queue) :
                        IsDump(queue[k]) /\ queue[k].from = vec_dump[i].src /\ queue[k].num = n
                    BY <4>3
                <5>2. CASE k = 1
                    <6>1. i < Len(vec_dump) + 1
                        BY <3>1, OrderTypes
                    <6> QED  BY <2>1, <2>3, <4>1, <5>1, <5>2, <6>1
                <5>3. CASE k # 1
                    <6>1. k - 1 \in 1..Len(queue') /\ queue'[k - 1] = queue[k]
                        BY <1>2, <5>3
                    <6> QED  BY <4>1, <5>1, <6>1
                <5> QED  BY <5>2, <5>3
            <4> QED  BY <3>1, <4>1, <4>2, <4>3 DEF OrderInv, StoredAll
        <3>2. CASE i = Len(vec_dump) + 1
            <4>1. vec_dump'[i] = h /\ queue[1].num < n /\ n < posted[queue[1].from]
                BY <1>1, <1>2, <2>1, <2>3, <3>2, OrderTypes
            <4>2. PICK k \in 1..Len(queue) :
                    1 < k /\ IsDump(queue[k]) /\ Same(queue[1], queue[k]) /\ queue[k].num = n
                BY <1>2, <2>1, <4>1 DEF OrderInv, QueuedAll
            <4>3. k - 1 \in 1..Len(queue') /\ queue'[k - 1] = queue[k]
                BY <1>2, <4>2
            <4> QED  BY <2>1, <4>1, <4>2, <4>3 DEF Same
        <3> QED  BY <2>3, <3>1, <3>2
    <2> QED  BY <1>4, <1>5, <1>6, <2>4, <2>5, <2>6, <2>7 DEF OrderInv
<1> QED  BY <1>7, <1>8 DEF RunsCall

\* A file is read: a source of which nothing was stored or queued.
LEMMA OrderReadsFile ==
    ASSUME TypeInv, OrderInv, UnusedIsZero', ReadsFile
    PROVE  OrderInv'
<1>1. PICK s \in Sources, k \in Nat :
        /\ posted[s] = 0 /\ posted'[s] = k
        /\ \A v \in Sources : v # s => posted'[v] = posted[v]
        /\ queue' = queue
        /\ vec_dump' = vec_dump \o FilePackets(s, k)
    BY DEF ReadsFile
<1> DEFINE F == FilePackets(s, k)
           L == Len(vec_dump)
<1>2. F \in Seq(Packet) /\ Len(F) = k /\ L \in Nat
    BY FileTypes, OrderTypes
<1>3. \A i \in 1..k : F[i].src = s /\ F[i].num = i - 1
    BY DEF FilePackets
<1>4. vec_dump' = vec_dump \o F
    BY <1>1
<1> HIDE DEF F
<1>5. /\ Len(vec_dump') = L + k
      /\ \A i \in 1..L : i \in 1..Len(vec_dump') /\ vec_dump'[i] = vec_dump[i]
      /\ \A i \in 1..Len(vec_dump') :
            i \in 1..L \/ (i - L \in 1..k /\ vec_dump'[i].src = s /\ vec_dump'[i].num = i - L - 1)
    <2>1. /\ Len(vec_dump \o F) = L + k
          /\ \A i \in 1..(L + k) :
                (vec_dump \o F)[i] = IF i <= L THEN vec_dump[i] ELSE F[i - L]
        BY <1>2, OrderTypes, ConcatProperties
    <2>2. \A i \in 1..L : i \in 1..(L + k) /\ i <= L
        BY <1>2
    <2>3. \A i \in 1..(L + k) : i \in 1..L \/ (i - L \in 1..k /\ ~(i <= L))
        BY <1>2
    <2> HIDE DEF L
    <2>4. Len(vec_dump') = L + k
        BY <1>4, <2>1
    <2>5. \A i \in 1..L : i \in 1..Len(vec_dump') /\ vec_dump'[i] = vec_dump[i]
        BY <1>4, <2>1, <2>2, <2>4
    <2>6. ASSUME NEW i \in 1..Len(vec_dump')
          PROVE  i \in 1..L \/ (i - L \in 1..k /\ vec_dump'[i].src = s
                                                /\ vec_dump'[i].num = i - L - 1)
        <3>1. i \in 1..L \/ vec_dump'[i] = F[i - L]
            BY <1>4, <2>1, <2>3, <2>4
        <3> QED  BY <1>3, <2>3, <2>4, <3>1
    <2> QED  BY <2>4, <2>5, <2>6
\* Nothing of s was there.
<1>6. /\ \A i \in 1..L : vec_dump[i].src # s
      /\ \A i \in 1..Len(queue) : IsDump(queue[i]) => queue[i].from # s
    <2>1. ASSUME NEW i \in 1..L, vec_dump[i].src = s PROVE FALSE
        <3>1. vec_dump[i].num < 0
            BY <1>1, <2>1 DEF OrderInv, StoredBelow
        <3> QED  BY <3>1, OrderTypes
    <2>2. ASSUME NEW i \in 1..Len(queue), IsDump(queue[i]), queue[i].from = s PROVE FALSE
        <3>1. queue[i].num < 0
            BY <1>1, <2>2 DEF OrderInv, QueuedBelow
        <3> QED  BY <3>1, OrderTypes
    <2> QED  BY <2>1, <2>2
<1>7. /\ \A i \in 1..L : posted'[vec_dump[i].src] = posted[vec_dump[i].src]
      /\ \A i \in 1..Len(queue) :
            IsDump(queue[i]) => posted'[queue[i].from] = posted[queue[i].from]
    BY <1>1, <1>6, OrderTypes
<1>8. QueuedBelow' /\ QueuedUp' /\ QueuedAll'
    BY <1>1, <1>7 DEF OrderInv, QueuedBelow, QueuedUp, QueuedAll, IsDump, Same
<1>9. StoredBelow'
    <2> SUFFICES ASSUME NEW i \in 1..Len(vec_dump')
                 PROVE  vec_dump'[i].num < posted'[vec_dump'[i].src]
        BY DEF StoredBelow
    <2>1. CASE i \in 1..L
        BY <1>5, <1>7, <2>1 DEF OrderInv, StoredBelow
    <2>2. CASE i \notin 1..L
        BY <1>1, <1>2, <1>5, <2>2
    <2> QED  BY <2>1, <2>2
<1>10. StoredUp'
    <2> SUFFICES ASSUME NEW i \in 1..Len(vec_dump'), NEW j \in 1..Len(vec_dump'), i < j,
                        vec_dump'[i].src = vec_dump'[j].src
                 PROVE  vec_dump'[i].num < vec_dump'[j].num
        BY DEF StoredUp
    <2>1. CASE i \in 1..L /\ j \in 1..L
        BY <1>5, <2>1 DEF OrderInv, StoredUp
    <2>2. CASE i \notin 1..L /\ j \notin 1..L
        BY SMTT(30), <1>2, <1>5, <2>2
    <2>3. ~(i \in 1..L /\ j \notin 1..L) /\ ~(i \notin 1..L /\ j \in 1..L)
        BY <1>5, <1>6
    <2> QED  BY <2>1, <2>2, <2>3
<1>11. StoredFirst'
    <2> SUFFICES ASSUME NEW i \in 1..Len(vec_dump'), NEW j \in 1..Len(queue),
                        IsDump(queue[j]), queue[j].from = vec_dump'[i].src
                 PROVE  vec_dump'[i].num < queue[j].num
        BY <1>1 DEF StoredFirst, IsDump
    <2>1. i \in 1..L
        BY <1>5, <1>6
    <2> QED  BY <1>5, <2>1 DEF OrderInv, StoredFirst
<1>12. StoredAll'
    <2> SUFFICES ASSUME NEW i \in 1..Len(vec_dump'), NEW n \in Nat,
                        vec_dump'[i].num < n, n < posted'[vec_dump'[i].src]
                 PROVE  \/ \E j \in 1..Len(vec_dump') :
                            /\ i < j /\ vec_dump'[j].src = vec_dump'[i].src
                            /\ vec_dump'[j].num = n
                        \/ \E j \in 1..Len(queue') :
                            /\ IsDump(queue'[j]) /\ queue'[j].from = vec_dump'[i].src
                            /\ queue'[j].num = n
        BY DEF StoredAll, IsDump
    <2>1. CASE i \in 1..L
        <3>1. vec_dump'[i] = vec_dump[i] /\ n < posted[vec_dump[i].src]
            BY <1>5, <1>7, <2>1
        <3>2. \/ \E j \in 1..L :
                    i < j /\ vec_dump[j].src = vec_dump[i].src /\ vec_dump[j].num = n
              \/ \E j \in 1..Len(queue) :
                    IsDump(queue[j]) /\ queue[j].from = vec_dump[i].src /\ queue[j].num = n
            BY <2>1, <3>1 DEF OrderInv, StoredAll
        <3> QED  BY <1>1, <1>5, <3>1, <3>2
    <2>2. CASE i \notin 1..L
        <3>1. i - L - 1 < n /\ n < k /\ vec_dump'[i].src = s
            BY <1>1, <1>5, <2>2
        <3>2. /\ L + n + 1 \in 1..Len(vec_dump') /\ L + n + 1 \notin 1..L
              /\ i < L + n + 1 /\ L + n + 1 - L - 1 = n
            BY <1>2, <1>5, <3>1
        <3>3. PICK j \in 1..Len(vec_dump') : j = L + n + 1
            BY <3>2
        <3>4. vec_dump'[j].src = s /\ vec_dump'[j].num = n /\ i < j
            BY <1>5, <3>2, <3>3
        <3> QED  BY <3>1, <3>4
    <2> QED  BY <2>1, <2>2
<1> QED  BY <1>8, <1>9, <1>10, <1>11, <1>12 DEF OrderInv

\* The lists stay, or are cleared while raw packets are queued.
LEMMA OrderKeepsOrClears ==
    ASSUME TypeInv, OrderInv, UnusedIsZero', KeepsOrClears
    PROVE  OrderInv'
<1>1. queue' = queue /\ \A w \in Sources : posted'[w] = posted[w]
    BY DEF KeepsOrClears, SamePosted
<1>2. /\ \A i \in 1..Len(vec_dump) : posted'[vec_dump[i].src] = posted[vec_dump[i].src]
      /\ \A i \in 1..Len(queue) : posted'[queue[i].from] = posted[queue[i].from]
    BY <1>1, OrderTypes
<1>3. QueuedBelow' /\ QueuedUp' /\ QueuedAll'
    BY <1>1, <1>2 DEF OrderInv, QueuedBelow, QueuedUp, QueuedAll, IsDump, Same
<1>4. CASE vec_dump' = vec_dump
    <2>1. StoredBelow' /\ StoredUp' /\ StoredFirst'
        BY <1>1, <1>2, <1>4 DEF OrderInv, StoredBelow, StoredUp, StoredFirst, IsDump
    <2>2. StoredAll'
        BY <1>1, <1>2, <1>4 DEF OrderInv, StoredAll, IsDump
    <2> QED  BY <1>3, <2>1, <2>2 DEF OrderInv
<1>5. CASE vec_dump' = <<>>
    <2>1. Len(vec_dump') = 0
        BY <1>5, EmptySeq
    <2>2. StoredBelow' /\ StoredUp' /\ StoredFirst' /\ StoredAll'
        BY <2>1 DEF StoredBelow, StoredUp, StoredFirst, StoredAll
    <2> QED  BY <1>3, <2>2 DEF OrderInv
<1> QED  BY <1>4, <1>5 DEF KeepsOrClears

LEMMA OrderInit == Init => OrderInv
<1> SUFFICES ASSUME Init PROVE OrderInv
    OBVIOUS
<1>1. Len(queue) = 0 /\ Len(vec_dump) = 0
    BY EmptySeq DEF Init
<1>2. UnusedIsZero
    BY DEF Init, UnusedIsZero
<1> QED  BY <1>1, <1>2 DEF OrderInv, QueuedBelow, QueuedUp, QueuedAll, StoredBelow, StoredUp,
                           StoredFirst, StoredAll

LEMMA OrderStep == TypeInv /\ HandleInv /\ OrderInv /\ [Next]_vars => OrderInv'
<1> SUFFICES ASSUME TypeInv, HandleInv, OrderInv, [Next]_vars PROVE OrderInv'
    OBVIOUS
<1>1. UnusedIsZero
    BY DEF OrderInv
<1> QED  BY <1>1, PostedMoves, OrderPostsDump, OrderPostsOther, OrderRunsCall, OrderReadsFile,
            OrderKeepsOrClears

\* The raw packets of one source are stored in the order in which its handler
\* posted them (my_packet_handler, dump_push_back), each once and without a gap,
\* whichever captures overlap and whenever the list is cleared.
THEOREM DumpsInOrder == Spec => []DumpInOrder
<1>1. Init => TypeInv /\ HandleInv /\ OrderInv
    BY TypeInit, HandleInit, OrderInit
<1>2. TypeInv /\ HandleInv /\ OrderInv /\ [Next]_vars => (TypeInv /\ HandleInv /\ OrderInv)'
    BY TypeStep, HandleStep, OrderStep
<1>3. TypeInv /\ HandleInv /\ OrderInv => DumpInOrder
    BY OrderInvImplies
<1> QED  BY <1>1, <1>2, <1>3, PTL DEF Spec
=============================================================================
