---------------------------- MODULE WaitingUser_proofs ----------------------------
(***************************************************************************)
(* Proofs about CaptureSession for a user who starts, leaves and opens     *)
(* only when no worker runs (WaitsForWorker), for any number of captures,  *)
(* files and packets: the detail page, the save file, the Save button, and *)
(* that the table and the raw packets are one log (PacketLog).             *)
(*                                                                         *)
(* Then one source at a time owns the two lists.  What Pcap holds is       *)
(* decided by how far its worker has come and by the calls still queued:   *)
(* the oldest call finds Pcap as the call before it left it, each call is  *)
(* followed by the one that set_Capture posts next, and the youngest one   *)
(* is the last that the worker posted.                                     *)
(***************************************************************************)
EXTENDS CaptureSession_proofs

At(s) == IF s \in Sources THEN pc[s] ELSE "unused"

\* How many packets a worker has posted the row of.
Sent(w) == IF pc[w] \in {"row", "dump"} THEN num[w] - 1 ELSE num[w]

Early == {"unused", "start", "pp", "life", "filter"}
EarlyIsZero == \A w \in Sources : pc[w] \in Early => num[w] = 0

\* The two lists: empty, equally long, or a row ahead of its raw packet.
Owned(s, n) == {p \in Packet : p.src = s /\ p.num < n}
Clean == ~wk_life /\ vec = {} /\ vec_dump = <<>>
InStep(s) == vec = Owned(s, Len(vec_dump))
Level(s, n) == wk_life /\ Len(vec_dump) = n /\ vec = Owned(s, n)
Half(s, n) == wk_life /\ Len(vec_dump) = n /\ vec = Owned(s, n + 1)

\* What Pcap is like when a call is run.
Ready(e, s) ==
    /\ e.call \in {"set_wk_pp", "life_on"} => Clean
    /\ e.call = "update_md" => Level(s, e.num)
    /\ e.call = "dump_push_back" => Half(s, e.num)
    /\ e.call = "clear_wk_pp" => wk_life /\ InStep(s)
    /\ e.call = "life_off" => InStep(s)
    /\ e.call \in {"flag_off", "quit"} => ~wk_life /\ InStep(s)

\* The call that set_Capture posts next.
Follows(e, f) ==
    \/ e.call = "set_wk_pp" /\ f.call = "life_on"
    \/ e.call = "life_on" /\ f.call = "clear_wk_pp"
    \/ e.call = "life_on" /\ f.call = "update_md" /\ f.num = 0
    \/ e.call = "update_md" /\ f.call = "dump_push_back" /\ f.num = e.num
    \/ e.call = "dump_push_back" /\ f.call = "clear_wk_pp"
    \/ e.call = "dump_push_back" /\ f.call = "update_md" /\ f.num = e.num + 1
    \/ e.call = "life_off" /\ f.call \in {"flag_off", "quit"}
    \/ e.call = "flag_off" /\ f.call = "quit"

\* How far a worker has come that posted a call and none since, and how many
\* packets it has posted the row of.
Stands(e, at, k) ==
    \/ e.call = "set_wk_pp" /\ at = "life"
    \/ e.call = "life_on" /\ at \in {"filter", "loop", "read", "row", "close", "null"} /\ k = 0
    \/ e.call = "update_md" /\ at = "dump" /\ k = e.num
    \/ /\ e.call = "dump_push_back" /\ at \in {"loop", "read", "row", "close", "null"}
       /\ k = e.num + 1
    \/ e.call = "clear_wk_pp" /\ at = "wait"
    \/ e.call = "life_off" /\ at \in {"noflag", "end"}
    \/ e.call = "flag_off" /\ at = "end"
    \/ e.call = "quit" /\ at = "ended"

\* What Pcap is like when all calls of the worker have been run.
AllRun(s) ==
    /\ At(s) \in {"start", "pp", "life"} => Clean
    /\ At(s) \in {"filter", "loop", "read", "row"} => Level(s, Sent(s))
    /\ At(s) = "dump" => Half(s, Sent(s))
    /\ At(s) \in {"close", "null"} => wk_life /\ InStep(s)
    /\ At(s) \in {"dead", "nolife"} => InStep(s)
    /\ At(s) \in {"noflag", "end"} \cup Idle => ~wk_life /\ InStep(s)
    /\ At(s) \notin {"wait", "ended"}

OnlyOwner(s) ==
    /\ \A w \in Sources : Alive(w) => w = s
    /\ \A i \in 1..Len(queue) : queue[i].from = s
DumpsAre(s) == \A i \in 1..Len(vec_dump) : vec_dump[i] = [src |-> s, num |-> i - 1]
Chain == \A i, j \in 1..Len(queue) : j = i + 1 => Follows(queue[i], queue[j])
EndsAt(s) == queue # <<>> => s \in Sources /\ Stands(queue[Len(queue)], pc[s], Sent(s))
BeginsAt(s) == queue # <<>> => Ready(queue[1], s)
EmptyAt(s) == queue = <<>> => AllRun(s)

OwnedBy(s) ==
    OnlyOwner(s) /\ DumpsAre(s) /\ Chain /\ EndsAt(s) /\ BeginsAt(s) /\ EmptyAt(s)

NicIsEmpty == view = "nic" => vec = {} /\ vec_dump = <<>> /\ NoneAlive
StopNoted == stop_flag => \A w \in Sources : Alive(w) => brk[w] # "no" \/ PastLoop(w)

Owner == \E s \in Sources \cup {NULL} : OwnedBy(s)

WaitInv == EarlyIsZero /\ Owner /\ NicIsEmpty /\ StopNoted /\ DetailIsOwn

-----------------------------------------------------------------------------
\* The numbers below n, and one more.
LEMMA OwnedGrows ==
    /\ \A s : Owned(s, 0) = {}
    /\ \A s \in Sources, n \in Nat : Owned(s, n) \cup {[src |-> s, num |-> n]} = Owned(s, n + 1)
<1>1. \A s : Owned(s, 0) = {}
    BY DEF Owned, Packet
<1>2. ASSUME NEW s \in Sources, NEW n \in Nat
      PROVE  Owned(s, n) \cup {[src |-> s, num |-> n]} = Owned(s, n + 1)
    <2>1. [src |-> s, num |-> n] \in Owned(s, n + 1)
        BY DEF Owned, Packet
    <2>2. Owned(s, n) \subseteq Owned(s, n + 1)
        BY DEF Owned, Packet
    <2>3. ASSUME NEW p \in Owned(s, n + 1), p \notin Owned(s, n)
          PROVE  p = [src |-> s, num |-> n]
        BY <2>3 DEF Owned, Packet
    <2> QED  BY <2>1, <2>2, <2>3
<1> QED  BY <1>1, <1>2

\* The queue, the numbers and the raw packets have their types.
LEMMA WaitTypes ==
    ASSUME TypeInv
    PROVE  /\ queue \in Seq(Event) /\ vec_dump \in Seq(Packet)
           /\ Len(queue) \in Nat /\ Len(vec_dump) \in Nat
           /\ (queue = <<>> <=> Len(queue) = 0)
           /\ \A i \in 1..Len(queue) :
                queue[i].call \in Calls /\ queue[i].from \in Sources /\ queue[i].num \in Nat
           /\ pc \in [Sources -> PC] /\ num \in [Sources -> Nat]
           /\ \A w \in Sources : Sent(w) \in Nat
<1>1. /\ queue \in Seq(Event) /\ vec_dump \in Seq(Packet)
      /\ pc \in [Sources -> PC] /\ num \in [Sources -> Nat]
    BY DEF TypeInv, TypeOK
<1>2. \A w \in Sources : Sent(w) \in Nat
    BY <1>1 DEF Sent, TypeInv, NumCounted
<1> QED  BY <1>1, <1>2, ElementOfSeq, LenProperties, EmptySeq, PacketTypes

\* Without a worker no call is queued, the lists are equally long and wk_life
\* is false: the buttons that wait for the worker find Pcap at rest.
LEMMA QuietAtRest ==
    ASSUME TypeInv, NEW s, OwnedBy(s), NoneAlive
    PROVE  queue = <<>> /\ ~wk_life /\ InStep(s)
<1>1. queue = <<>>
    BY DEF OwnedBy, EndsAt, Stands, NoneAlive, Alive, Idle
<1>2. At(s) \in Idle
    BY DEF At, NoneAlive, Alive, Idle
<1> QED  BY <1>1, <1>2 DEF OwnedBy, EmptyAt, AllRun

-----------------------------------------------------------------------------
(***************************************************************************)
(* The worker posts a call.                                                *)
(***************************************************************************)
\* It is the call that follows the youngest one, or that finds Pcap ready for it.
LEMMA PostsNext ==
    ASSUME TypeInv, EarlyIsZero, NEW s \in Sources, OwnedBy(s), Post(s)
    PROVE  \E f \in Event :
            /\ queue' = Append(queue, f) /\ f.from = s
            /\ queue # <<>> => Follows(queue[Len(queue)], f)
            /\ queue = <<>> => Ready(f, s)
            /\ Stands(f, pc'[s], Sent(s)')
<1> DEFINE e(call, n) == [call |-> call, from |-> s, num |-> n]
<1>1. At(s) = pc[s]
    BY DEF At
<1>2. /\ queue # <<>> => Stands(queue[Len(queue)], pc[s], Sent(s))
      /\ queue = <<>> => AllRun(s)
    BY DEF OwnedBy, EndsAt, EmptyAt
<1>3. \A call \in Calls, n \in Nat : e(call, n) \in Event
    BY PacketTypes
<1>4. CASE PostCall(s, "row", "update_md", num[s] - 1, "dump")
    <2>1. pc[s] = "row" /\ pc'[s] = "dump" /\ num' = num
          /\ queue' = Append(queue, e("update_md", num[s] - 1))
        BY <1>4, WaitTypes DEF PostCall
    <2>2. Sent(s) = num[s] - 1 /\ num[s] - 1 \in Nat /\ Sent(s)' = num[s] - 1
        BY <2>1, WaitTypes DEF Sent
    <2>3. Stands(e("update_md", num[s] - 1), pc'[s], Sent(s)')
        BY <2>1, <2>2 DEF Stands
    <2>4. queue # <<>> => Follows(queue[Len(queue)], e("update_md", num[s] - 1))
        BY <1>2, <2>1, <2>2, WaitTypes DEF Stands, Follows
    <2>5. queue = <<>> => Ready(e("update_md", num[s] - 1), s)
        BY <1>1, <1>2, <2>1, <2>2 DEF AllRun, Ready
    <2>6. e("update_md", num[s] - 1) \in Event
        BY <1>3, <2>2 DEF Calls
    <2> QED  BY <2>1, <2>3, <2>4, <2>5, <2>6
<1>5. CASE PostCall(s, "dump", "dump_push_back", num[s] - 1, "loop")
    <2>1. pc[s] = "dump" /\ pc'[s] = "loop" /\ num' = num
          /\ queue' = Append(queue, e("dump_push_back", num[s] - 1))
        BY <1>5, WaitTypes DEF PostCall
    <2>2. Sent(s) = num[s] - 1 /\ num[s] - 1 \in Nat /\ Sent(s)' = num[s] - 1 + 1
        BY <2>1, WaitTypes DEF Sent
    <2>3. Stands(e("dump_push_back", num[s] - 1), pc'[s], Sent(s)')
        BY <2>1, <2>2 DEF Stands
    <2>4. queue # <<>> => Follows(queue[Len(queue)], e("dump_push_back", num[s] - 1))
        BY <1>2, <2>1, <2>2, WaitTypes DEF Stands, Follows
    <2>5. queue = <<>> => Ready(e("dump_push_back", num[s] - 1), s)
        BY <1>1, <1>2, <2>1, <2>2 DEF AllRun, Ready
    <2>6. e("dump_push_back", num[s] - 1) \in Event
        BY <1>3, <2>2 DEF Calls
    <2> QED  BY <2>1, <2>3, <2>4, <2>5, <2>6
\* The calls that carry no number.
<1>6. ASSUME NEW at, NEW call \in Calls, NEW next, PostCall(s, at, call, 0, next),
             Stands(e(call, 0), next, Sent(s)'),
             queue # <<>> => Follows(queue[Len(queue)], e(call, 0)),
             queue = <<>> => Ready(e(call, 0), s)
      PROVE  \E f \in Event :
                /\ queue' = Append(queue, f) /\ f.from = s
                /\ queue # <<>> => Follows(queue[Len(queue)], f)
                /\ queue = <<>> => Ready(f, s)
                /\ Stands(f, pc'[s], Sent(s)')
    <2>1. queue' = Append(queue, e(call, 0)) /\ pc'[s] = next
        BY <1>6, WaitTypes DEF PostCall
    <2> QED  BY <1>3, <1>6, <2>1
<1>7. ASSUME NEW at, NEW call, NEW n, NEW next, PostCall(s, at, call, n, next)
      PROVE  pc[s] = at /\ num' = num /\ pc'[s] = next
    BY <1>7, WaitTypes DEF PostCall
<1>8. CASE PostCall(s, "pp", "set_wk_pp", 0, "life")
    <2>1. /\ Stands(e("set_wk_pp", 0), "life", Sent(s)')
          /\ queue # <<>> => Follows(queue[Len(queue)], e("set_wk_pp", 0))
          /\ queue = <<>> => Ready(e("set_wk_pp", 0), s)
        BY <1>1, <1>2, <1>7, <1>8 DEF Stands, AllRun, Ready
    <2> QED  BY <1>6, <1>8, <2>1 DEF Calls
<1>9. CASE PostCall(s, "life", "life_on", 0, "filter")
    <2>1. Sent(s)' = 0
        BY <1>7, <1>9, WaitTypes DEF Sent, EarlyIsZero, Early
    <2>2. /\ Stands(e("life_on", 0), "filter", Sent(s)')
          /\ queue # <<>> => Follows(queue[Len(queue)], e("life_on", 0))
          /\ queue = <<>> => Ready(e("life_on", 0), s)
        BY <1>1, <1>2, <1>7, <1>9, <2>1 DEF Stands, Follows, AllRun, Ready
    <2> QED  BY <1>6, <1>9, <2>2 DEF Calls
<1>10. CASE PostCall(s, "null", "clear_wk_pp", 0, "wait")
    <2>1. /\ Stands(e("clear_wk_pp", 0), "wait", Sent(s)')
          /\ queue # <<>> => Follows(queue[Len(queue)], e("clear_wk_pp", 0))
          /\ queue = <<>> => Ready(e("clear_wk_pp", 0), s)
        BY <1>1, <1>2, <1>7, <1>10 DEF Stands, Follows, AllRun, Ready
    <2> QED  BY <1>6, <1>10, <2>1 DEF Calls
<1>11. ASSUME NEW at \in {"dead", "nolife"}, NEW next \in {"end", "noflag"},
              PostCall(s, at, "life_off", 0, next)
       PROVE  \E f \in Event :
                /\ queue' = Append(queue, f) /\ f.from = s
                /\ queue # <<>> => Follows(queue[Len(queue)], f)
                /\ queue = <<>> => Ready(f, s)
                /\ Stands(f, pc'[s], Sent(s)')
    <2>1. /\ Stands(e("life_off", 0), next, Sent(s)')
          /\ queue # <<>> => Follows(queue[Len(queue)], e("life_off", 0))
          /\ queue = <<>> => Ready(e("life_off", 0), s)
        BY <1>1, <1>2, <1>7, <1>11 DEF Stands, AllRun, Ready
    <2> QED  BY <1>6, <1>11, <2>1 DEF Calls
<1>12. CASE PostCall(s, "noflag", "flag_off", 0, "end")
    <2>1. /\ Stands(e("flag_off", 0), "end", Sent(s)')
          /\ queue # <<>> => Follows(queue[Len(queue)], e("flag_off", 0))
          /\ queue = <<>> => Ready(e("flag_off", 0), s)
        BY <1>1, <1>2, <1>7, <1>12 DEF Stands, Follows, AllRun, Ready
    <2> QED  BY <1>6, <1>12, <2>1 DEF Calls
<1>13. CASE PostCall(s, "end", "quit", 0, "ended")
    <2>1. /\ Stands(e("quit", 0), "ended", Sent(s)')
          /\ queue # <<>> => Follows(queue[Len(queue)], e("quit", 0))
          /\ queue = <<>> => Ready(e("quit", 0), s)
        BY <1>1, <1>2, <1>7, <1>13 DEF Stands, Follows, AllRun, Ready
    <2> QED  BY <1>6, <1>13, <2>1 DEF Calls
<1> QED  BY <1>4, <1>5, <1>8, <1>9, <1>10, <1>11, <1>12, <1>13 DEF Post

LEMMA OwnerPosts ==
    ASSUME TypeInv, EarlyIsZero, NEW s \in Sources, OwnedBy(s), Post(s)
    PROVE  OwnedBy(s)'
<1>1. PICK f \in Event :
        /\ queue' = Append(queue, f) /\ f.from = s
        /\ queue # <<>> => Follows(queue[Len(queue)], f)
        /\ queue = <<>> => Ready(f, s)
        /\ Stands(f, pc'[s], Sent(s)')
    BY PostsNext
<1>2. /\ UNCHANGED <<wk_life, vec, vec_dump>> /\ pc[s] \notin Idle
      /\ \A w \in Sources : w # s => pc'[w] = pc[w]
    BY WaitTypes DEF Post, PostCall, pcapVars, Idle
<1>3. /\ Len(queue') = Len(queue) + 1 /\ queue'[Len(queue) + 1] = f /\ queue' # <<>>
      /\ \A i \in 1..Len(queue) : queue'[i] = queue[i]
      /\ \A i \in 1..Len(queue') : i \in 1..Len(queue) \/ i = Len(queue) + 1
    BY <1>1, WaitTypes, AppendToQueue, EmptySeq
<1>4. OnlyOwner(s)'
    <2>1. \A w \in Sources : Alive(w)' => w = s
        BY <1>2 DEF OwnedBy, OnlyOwner, Alive
    <2>2. \A i \in 1..Len(queue') : queue'[i].from = s
        BY <1>1, <1>3 DEF OwnedBy, OnlyOwner
    <2> QED  BY <2>1, <2>2 DEF OnlyOwner
<1>5. DumpsAre(s)'
    BY <1>2 DEF OwnedBy, DumpsAre
<1>6. Chain'
    <2> SUFFICES ASSUME NEW i \in 1..Len(queue'), NEW j \in 1..Len(queue'), j = i + 1
                 PROVE  Follows(queue'[i], queue'[j])
        BY DEF Chain, Follows
    <2>1. i \in 1..Len(queue) /\ queue'[i] = queue[i]
        <3>1. Len(queue) \in Nat
            BY WaitTypes
        <3> QED  BY <1>3, <3>1
    <2>2. CASE j \in 1..Len(queue)
        BY <1>3, <2>1, <2>2 DEF OwnedBy, Chain
    <2>3. CASE j = Len(queue) + 1
        BY <1>1, <1>3, <2>1, <2>3, WaitTypes
    <2> QED  BY <1>3, <2>2, <2>3
<1>7. EndsAt(s)'
    BY <1>1, <1>3 DEF EndsAt, Stands
<1>8. BeginsAt(s)'
    <2>1. (queue'[1] = f /\ queue = <<>>) \/ (queue'[1] = queue[1] /\ queue # <<>>)
        BY <1>3, WaitTypes
    <2>2. Ready(queue'[1], s)
        BY <1>1, <2>1 DEF OwnedBy, BeginsAt
    <2> QED  BY <1>2, <2>2 DEF BeginsAt, Ready, Clean, Level, Half, InStep
<1>9. EmptyAt(s)'
    BY <1>3 DEF EmptyAt
<1> QED  BY <1>4, <1>5, <1>6, <1>7, <1>8, <1>9 DEF OwnedBy

-----------------------------------------------------------------------------
(***************************************************************************)
(* The GUI thread runs the oldest call: Pcap is then ready for the call    *)
(* behind it, or, when it was the last one, as the worker expects.         *)
(***************************************************************************)
LEMMA OwnerDelivers ==
    ASSUME TypeInv, NEW s \in Sources \cup {NULL}, OwnedBy(s), Deliver
    PROVE  OwnedBy(s)'
<1> DEFINE h == queue[1]
<1>1. /\ queue # <<>> /\ queue' = Tail(queue) /\ Head(queue) = h
      /\ Len(queue) \in Nat \ {0} /\ Len(queue') = Len(queue) - 1
      /\ \A i \in 1..Len(queue') : i + 1 \in 1..Len(queue) /\ queue'[i] = queue[i + 1]
    <2>1. queue # <<>> /\ queue' = Tail(queue)
        BY DEF Deliver, set_wk_pp, clear_wk_pp, set_wk_life, set_wk_flag, update_md,
               dump_push_back, quit, Run
    <2> QED  BY <2>1, WaitTypes, TailOfQueue
<1>2. queue' = <<>> <=> Len(queue') = 0
    BY <1>1, WaitTypes, TailOfQueue, EmptySeq
<1>3. /\ s \in Sources /\ At(s) = pc[s] /\ At(s)' = pc'[s]
      /\ h.from = s /\ h.call \in Calls /\ h.num \in Nat
      /\ HeadPacket = [src |-> s, num |-> h.num]
    BY <1>1, WaitTypes DEF OwnedBy, EndsAt, OnlyOwner, At, HeadPacket
<1>4. Stands(queue[Len(queue)], pc[s], Sent(s)) /\ Ready(h, s) /\ num' = num
    BY <1>1 DEF OwnedBy, EndsAt, BeginsAt, Deliver, set_wk_pp, clear_wk_pp, set_wk_life,
        set_wk_flag, update_md, dump_push_back, quit, workerVars
\* What the calls leave behind.
<1>5. /\ \A f \in Event : Follows(h, f) => Ready(f, s)'
      /\ Stands(h, pc[s], Sent(s)) => AllRun(s)'
      /\ DumpsAre(s)'
      /\ LastCall(h) \/ pc' = pc
      /\ pc' = pc \/ \E at \in {"dead", "finished"} : pc' = [pc EXCEPT ![s] = at]
    <2>1. CASE set_wk_pp
        <3>1. h.call = "set_wk_pp" /\ UNCHANGED <<wk_life, vec, vec_dump, pc>>
            BY <1>1, <2>1 DEF set_wk_pp, Run, dataVars, workerVars
        <3>2. Clean'
            BY <1>4, <3>1 DEF Ready, Clean
        <3>3. \A f \in Event : Follows(h, f) => Ready(f, s)'
            BY <3>1, <3>2 DEF Follows, Ready, Clean
        <3>4. Stands(h, pc[s], Sent(s)) => AllRun(s)'
            BY <1>3, <3>1, <3>2 DEF Stands, AllRun, Clean, Idle
        <3> QED  BY <3>1, <3>3, <3>4 DEF OwnedBy, DumpsAre
    <2>2. CASE clear_wk_pp
        <3>1. /\ h.call = "clear_wk_pp" /\ UNCHANGED <<wk_life, vec, vec_dump>>
              /\ pc' = [pc EXCEPT ![s] = "dead"]
            BY <1>1, <1>3, <2>2 DEF clear_wk_pp, Run, dataVars
        <3>2. InStep(s)'
            BY <1>4, <3>1 DEF Ready, InStep
        <3>3. \A f \in Event : Follows(h, f) => Ready(f, s)'
            BY <3>1 DEF Follows
        <3>4. At(s)' = "dead"
            BY <1>3, <3>1, WaitTypes
        <3>5. AllRun(s)'
            BY <3>2, <3>4 DEF AllRun, Idle
        <3> QED  BY <3>1, <3>3, <3>5 DEF OwnedBy, DumpsAre, LastCall
    <2>3. CASE set_wk_life
        <3>1. /\ h.call \in {"life_on", "life_off"} /\ UNCHANGED <<vec, vec_dump, pc>>
              /\ wk_life' = (h.call = "life_on")
            BY <1>1, <2>3 DEF set_wk_life, Run, dataVars, workerVars
        <3>2. CASE h.call = "life_on"
            <4>1. wk_life' /\ vec' = {} /\ vec_dump' = <<>> /\ Len(vec_dump') = 0
                BY <1>4, <3>1, <3>2, EmptySeq DEF Ready, Clean
            <4>2. Level(s, 0)' /\ InStep(s)'
                BY <4>1, OwnedGrows DEF Level, InStep
            <4>3. \A f \in Event : Follows(h, f) => Ready(f, s)'
                BY <3>2, <4>1, <4>2 DEF Follows, Ready, Level, InStep
            <4>4. Stands(h, pc[s], Sent(s)) => AllRun(s)'
                BY <1>3, <1>4, <3>1, <3>2, <4>1, <4>2 DEF Stands, AllRun, Level, InStep, Sent, Idle
            <4> QED  BY <3>1, <4>3, <4>4 DEF OwnedBy, DumpsAre
        <3>3. CASE h.call = "life_off"
            <4>1. ~wk_life' /\ InStep(s)'
                BY <1>4, <3>1, <3>3 DEF Ready, InStep
            <4>2. \A f \in Event : Follows(h, f) => Ready(f, s)'
                BY <3>3, <4>1 DEF Follows, Ready, InStep
            <4>3. Stands(h, pc[s], Sent(s)) => AllRun(s)'
                BY <1>3, <3>1, <3>3, <4>1 DEF Stands, AllRun, Idle
            <4> QED  BY <3>1, <4>2, <4>3 DEF OwnedBy, DumpsAre
        <3> QED  BY <3>1, <3>2, <3>3
    <2>4. CASE set_wk_flag
        <3>1. h.call = "flag_off" /\ UNCHANGED <<wk_life, vec, vec_dump, pc>>
            BY <1>1, <2>4 DEF set_wk_flag, Run, dataVars, workerVars
        <3>2. ~wk_life' /\ InStep(s)'
            BY <1>4, <3>1 DEF Ready, InStep
        <3>3. \A f \in Event : Follows(h, f) => Ready(f, s)'
            BY <3>1, <3>2 DEF Follows, Ready, InStep
        <3>4. Stands(h, pc[s], Sent(s)) => AllRun(s)'
            BY <1>3, <3>1, <3>2 DEF Stands, AllRun, Idle
        <3> QED  BY <3>1, <3>3, <3>4 DEF OwnedBy, DumpsAre
    <2>5. CASE update_md
        <3>a. PICK n \in Nat : n = h.num
            BY <1>3
        <3>1. /\ h.call = "update_md" /\ UNCHANGED <<wk_life, vec_dump, pc>>
              /\ vec' = vec \cup {[src |-> s, num |-> n]}
            BY <1>1, <1>3, <3>a, <2>5 DEF update_md, Run, workerVars
        <3>2. Half(s, n)'
            BY <1>3, <3>a, <1>4, <3>1, OwnedGrows DEF Ready, Level, Half
        <3>3. \A f \in Event : Follows(h, f) => Ready(f, s)'
            BY <3>a, <3>1, <3>2 DEF Follows, Ready, Half
        <3>4. Stands(h, pc[s], Sent(s)) => AllRun(s)'
            BY <1>3, <3>a, <1>4, <3>1, <3>2 DEF Stands, AllRun, Half, Sent, Idle
        <3> QED  BY <3>1, <3>3, <3>4 DEF OwnedBy, DumpsAre
    <2>6. CASE dump_push_back
        <3>a. PICK n \in Nat : n = h.num
            BY <1>3
        <3>1. /\ h.call = "dump_push_back" /\ UNCHANGED <<wk_life, vec, pc>>
              /\ vec_dump' = Append(vec_dump, [src |-> s, num |-> n])
            BY <1>1, <1>3, <3>a, <2>6 DEF dump_push_back, Run, workerVars
        <3>2. /\ [src |-> s, num |-> n] \in Packet /\ vec_dump \in Seq(Packet)
              /\ Len(vec_dump) = n
            BY <1>3, <3>a, <1>4, <3>1, WaitTypes DEF Packet, Ready, Half
        <3>3. /\ Len(vec_dump') = n + 1
              /\ vec_dump'[n + 1] = [src |-> s, num |-> n]
              /\ \A i \in 1..n : vec_dump'[i] = vec_dump[i]
            BY <3>1, <3>2, AppendToQueue
        <3>4. Level(s, n + 1)' /\ InStep(s)'
            BY <1>4, <3>a, <3>1, <3>2, <3>3 DEF Ready, Half, Level, InStep
        <3>5. \A f \in Event : Follows(h, f) => Ready(f, s)'
            BY <3>a, <3>1, <3>4 DEF Follows, Ready, Level, InStep
        <3>6. Stands(h, pc[s], Sent(s)) => AllRun(s)'
            BY <1>3, <3>a, <1>4, <3>1, <3>4 DEF Stands, AllRun, Level, InStep, Sent, Idle
        <3>7. DumpsAre(s)'
            <4> SUFFICES ASSUME NEW i \in 1..Len(vec_dump')
                         PROVE  vec_dump'[i] = [src |-> s, num |-> i - 1]
                BY DEF DumpsAre
            <4>1. CASE i \in 1..n
                BY <3>2, <3>3, <4>1 DEF OwnedBy, DumpsAre
            <4>2. CASE i = n + 1
                BY <3>3, <4>2
            <4> QED  BY <3>3, <4>1, <4>2
        <3> QED  BY <3>1, <3>5, <3>6, <3>7
    <2>7. CASE quit
        <3>1. /\ h.call = "quit" /\ UNCHANGED <<wk_life, vec, vec_dump>>
              /\ pc' = [pc EXCEPT ![s] = "finished"]
            BY <1>1, <1>3, <2>7 DEF quit, Run, pcapVars
        <3>2. ~wk_life' /\ InStep(s)'
            BY <1>4, <3>1 DEF Ready, InStep
        <3>3. \A f \in Event : Follows(h, f) => Ready(f, s)'
            BY <3>1 DEF Follows
        <3>4. At(s)' = "finished"
            BY <1>3, <3>1, WaitTypes
        <3>5. AllRun(s)'
            BY <3>2, <3>4 DEF AllRun, Idle
        <3> QED  BY <3>1, <3>3, <3>5 DEF OwnedBy, DumpsAre, LastCall
    <2> QED  BY <2>1, <2>2, <2>3, <2>4, <2>5, <2>6, <2>7 DEF Deliver
<1>6. OnlyOwner(s)'
    <2>1. \A w \in Sources : Alive(w)' => w = s
        BY <1>3, <1>5, WaitTypes DEF OwnedBy, OnlyOwner, Alive, Idle
    <2>2. \A i \in 1..Len(queue') : queue'[i].from = s
        BY <1>1 DEF OwnedBy, OnlyOwner
    <2> QED  BY <2>1, <2>2 DEF OnlyOwner
<1>7. Chain'
    <2> SUFFICES ASSUME NEW i \in 1..Len(queue'), NEW j \in 1..Len(queue'), j = i + 1
                 PROVE  Follows(queue'[i], queue'[j])
        BY DEF Chain, Follows
    <2>1. Follows(queue[i + 1], queue[j + 1])
        BY <1>1 DEF OwnedBy, Chain
    <2> QED  BY <1>1, <2>1
<1>8. CASE Len(queue) = 1
    <2>1. queue' = <<>>
        BY <1>1, <1>2, <1>8
    <2>2. AllRun(s)'
        BY <1>4, <1>5, <1>8
    <2> QED  BY <1>5, <1>6, <1>7, <2>1, <2>2 DEF OwnedBy, EndsAt, BeginsAt, EmptyAt
<1>9. CASE Len(queue) # 1
    <2>1. /\ queue' # <<>> /\ 2 \in 1..Len(queue) /\ 1 \in 1..Len(queue) /\ 2 = 1 + 1
          /\ queue'[1] = queue[2] /\ queue'[Len(queue')] = queue[Len(queue)]
        BY <1>1, <1>2, <1>9
    <2>2. Follows(h, queue[2])
        BY <2>1 DEF OwnedBy, Chain
    <2>3. pc' = pc
        BY <1>5, <2>2 DEF Follows, LastCall
    <2>4. EndsAt(s)'
        BY <1>3, <1>4, <2>1, <2>3 DEF EndsAt, Stands, Sent
    <2>5. BeginsAt(s)'
        <3>1. PICK f \in Event : f = queue[2]
            BY <2>1, WaitTypes, ElementOfSeq
        <3>2. Ready(f, s)'
            BY <1>5, <2>2, <3>1
        <3> QED  BY <2>1, <3>1, <3>2 DEF BeginsAt, Ready
    <2>6. EmptyAt(s)'
        BY <2>1 DEF EmptyAt
    <2> QED  BY <1>5, <1>6, <1>7, <2>4, <2>5, <2>6 DEF OwnedBy
<1> QED  BY <1>8, <1>9

-----------------------------------------------------------------------------
(***************************************************************************)
(* The worker goes on between its posts: nothing it does there moves what  *)
(* the lists are expected to hold.                                         *)
(***************************************************************************)
LEMMA OwnerMoves ==
    ASSUME TypeInv, NEW s \in Sources, OwnedBy(s),
           Opens(s) \/ Filters(s) \/ Receive(s) \/ Loops(s) \/ Close(s)
    PROVE  OwnedBy(s)'
<1>1. UNCHANGED <<queue, wk_life, vec, vec_dump>>
    BY DEF Opens, OpenFails, OpenSucceeds, Filters, EnterLoop, FilterRejected,
           Receive, Loops, TestFlag, ReadNothing, LoopError, Close, pcapVars
<1>2. PICK at \in PC : pc' = [pc EXCEPT ![s] = at]
    BY DEF Opens, OpenFails, OpenSucceeds, Filters, EnterLoop, FilterRejected,
           Receive, Loops, TestFlag, ReadNothing, LoopError, Close, PC, Posting
<1>3. /\ pc'[s] = at /\ At(s) = pc[s] /\ At(s)' = at
      /\ \/ pc[s] = "start" /\ at \in {"nolife", "pp"}
         \/ pc[s] = "filter" /\ at \in {"loop", "close"}
         \/ pc[s] = "loop" /\ at \in {"read", "close"}
         \/ pc[s] = "read" /\ at \in {"row", "loop", "close"}
         \/ pc[s] = "close" /\ at = "null"
    BY <1>2, WaitTypes DEF At, Opens, OpenFails, OpenSucceeds, Filters, EnterLoop, FilterRejected,
           Receive, Loops, TestFlag, ReadNothing, LoopError, Close
<1>4. Sent(s)' = Sent(s)
    <2>1. CASE Receive(s)
        BY <2>1, WaitTypes DEF Receive, Sent
    <2>2. CASE ~Receive(s)
        <3>1. num' = num /\ at # "row"
            BY <1>3, <2>2, WaitTypes DEF Opens, OpenFails, OpenSucceeds, Filters, EnterLoop,
                FilterRejected, Loops, TestFlag, ReadNothing, LoopError, Close
        <3> QED  BY <1>3, <3>1 DEF Sent
    <2> QED  BY <2>1, <2>2
<1>5. OnlyOwner(s)'
    <2>1. \A w \in Sources : Alive(w)' => w = s
        BY <1>2, WaitTypes DEF OwnedBy, OnlyOwner, Alive
    <2> QED  BY <1>1, <2>1 DEF OwnedBy, OnlyOwner
<1>6. DumpsAre(s)' /\ Chain'
    BY <1>1 DEF OwnedBy, DumpsAre, Chain, Follows
<1>7. EndsAt(s)'
    BY <1>1, <1>3, <1>4 DEF OwnedBy, EndsAt, Stands
<1>8. BeginsAt(s)'
    BY <1>1 DEF OwnedBy, BeginsAt, Ready, Clean, Level, Half, InStep
<1>9. EmptyAt(s)'
    <2> SUFFICES ASSUME queue = <<>> PROVE AllRun(s)'
        BY <1>1 DEF EmptyAt
    <2>1. AllRun(s)
        BY DEF OwnedBy, EmptyAt
    <2>2. CASE pc[s] = "start"
        <3>1. Clean' /\ Len(vec_dump') = 0
            BY <1>1, <1>3, <2>1, <2>2, EmptySeq DEF AllRun, Clean
        <3>2. InStep(s)'
            BY <3>1, OwnedGrows DEF Clean, InStep
        <3> QED  BY <1>3, <2>2, <3>1, <3>2 DEF AllRun, Idle
    <2>3. CASE pc[s] \in {"filter", "loop", "read", "close"}
        <3>1. wk_life' /\ InStep(s)'
            BY <1>1, <1>3, <2>1, <2>3 DEF AllRun, Level, InStep
        <3>2. pc[s] # "close" => Level(s, Sent(s))'
            BY <1>1, <1>3, <1>4, <2>1, <2>3 DEF AllRun, Level
        <3> QED  BY <1>3, <2>3, <3>1, <3>2 DEF AllRun, Idle
    <2> QED  BY <1>3, <2>2, <2>3
<1> QED  BY <1>5, <1>6, <1>7, <1>8, <1>9 DEF OwnedBy

-----------------------------------------------------------------------------
(***************************************************************************)
(* The user.  Reset may come at any time, the others wait for the worker.  *)
(***************************************************************************)
\* The lists stay, or reset_md clears them, which it does only while wk_life is
\* false: before the first row and after the last.
LEMMA OwnerStays ==
    ASSUME TypeInv, NEW s, OwnedBy(s), UNCHANGED <<queue, pc, num, wk_life>>,
           UNCHANGED dataVars \/ reset_md
    PROVE  OwnedBy(s)'
<1>1. /\ OnlyOwner(s)' /\ Chain' /\ EndsAt(s)' /\ At(s)' = At(s)
      /\ queue # <<>> => Ready(queue[1], s)
      /\ queue = <<>> => AllRun(s)
    BY SMTT(30) DEF OwnedBy, OnlyOwner, Chain, Follows, EndsAt, BeginsAt, EmptyAt, Stands,
        Sent, Alive, At
<1>2. CASE UNCHANGED <<vec, vec_dump>>
    <2>1. DumpsAre(s)'
        BY <1>2 DEF OwnedBy, DumpsAre
    <2>2. BeginsAt(s)'
        BY <1>1, <1>2 DEF BeginsAt, Ready, Clean, Level, Half, InStep
    <2>3. EmptyAt(s)'
        BY <1>1, <1>2 DEF EmptyAt, AllRun, Clean, Level, Half, InStep, At, Sent
    <2> QED  BY <1>1, <2>1, <2>2, <2>3 DEF OwnedBy
<1>3. CASE ~wk_life /\ Clear
    <2>1. ~wk_life' /\ Clean' /\ Len(vec_dump') = 0
        BY <1>3, EmptySeq DEF Clear, Clean
    <2>2. InStep(s)'
        BY <2>1, OwnedGrows DEF Clean, InStep
    <2>3. DumpsAre(s)'
        BY <2>1 DEF DumpsAre
    <2>4. BeginsAt(s)'
        BY <1>1, <1>3, <2>1, <2>2 DEF BeginsAt, Ready, Level, Half
    <2>5. EmptyAt(s)'
        BY <1>1, <1>3, <2>1, <2>2 DEF EmptyAt, AllRun, Level, Half
    <2> QED  BY <1>1, <2>3, <2>4, <2>5 DEF OwnedBy
<1> QED  BY <1>2, <1>3 DEF dataVars, reset_md

\* The Start button: the worker begins with empty lists and wk_life false.
LEMMA OwnerStarts ==
    ASSUME TypeInv, Owner, WaitsForWorker, NEW w \in Sources, create_Th(w)
    PROVE  OwnedBy(w)'
<1>1. PICK s \in Sources \cup {NULL} : OwnedBy(s)
    BY DEF Owner
<1>2. NoneAlive
    BY DEF create_Th, MayProceed
<1>3. queue = <<>> /\ ~wk_life
    BY <1>1, <1>2, QuietAtRest
<1>4. /\ queue' = <<>> /\ Len(queue') = 0 /\ pc' = [pc EXCEPT ![w] = "start"]
      /\ Clean' /\ Len(vec_dump') = 0
    BY <1>3, EmptySeq DEF create_Th, Clear, Clean
<1>5. At(w)' = "start"
    BY <1>4, WaitTypes DEF At
<1>6. OnlyOwner(w)'
    BY <1>2, <1>4, WaitTypes DEF OnlyOwner, NoneAlive, Alive
<1>7. DumpsAre(w)' /\ Chain' /\ EndsAt(w)' /\ BeginsAt(w)'
    BY <1>4 DEF DumpsAre, Chain, EndsAt, BeginsAt
<1>8. EmptyAt(w)'
    BY <1>4, <1>5 DEF EmptyAt, AllRun, Idle
<1> QED  BY <1>6, <1>7, <1>8 DEF OwnedBy

\* A file is read into empty lists.
LEMMA OwnerReads ==
    ASSUME TypeInv, Owner, NicIsEmpty, NEW s \in Sources, NEW k \in 0..MaxPkts,
           pcapFile_Read(s, k)
    PROVE  OwnedBy(s)'
<1>1. PICK t \in Sources \cup {NULL} : OwnedBy(t)
    BY DEF Owner
<1>2. NoneAlive /\ vec = {} /\ vec_dump = <<>>
    BY DEF pcapFile_Read, Input, NicIsEmpty
<1>3. queue = <<>> /\ ~wk_life
    BY <1>1, <1>2, QuietAtRest
<1> DEFINE F == FilePackets(s, k)
<1>4. k \in Nat /\ F \in Seq(Packet) /\ Len(F) = k
    BY SourcesAssumption, FileTypes
<1>5. /\ queue' = <<>> /\ Len(queue') = 0 /\ pc' = [pc EXCEPT ![s] = "file"] /\ ~wk_life'
      /\ vec' = {F[i] : i \in 1..k} /\ vec_dump' = <<>> \o F
    BY <1>2, <1>3, EmptySeq DEF pcapFile_Read
<1>6. \A i \in 1..k : F[i] = [src |-> s, num |-> i - 1]
    BY DEF FilePackets
<1> HIDE DEF F
<1>7. vec_dump' = F
    BY <1>4, <1>5, ConcatEmptySeq
<1>8. InStep(s)'
    <2>1. ASSUME NEW p \in vec' PROVE p \in Owned(s, k)
        BY <1>4, <1>5, <1>6, <2>1 DEF Owned, Packet
    <2>2. ASSUME NEW p \in Owned(s, k) PROVE p \in vec'
        <3>1. PICK i \in 1..k : i = p.num + 1
            BY <1>4, <2>2 DEF Owned, Packet
        <3>2. p = [src |-> s, num |-> i - 1]
            BY <2>2, <3>1 DEF Owned, Packet
        <3>3. p = F[i]
            BY <1>6, <3>2
        <3>4. F[i] \in {F[j] : j \in 1..k}
            OBVIOUS
        <3> QED  BY <1>5, <3>3, <3>4
    <2> QED  BY <1>4, <1>7, <2>1, <2>2 DEF InStep
<1>9. At(s)' = "file"
    BY <1>5, WaitTypes DEF At
<1>10. OnlyOwner(s)'
    BY <1>2, <1>5, WaitTypes DEF OnlyOwner, NoneAlive, Alive
<1>11. DumpsAre(s)' /\ Chain' /\ EndsAt(s)' /\ BeginsAt(s)'
    BY <1>4, <1>5, <1>6, <1>7 DEF DumpsAre, Chain, EndsAt, BeginsAt
<1>12. EmptyAt(s)'
    BY <1>5, <1>8, <1>9 DEF EmptyAt, AllRun, Idle
<1> QED  BY <1>10, <1>11, <1>12 DEF OwnedBy

\* What user input does to the lists and to the worker.
LEMMA UserMoves ==
    ASSUME UserStep
    PROVE  \/ \E w \in Sources : create_Th(w)
           \/ \E w \in Sources, k \in 0..MaxPkts : pcapFile_Read(w, k)
           \/ /\ UNCHANGED <<queue, pc, num, wk_life>>
              /\ UNCHANGED dataVars \/ reset_md
<1>1. CASE OpenNic \/ FileUnreadable \/ StartWithoutNic \/ OpenSave \/ save_md \/ PktBack
    BY <1>1 DEF OpenNic, FileUnreadable, StartWithoutNic, OpenSave, save_md, PktBack,
        pcapVars, dataVars, workerVars
<1>2. CASE Stop \/ Reset \/ Back
    BY <1>2 DEF Stop, Reset, Back, workerVars
<1>3. ASSUME NEW p \in vec, DoubleClick(p)
      PROVE  UNCHANGED <<queue, pc, num, wk_life>> /\ UNCHANGED dataVars
    BY <1>3 DEF DoubleClick, pcapVars, dataVars, workerVars
<1> QED  BY <1>1, <1>2, <1>3 DEF UserStep

LEMMA OwnerStep ==
    ASSUME WaitsForWorker, TypeInv, EarlyIsZero, Owner, NicIsEmpty, [Next]_vars
    PROVE  Owner'
<1>1. PICK s \in Sources \cup {NULL} : OwnedBy(s)
    BY DEF Owner
<1>2. CASE Deliver
    BY <1>1, <1>2, OwnerDelivers DEF Owner
<1>3. CASE UserStep
    <2>1. ASSUME UNCHANGED <<queue, pc, num, wk_life>>, UNCHANGED dataVars \/ reset_md
          PROVE  Owner'
        BY <1>1, <2>1, OwnerStays DEF Owner
    <2> QED  BY <1>3, <2>1, UserMoves, OwnerStarts, OwnerReads DEF Owner
<1>4. ASSUME NEW w \in Sources, WorkerStep(w) PROVE Owner'
    <2>1. w = s
        <3>1. pc[w] \notin Idle
            BY <1>4 DEF WorkerStep, Opens, OpenFails, OpenSucceeds, Filters, EnterLoop,
                FilterRejected, Receive, Loops, TestFlag, ReadNothing, LoopError, Close, Post, PostCall,
                Idle
        <3> QED  BY <1>1, <3>1 DEF OwnedBy, OnlyOwner, Alive
    <2>2. OwnedBy(s)'
        BY <1>1, <1>4, <2>1, OwnerPosts, OwnerMoves DEF WorkerStep
    <2> QED  BY <2>2 DEF Owner
<1>5. CASE UNCHANGED vars
    <2>1. UNCHANGED <<queue, pc, num, wk_life>> /\ UNCHANGED dataVars
        BY <1>5 DEF vars, pcapVars, workerVars, dataVars
    <2> QED  BY <1>1, <2>1, OwnerStays DEF Owner
<1> QED  BY <1>2, <1>3, <1>4, <1>5 DEF Next, Down

-----------------------------------------------------------------------------
(***************************************************************************)
(* The rest of the invariant.                                              *)
(***************************************************************************)
LEMMA EarlyStep == TypeInv /\ HandleInv /\ EarlyIsZero /\ [Next]_vars => EarlyIsZero'
<1> SUFFICES ASSUME TypeInv, HandleInv, EarlyIsZero, [Next]_vars PROVE EarlyIsZero'
    OBVIOUS
<1>1. pc \in [Sources -> PC] /\ num \in [Sources -> Nat]
    BY WaitTypes
<1>2. ASSUME UNCHANGED <<pc, num>> PROVE EarlyIsZero'
    BY <1>2 DEF EarlyIsZero
<1>3. ASSUME NEW w \in Sources, NEW at, pc' = [pc EXCEPT ![w] = at],
             at \in Early => pc[w] \in Early /\ num' = num,
             \A v \in Sources : v # w => num'[v] = num[v]
      PROVE  EarlyIsZero'
    BY <1>1, <1>3 DEF EarlyIsZero
<1>4. CASE Deliver
    <2>1. num' = num
        BY <1>4 DEF Deliver, set_wk_pp, clear_wk_pp, set_wk_life, set_wk_flag, update_md,
            dump_push_back, quit, workerVars
    <2>2. pc' = pc \/ \E w \in Sources, at \in {"dead", "finished"} : pc' = [pc EXCEPT ![w] = at]
        <3>1. Head(queue).from \in Sources
            BY <1>4, HeadType DEF TypeInv, Deliver, set_wk_pp, clear_wk_pp, set_wk_life,
                set_wk_flag, update_md, dump_push_back, quit, Run
        <3> QED  BY <1>4, <3>1 DEF Deliver, set_wk_pp, clear_wk_pp, set_wk_life, set_wk_flag,
                update_md, dump_push_back, quit, workerVars
    <2> QED  BY <1>2, <1>3, <2>1, <2>2 DEF Early
<1>5. CASE UserStep
    <2>1. ASSUME NEW w \in Sources, create_Th(w) PROVE EarlyIsZero'
        <3>1. pc[w] = "unused" /\ pc' = [pc EXCEPT ![w] = "start"] /\ num' = num
            BY <2>1 DEF create_Th, Fresh
        <3> QED  BY <1>1, <3>1 DEF EarlyIsZero, Early
    <2>2. ASSUME NEW w \in Sources, NEW k \in 0..MaxPkts, pcapFile_Read(w, k)
          PROVE  EarlyIsZero'
        <3>1. pc' = [pc EXCEPT ![w] = "file"] /\ num' = [num EXCEPT ![w] = k]
            BY <2>2 DEF pcapFile_Read
        <3> QED  BY <1>1, <3>1 DEF EarlyIsZero, Early
    <2> QED  BY <1>2, <1>5, <2>1, <2>2, UserMoves
<1>6. ASSUME NEW w \in Sources, WorkerStep(w) PROVE EarlyIsZero'
    <2>1. \E at : /\ pc' = [pc EXCEPT ![w] = at]
                  /\ at \in Early => pc[w] \in Early /\ num' = num
                  /\ \A v \in Sources : v # w => num'[v] = num[v]
        <3>1. CASE Receive(w)
            BY <1>1, <3>1 DEF Receive, Early
        <3>2. CASE ~Receive(w)
            BY <1>6, <3>2 DEF WorkerStep, Opens, OpenFails, OpenSucceeds, Filters, EnterLoop,
                FilterRejected, Loops, TestFlag, ReadNothing, LoopError, Close, Post, PostCall, Early
        <3> QED  BY <3>1, <3>2
    <2> QED  BY <1>3, <2>1
<1>7. CASE UNCHANGED vars
    BY <1>2, <1>7 DEF vars, workerVars
<1> QED  BY <1>4, <1>5, <1>6, <1>7 DEF Next, Down

\* Leaving the CaptureView clears the lists: no worker runs then.
LEMMA NicStep ==
    ASSUME WaitsForWorker, TypeInv, Owner, NicIsEmpty, [Next]_vars
    PROVE  NicIsEmpty'
<1>1. PICK s \in Sources \cup {NULL} : OwnedBy(s)
    BY DEF Owner
<1> SUFFICES ASSUME view' = "nic" PROVE vec' = {} /\ vec_dump' = <<>> /\ NoneAlive'
    BY DEF NicIsEmpty
<1>2. CASE Back
    <2>1. NoneAlive /\ ~wk_life
        BY <1>1, <1>2, QuietAtRest DEF Back, MayProceed
    <2>2. UNCHANGED pc /\ vec' = {} /\ vec_dump' = <<>>
        BY <1>2, <2>1 DEF Back, Input, reset_md, Clear
    <2> QED  BY <2>1, <2>2 DEF NoneAlive, Alive
<1>3. CASE ~Back
    <2>1. view = "nic"
        <3>1. ~\E p \in vec : DoubleClick(p)
            BY DEF DoubleClick
        <3>2. ~\E w \in Sources, k \in 0..MaxPkts : pcapFile_Read(w, k)
            BY DEF pcapFile_Read, CaptureViewOpens
        <3>3. Deliver \/ (\E w \in Sources : WorkerStep(w)) => UNCHANGED view
            BY DEF Deliver, set_wk_pp, clear_wk_pp, set_wk_life, set_wk_flag, update_md,
                dump_push_back, quit, WorkerStep, Opens, OpenFails, OpenSucceeds, Filters,
                EnterLoop, FilterRejected, Receive, Loops, TestFlag, ReadNothing, LoopError, Close,
                Post, PostCall, viewVars
        <3>4. UserStep => UNCHANGED view
            BY <1>3, <3>1, <3>2 DEF UserStep, OpenNic, FileUnreadable, CaptureViewOpens,
                StartWithoutNic, Stop, Reset, OpenSave, save_md, PktBack, create_Th, viewVars
        <3> QED  BY <3>3, <3>4 DEF Next, Down, vars, viewVars
    <2>2. NoneAlive /\ vec = {} /\ vec_dump = <<>>
        BY <2>1 DEF NicIsEmpty
    <2>3. queue = <<>>
        BY <1>1, <2>2, QuietAtRest
    <2>4. ~Deliver
        BY <2>3 DEF Deliver, set_wk_pp, clear_wk_pp, set_wk_life, set_wk_flag, update_md,
            dump_push_back, quit, Run
    <2>5. ASSUME NEW w \in Sources PROVE ~WorkerStep(w)
        BY <2>2 DEF NoneAlive, Alive, Idle, WorkerStep, Opens, OpenFails, OpenSucceeds, Filters,
            EnterLoop, FilterRejected, Receive, Loops, TestFlag, ReadNothing, LoopError, Close, Post,
            PostCall
    <2>6. UserStep => UNCHANGED <<vec, vec_dump, pc>>
        <3>1. ~\E w \in Sources, k \in 0..MaxPkts : pcapFile_Read(w, k)
            BY DEF pcapFile_Read, CaptureViewOpens
        <3>2. ~\E w \in Sources : create_Th(w)
            BY <2>1 DEF create_Th, Input
        <3>3. ~Reset
            BY <2>1 DEF Reset, Input
        <3>4. ~\E p \in vec : DoubleClick(p)
            BY DEF DoubleClick
        <3> QED  BY <1>3, <3>1, <3>2, <3>3, <3>4 DEF UserStep, OpenNic, FileUnreadable,
                StartWithoutNic, Stop, OpenSave, save_md, PktBack, pcapVars, dataVars, workerVars
    <2>7. UNCHANGED <<vec, vec_dump, pc>>
        BY <2>4, <2>5, <2>6 DEF Next, Down, vars, pcapVars, workerVars
    <2> QED  BY <2>2, <2>7 DEF NoneAlive, Alive
<1> QED  BY <1>2, <1>3

\* stop_Th sets stop_flag only through a handle in wk_pp, which is that of the
\* one worker there is; once its loop is broken, or left, it never enters it again.
LEMMA StopStep ==
    ASSUME WaitsForWorker, TypeInv, HandleInv, Owner, StopNoted, [Next]_vars
    PROVE  StopNoted'
<1>1. PICK s \in Sources \cup {NULL} : OwnedBy(s)
    BY DEF Owner
<1>2. /\ pc \in [Sources -> PC] /\ brk \in [Sources -> {"no", "set"}]
      /\ wk_pp \in Sources \cup {NULL} /\ pp \in [Sources -> {"none", "open", "closed"}]
    BY DEF TypeInv, TypeOK
<1> DEFINE Noted(w) == Alive(w) => brk[w] # "no" \/ PastLoop(w)
<1>3. ASSUME stop_flag' => stop_flag, \A w \in Sources : Noted(w) => Noted(w)' PROVE StopNoted'
    BY <1>3 DEF StopNoted
<1>4. ASSUME UNCHANGED <<pc, brk>>, NEW w \in Sources, Noted(w) PROVE Noted(w)'
    BY <1>4 DEF Alive, PastLoop
<1>5. ASSUME stop_Th, UNCHANGED pc PROVE StopNoted'
    <2>1. CASE UNCHANGED <<brk, stop_flag>>
        BY <1>3, <1>4, <1>5, <2>1
    <2>2. CASE wk_pp # NULL /\ pp[wk_pp] = "open"
        <3>1. pc[wk_pp] \in Held
            BY <2>2 DEF HandleInv, HandleKnown
        <3>2. wk_pp \in Sources /\ brk' = [brk EXCEPT ![wk_pp] = "set"]
            BY <1>2, <1>5, <2>2 DEF stop_Th
        <3>3. \A w \in Sources : Alive(w) => w = wk_pp
            BY <1>1, <3>1, <3>2 DEF OwnedBy, OnlyOwner, Alive, Held, Idle
        <3>4. brk'[wk_pp] # "no"
            BY <1>2, <3>2
        <3> QED  BY <1>5, <3>3, <3>4 DEF StopNoted, Alive
    <2>3. CASE wk_pp # NULL /\ pp[wk_pp] = "closed"
        <3>1. wk_pp \in Sources /\ pc[wk_pp] \in {"null", "wait"}
            BY <1>2, <2>3, HandleInvImplies DEF HandleWindow
        <3>2. \A w \in Sources : Alive(w) => w = wk_pp
            BY <1>1, <3>1 DEF OwnedBy, OnlyOwner, Alive, Idle
        <3> QED  BY <1>5, <3>1, <3>2 DEF StopNoted, Alive, PastLoop
    <2> QED  BY <1>5, <2>1, <2>2, <2>3 DEF stop_Th, flagVars
<1>6. CASE Deliver
    <2>1. UNCHANGED <<stop_flag, brk>>
        BY <1>6 DEF Deliver, set_wk_pp, clear_wk_pp, set_wk_life, set_wk_flag, update_md,
            dump_push_back, quit, flagVars, pcapVars, workerVars
    <2>2. pc' = pc \/ \E at \in {"dead", "finished"} : pc' = [pc EXCEPT ![Head(queue).from] = at]
        BY <1>6 DEF Deliver, set_wk_pp, clear_wk_pp, set_wk_life, set_wk_flag, update_md,
            dump_push_back, quit, workerVars
    <2>3. \A w \in Sources : Noted(w) => Noted(w)'
        BY <1>2, <2>1, <2>2 DEF Alive, PastLoop, Idle
    <2> QED  BY <1>3, <2>1, <2>3
<1>7. ASSUME NEW w \in Sources, WorkerStep(w) PROVE StopNoted'
    <2>1. UNCHANGED stop_flag /\ \A v \in Sources : v # w => pc'[v] = pc[v] /\ brk'[v] = brk[v]
        BY <1>2, <1>7 DEF WorkerStep, Opens, OpenFails, OpenSucceeds, Filters, EnterLoop,
            FilterRejected, Loops, TestFlag, ReadNothing, LoopError, Close, Receive, Post,
            PostCall, pcapVars
    <2>2. Noted(w) => Noted(w)'
        <3>1. CASE Receive(w)
            BY <1>2, <3>1 DEF Receive, Alive, PastLoop, Idle
        <3>2. CASE Post(w)
            BY <1>2, <3>2 DEF Post, PostCall, Alive, PastLoop, Idle
        <3>3. CASE Opens(w) \/ Filters(w) \/ Loops(w) \/ Close(w)
            BY <1>2, <3>3 DEF Opens, OpenFails, OpenSucceeds, Filters, EnterLoop,
                FilterRejected, Loops, TestFlag, ReadNothing, LoopError, Close, Alive, PastLoop, Idle
        <3> QED  BY <1>7, <3>1, <3>2, <3>3 DEF WorkerStep
    <2>3. \A v \in Sources : v # w => (Noted(v) => Noted(v)')
        BY <2>1 DEF Alive, PastLoop
    <2> QED  BY <1>3, <2>1, <2>2, <2>3
<1>8. CASE UserStep
    <2>1. ASSUME NEW w \in Sources, create_Th(w) PROVE StopNoted'
        BY <2>1 DEF create_Th, StopNoted
    <2>2. ASSUME NEW w \in Sources, NEW k \in 0..MaxPkts, pcapFile_Read(w, k) PROVE StopNoted'
        <3>1. UNCHANGED <<stop_flag, brk>> /\ pc' = [pc EXCEPT ![w] = "file"] /\ pc[w] = "unused"
            BY <2>2 DEF pcapFile_Read, Fresh, flagVars
        <3>2. \A v \in Sources : Noted(v) => Noted(v)'
            BY <1>2, <3>1 DEF Alive, PastLoop, Idle
        <3> QED  BY <1>3, <3>1, <3>2
    <2>3. CASE Stop \/ Back
        BY <1>5, <2>3 DEF Stop, Back
    <2>4. CASE OpenNic \/ FileUnreadable \/ StartWithoutNic \/ Reset \/ OpenSave \/ save_md
             \/ PktBack
        <3>1. UNCHANGED <<stop_flag, pc, brk>>
            BY <2>4 DEF OpenNic, FileUnreadable, StartWithoutNic, Reset, OpenSave, save_md, PktBack,
                flagVars, pcapVars, workerVars
        <3> QED  BY <1>3, <1>4, <3>1
    <2>5. ASSUME NEW p \in vec, DoubleClick(p) PROVE StopNoted'
        <3>1. UNCHANGED <<stop_flag, pc, brk>>
            BY <2>5 DEF DoubleClick, pcapVars, workerVars
        <3> QED  BY <1>3, <1>4, <3>1
    <2> QED  BY <1>8, <2>1, <2>2, <2>3, <2>4, <2>5 DEF UserStep
<1>9. CASE UNCHANGED vars
    <2>1. UNCHANGED <<stop_flag, pc, brk>>
        BY <1>9 DEF vars, pcapVars, workerVars
    <2> QED  BY <1>3, <1>4, <2>1
<1> QED  BY <1>6, <1>7, <1>8, <1>9 DEF Next, Down

\* The rows are those of the source that the raw packets are of.
LEMMA RowsAreOwned ==
    ASSUME TypeInv, NEW s, OwnedBy(s)
    PROVE  \A p \in vec : p.src = s
<1>1. CASE queue = <<>>
    <2>1. At(s) \in PC
        BY WaitTypes DEF At, PC, Idle
    <2> QED  BY <1>1, <2>1 DEF OwnedBy, EmptyAt, AllRun, Clean, Level, Half, InStep, Owned, PC,
            Posting, Idle
<1>2. CASE queue # <<>>
    <2>1. 1 \in 1..Len(queue)
        BY <1>2, WaitTypes
    <2>2. queue[1].call \in Calls
        BY <2>1, WaitTypes
    <2> QED  BY <1>2, <2>2 DEF OwnedBy, BeginsAt, Ready, Clean, Level, Half, InStep, Owned, Calls
<1> QED  BY <1>1, <1>2

\* The detail page is opened for a row of the one source there is, so the number
\* leads to its own raw packet, and no call changes what the page shows.
LEMMA DetailStep ==
    ASSUME TypeInv, Owner, DetailIsOwn, [Next]_vars
    PROVE  DetailIsOwn'
<1>1. PICK s \in Sources \cup {NULL} : OwnedBy(s)
    BY DEF Owner
<1>2. vec \subseteq Packet /\ vec_dump \in Seq(Packet)
    BY DEF TypeInv, TypeOK
<1>3. ASSUME NEW p \in vec PROVE Lookup(p.num) \in {p, NoPacket}
    <2>1. CASE LastMatch(p.num) = {}
        BY <2>1 DEF Lookup
    <2>2. CASE LastMatch(p.num) # {}
        <3>1. \E j : j \in LastMatch(p.num) /\ Lookup(p.num) = vec_dump[j]
            BY <2>2 DEF Lookup
        <3>2. PICK i \in 1..Len(vec_dump) : vec_dump[i].num = p.num /\ Lookup(p.num) = vec_dump[i]
            BY <3>1 DEF LastMatch
        <3>3. vec_dump[i].src = s
            <4>1. vec_dump[i] = [src |-> s, num |-> i - 1]
                BY <1>1 DEF OwnedBy, DumpsAre
            <4> QED  BY <4>1
        <3>4. p.src = s
            BY <1>1, RowsAreOwned
        <3>5. vec_dump[i] \in Packet /\ p \in Packet
            BY <1>2, ElementOfSeq
        <3> QED  BY <3>2, <3>3, <3>4, <3>5 DEF Packet
    <2> QED  BY <2>1, <2>2
<1>4. CASE \E p \in vec : DoubleClick(p)
    BY <1>3, <1>4 DEF DoubleClick, DetailIsOwn
<1>5. CASE UNCHANGED <<view, detail>> \/ view' # "pkt"
    BY <1>5 DEF DetailIsOwn
<1>6. CASE ~\E p \in vec : DoubleClick(p)
    <2>1. CASE Deliver \/ (\E w \in Sources : WorkerStep(w)) \/ UNCHANGED vars
        <3>1. UNCHANGED viewVars
            BY <2>1 DEF Deliver, set_wk_pp, clear_wk_pp, set_wk_life, set_wk_flag, update_md,
                dump_push_back, quit, WorkerStep, Opens, OpenFails, OpenSucceeds, Filters,
                EnterLoop, FilterRejected, Receive, Loops, TestFlag, ReadNothing, LoopError, Close,
                Post, PostCall, vars
        <3> QED  BY <1>5, <3>1 DEF viewVars
    <2>2. CASE UserStep
        <3>1. UNCHANGED <<view, detail>> \/ view' # "pkt"
            BY <1>6, <2>2 DEF UserStep, OpenNic, FileUnreadable, CaptureViewOpens,
                StartWithoutNic, Stop, Reset, Back, OpenSave, save_md, PktBack, create_Th,
                pcapFile_Read, viewVars
        <3> QED  BY <1>5, <3>1
    <2> QED  BY <2>1, <2>2 DEF Next, Down
<1> QED  BY <1>4, <1>6

-----------------------------------------------------------------------------
LEMMA WaitInit == Init => WaitInv
<1> SUFFICES ASSUME Init PROVE WaitInv
    OBVIOUS
<1>1. Len(queue) = 0 /\ Len(vec_dump) = 0
    BY EmptySeq DEF Init
<1>2. At(NULL) = "unused"
    BY PacketTypes DEF At
<1>3. InStep(NULL)
    BY <1>1, OwnedGrows DEF Init, InStep
<1>4. OwnedBy(NULL)
    <2>1. OnlyOwner(NULL) /\ DumpsAre(NULL) /\ Chain
        <3>1. \A w \in Sources : ~Alive(w)
            BY DEF Init, Alive, Idle
        <3> QED  BY <1>1, <3>1 DEF OnlyOwner, DumpsAre, Chain
    <2>2. EndsAt(NULL) /\ BeginsAt(NULL)
        BY DEF Init, EndsAt, BeginsAt
    <2>3. EmptyAt(NULL)
        BY <1>2, <1>3 DEF Init, EmptyAt, AllRun, Idle
    <2> QED  BY <2>1, <2>2, <2>3 DEF OwnedBy
<1>5. EarlyIsZero /\ NicIsEmpty /\ StopNoted /\ DetailIsOwn
    BY DEF Init, EarlyIsZero, NicIsEmpty, NoneAlive, Alive, Idle, StopNoted, DetailIsOwn
<1> QED  BY <1>4, <1>5 DEF WaitInv, Owner

LEMMA WaitStep ==
    WaitsForWorker /\ TypeInv /\ HandleInv /\ WaitInv /\ [Next]_vars => WaitInv'
BY EarlyStep, OwnerStep, NicStep, StopStep, DetailStep DEF WaitInv

LEMMA WaitingInv == WaitsForWorker /\ Spec => [](TypeInv /\ HandleInv /\ WaitInv)
<1>1. Init => TypeInv /\ HandleInv /\ WaitInv
    BY TypeInit, HandleInit, WaitInit
<1>2. WaitsForWorker /\ TypeInv /\ HandleInv /\ WaitInv /\ [Next]_vars
        => (TypeInv /\ HandleInv /\ WaitInv)'
    BY TypeStep, HandleStep, WaitStep
<1> SUFFICES ASSUME WaitsForWorker PROVE Spec => [](TypeInv /\ HandleInv /\ WaitInv)
    OBVIOUS
<1>3. TypeInv /\ HandleInv /\ WaitInv /\ [Next]_vars => (TypeInv /\ HandleInv /\ WaitInv)'
    BY <1>2
<1> QED  BY <1>1, <1>3, PTL DEF Spec

\* The detail page (PktView, start_tree_md, start_hax) never shows the raw packet
\* of another row to a user who waits for the worker.
THEOREM DetailStaysOwn == WaitsForWorker /\ Spec => []DetailIsOwn
<1>1. WaitInv => DetailIsOwn
    BY DEF WaitInv
<1> QED  BY <1>1, WaitingInv, PTL

\* While the Save button is enabled (stop_flag and not wk_flag), the worker, if
\* there is one, was stopped or has left its loop (stop_Th, create_Th).
THEOREM SaveStaysStopped == WaitsForWorker /\ Spec => []SaveMeansStopped
<1>1. WaitInv => SaveMeansStopped
    BY DEF WaitInv, StopNoted, SaveMeansStopped, SaveEnabled
<1> QED  BY <1>1, WaitingInv, PTL

\* A saved file (save_md) holds the packets of one capture or file, from its
\* first on, whatever was run while the dialog was open.
THEOREM SavesOneCapture == WaitsForWorker /\ Spec => SavedIsOneCapture
<1>1. TypeInv /\ WaitInv =>
        \A i \in 1..Len(Written) : Written[i] = [src |-> Written[1].src, num |-> i - 1]
    <2> SUFFICES ASSUME TypeInv, WaitInv, NEW i \in 1..Len(Written)
                 PROVE  Written[i] = [src |-> Written[1].src, num |-> i - 1]
        OBVIOUS
    <2>1. Written = vec_dump /\ 1 \in 1..Len(vec_dump)
        BY WaitTypes, EmptySeq DEF Written
    <2>2. PICK s \in Sources \cup {NULL} : DumpsAre(s)
        BY DEF WaitInv, Owner, OwnedBy
    <2>3. vec_dump[1] = [src |-> s, num |-> 1 - 1] /\ vec_dump[i] = [src |-> s, num |-> i - 1]
        BY <2>1, <2>2 DEF DumpsAre
    <2> QED  BY <2>1, <2>3
<1>2. TypeInv /\ WaitInv /\ [Next]_vars =>
        [saveDia /\ ~saveDia' =>
            \A i \in 1..Len(Written) :
                Written[i] = [src |-> Written[1].src, num |-> i - 1]]_vars
    BY <1>1
<1> QED  BY <1>2, WaitingInv, PTL DEF Spec, SavedIsOneCapture

-----------------------------------------------------------------------------
(***************************************************************************)
(* The refinement: the numbers in the table and of the raw packets are a   *)
(* log.  update_md is Show, dump_push_back Store, a file that is read Load *)
(* and reset_md Discard; a new capture finds the lists equally long.       *)
(***************************************************************************)
rowsOf == {p.num : p \in vec}
dumpsOf == [i \in 1..Len(vec_dump) |-> vec_dump[i].num]

\* The numbers of the rows below n.
LEMMA NumbersOfOwned ==
    ASSUME NEW s \in Sources, NEW n \in Nat
    PROVE  {p.num : p \in Owned(s, n)} = 0..(n - 1)
<1>1. ASSUME NEW k \in {p.num : p \in Owned(s, n)} PROVE k \in 0..(n - 1)
    BY <1>1 DEF Owned, Packet
<1>2. ASSUME NEW k \in 0..(n - 1) PROVE k \in {p.num : p \in Owned(s, n)}
    <2>1. [src |-> s, num |-> k] \in Owned(s, n)
        BY <1>2 DEF Owned, Packet
    <2> QED  BY <2>1
<1> QED  BY <1>1, <1>2

LEMMA DumpsOfTypes ==
    ASSUME TypeInv
    PROVE  Len(dumpsOf) = Len(vec_dump) /\ Len(vec_dump) \in Nat
           /\ dumpsOf \in Seq(Nat) /\ (vec_dump = <<>> => dumpsOf = <<>>)
<1>1. Len(vec_dump) \in Nat /\ \A i \in 1..Len(vec_dump) : vec_dump[i].num \in Nat
    BY WaitTypes, ElementOfSeq, PacketTypes
<1>2. dumpsOf \in [1..Len(vec_dump) -> Nat]
    BY <1>1 DEF dumpsOf
<1>3. dumpsOf \in Seq(Nat) /\ Len(dumpsOf) = Len(vec_dump)
    BY <1>1, <1>2
<1> QED  BY <1>1, <1>3, EmptySeq

\* Rows and raw packets equally long, as PacketLog sees them.
LEMMA LogInStep ==
    ASSUME TypeInv, NEW s \in Sources \cup {NULL}, OwnedBy(s), InStep(s)
    PROVE  Log!InStep
<1>1. CASE s \in Sources
    BY <1>1, DumpsOfTypes, NumbersOfOwned DEF InStep, Log!InStep, Log!Upto, dumpsOf, rowsOf
<1>2. CASE s = NULL
    <2>1. vec = {}
        BY <1>2, PacketTypes DEF InStep, Owned
    <2>2. Len(vec_dump) = 0
        <3> SUFFICES ASSUME 1 \in 1..Len(vec_dump) PROVE FALSE
            BY WaitTypes
        <3>1. vec_dump[1] = [src |-> NULL, num |-> 1 - 1]
            BY <1>2 DEF OwnedBy, DumpsAre
        <3>2. vec_dump[1] \in Packet
            BY WaitTypes, ElementOfSeq
        <3> QED  BY <3>1, <3>2, PacketTypes
    <2>3. Len(dumpsOf) = 0
        BY <2>2, DumpsOfTypes
    <2> QED  BY <2>1, <2>3 DEF Log!InStep, Log!Upto, dumpsOf
<1> QED  BY <1>1, <1>2

\* While wk_life is false the lists are equally long.
LEMMA LifelessInStep ==
    ASSUME TypeInv, NEW s, OwnedBy(s), ~wk_life
    PROVE  InStep(s)
<1>1. Clean => InStep(s)
    BY EmptySeq, OwnedGrows DEF Clean, InStep
<1>2. CASE queue = <<>>
    <2>1. At(s) \in PC
        BY WaitTypes DEF At, PC, Idle
    <2> QED  BY <1>1, <1>2, <2>1 DEF OwnedBy, EmptyAt, AllRun, Level, Half, PC, Posting, Idle
<1>3. CASE queue # <<>>
    <2>1. 1 \in 1..Len(queue)
        BY <1>3, WaitTypes
    <2>2. queue[1].call \in Calls
        BY <2>1, WaitTypes
    <2> QED  BY <1>1, <1>3, <2>2 DEF OwnedBy, BeginsAt, Ready, Level, Half, Calls
<1> QED  BY <1>2, <1>3

LogNext == Log!Show \/ Log!Store \/ Log!Load \/ Log!Discard

LEMMA LogShow ==
    ASSUME TypeInv, NEW s \in Sources \cup {NULL}, OwnedBy(s), update_md
    PROVE  Log!Show
<1>1. queue # <<>> /\ Head(queue) = queue[1] /\ Head(queue).call = "update_md"
      /\ 1 \in 1..Len(queue) /\ queue \in Seq(Event)
    BY WaitTypes, TailOfQueue DEF update_md, Run
<1>2. PICK n \in Nat : n = queue[1].num
    BY <1>1, WaitTypes
<1>3. s \in Sources /\ HeadPacket = [src |-> s, num |-> n] /\ Level(s, n)
    BY <1>1, <1>2 DEF OwnedBy, OnlyOwner, EndsAt, BeginsAt, Ready, HeadPacket
<1>4. vec' = Owned(s, n + 1) /\ vec_dump' = vec_dump /\ Len(vec_dump) = n /\ InStep(s)
    BY <1>3, OwnedGrows DEF update_md, Level, InStep
<1>5. Log!InStep
    BY <1>4, LogInStep
<1>6. {p.num : p \in vec'} = 0..(n + 1 - 1)
    BY <1>3, <1>4, NumbersOfOwned
<1>7. Len(dumpsOf) = n
    BY <1>4, DumpsOfTypes
<1> QED  BY <1>4, <1>5, <1>6, <1>7 DEF Log!Show, Log!Upto, dumpsOf

LEMMA LogStore ==
    ASSUME TypeInv, NEW s \in Sources \cup {NULL}, OwnedBy(s), dump_push_back
    PROVE  Log!Store
<1>1. queue # <<>> /\ Head(queue) = queue[1] /\ Head(queue).call = "dump_push_back"
      /\ 1 \in 1..Len(queue) /\ queue \in Seq(Event)
    BY WaitTypes, TailOfQueue DEF dump_push_back, Run
<1>2. PICK n \in Nat : n = queue[1].num
    BY <1>1, WaitTypes
<1>3. s \in Sources /\ HeadPacket = [src |-> s, num |-> n] /\ Half(s, n)
    BY <1>1, <1>2 DEF OwnedBy, OnlyOwner, EndsAt, BeginsAt, Ready, HeadPacket
<1>4. /\ vec' = vec /\ vec_dump' = Append(vec_dump, [src |-> s, num |-> n])
      /\ Len(vec_dump) = n /\ vec = Owned(s, n + 1)
    BY <1>3 DEF dump_push_back, Half
<1>5. vec_dump \in Seq(Packet) /\ [src |-> s, num |-> n] \in Packet
    BY <1>3, WaitTypes, PacketTypes
<1>6. /\ Len(vec_dump') = n + 1 /\ vec_dump'[n + 1] = [src |-> s, num |-> n]
      /\ \A i \in 1..n : vec_dump'[i] = vec_dump[i]
    BY <1>4, <1>5, AppendToQueue
<1>7. rowsOf = 0..(n + 1 - 1) /\ Len(dumpsOf) = n /\ dumpsOf \in Seq(Nat)
    BY <1>3, <1>4, NumbersOfOwned, DumpsOfTypes DEF rowsOf
<1>8. [i \in 1..Len(vec_dump') |-> vec_dump'[i].num] = Append(dumpsOf, n)
    <2>1. /\ Append(dumpsOf, n) \in Seq(Nat) /\ Len(Append(dumpsOf, n)) = n + 1
          /\ \A i \in 1..n : Append(dumpsOf, n)[i] = dumpsOf[i]
          /\ Append(dumpsOf, n)[n + 1] = n
        BY <1>7, AppendToQueue
    <2>2. \A i \in 1..(n + 1) : Append(dumpsOf, n)[i] = vec_dump'[i].num
        <3> SUFFICES ASSUME NEW i \in 1..(n + 1)
                     PROVE  Append(dumpsOf, n)[i] = vec_dump'[i].num
            OBVIOUS
        <3>1. CASE i \in 1..n
            BY <1>4, <1>6, <2>1, <3>1 DEF dumpsOf
        <3>2. CASE i = n + 1
            BY <1>6, <2>1, <3>2
        <3>3. i \in 1..n \/ i = n + 1
            BY <1>2
        <3> QED  BY <3>1, <3>2, <3>3
    <2>3. Append(dumpsOf, n) = [i \in 1..(n + 1) |-> Append(dumpsOf, n)[i]]
        <3>1. Append(dumpsOf, n) \in [1..(n + 1) -> Nat]
            BY <2>1, LenProperties
        <3> QED  BY <3>1
    <2> QED  BY <1>6, <2>2, <2>3
<1> QED  BY <1>4, <1>7, <1>8 DEF Log!Store, Log!Upto, rowsOf, dumpsOf

LEMMA LogDiscard ==
    ASSUME TypeInv, NEW s \in Sources \cup {NULL}, OwnedBy(s), InStep(s), Clear
    PROVE  Log!Discard
<1>1. Log!InStep
    BY LogInStep
<1>2. vec' = {} /\ vec_dump' = <<>> /\ Len(vec_dump') = 0
    BY EmptySeq DEF Clear
<1>3. {p.num : p \in vec'} = {}
    BY <1>2
<1>4. [i \in 1..Len(vec_dump') |-> vec_dump'[i].num] = <<>>
    BY <1>2
<1> QED  BY <1>1, <1>3, <1>4 DEF Log!Discard

LEMMA LogLoad ==
    ASSUME TypeInv, NicIsEmpty, NEW s \in Sources, NEW k \in 0..MaxPkts, pcapFile_Read(s, k)
    PROVE  Log!Load
<1> DEFINE F == FilePackets(s, k)
<1>1. k \in Nat /\ F \in Seq(Packet) /\ Len(F) = k
    BY SourcesAssumption, FileTypes
<1>2. vec = {} /\ vec_dump = <<>>
    BY DEF pcapFile_Read, Input, NicIsEmpty
<1>3. vec' = {F[i] : i \in 1..k} /\ vec_dump' = <<>> \o F
    BY <1>2 DEF pcapFile_Read
<1>4. \A i \in 1..k : F[i].num = i - 1
    BY DEF FilePackets
<1> HIDE DEF F
<1>5. vec_dump' = F
    BY <1>1, <1>3, ConcatEmptySeq
<1>6. {p.num : p \in vec'} = 0..(k - 1)
    <2>1. ASSUME NEW n \in {p.num : p \in vec'} PROVE n \in 0..(k - 1)
        BY <1>1, <1>3, <1>4, <2>1
    <2>2. ASSUME NEW n \in 0..(k - 1) PROVE n \in {p.num : p \in vec'}
        <3>1. PICK i \in 1..k : i = n + 1
            BY <1>1, <2>2
        <3>2. F[i].num = n /\ F[i] \in vec'
            BY <1>3, <1>4, <2>2, <3>1
        <3> QED  BY <3>2
    <2> QED  BY <2>1, <2>2
<1>7. [i \in 1..Len(vec_dump') |-> vec_dump'[i].num] = [i \in 1..k |-> i - 1]
    BY <1>1, <1>4, <1>5
<1>8. Len([i \in 1..k |-> i - 1]) = k
    BY <1>1
<1>9. rowsOf = {} /\ dumpsOf = <<>>
    BY <1>2, DumpsOfTypes DEF rowsOf
<1> QED  BY <1>6, <1>7, <1>8, <1>9 DEF Log!Load, Log!Upto, rowsOf, dumpsOf

LEMMA LogStep ==
    ASSUME WaitsForWorker, TypeInv, WaitInv, [Next]_vars
    PROVE  LogNext \/ UNCHANGED <<vec, vec_dump>>
<1>1. PICK s \in Sources \cup {NULL} : OwnedBy(s)
    BY DEF WaitInv, Owner
<1>2. CASE Deliver
    <2>1. CASE update_md \/ dump_push_back
        BY <1>1, <2>1, LogShow, LogStore DEF LogNext
    <2>2. CASE ~(update_md \/ dump_push_back)
        BY <1>2, <2>2 DEF Deliver, set_wk_pp, clear_wk_pp, set_wk_life, set_wk_flag, quit,
            dataVars, pcapVars
    <2> QED  BY <2>1, <2>2
<1>3. CASE UserStep
    <2>1. ASSUME NEW w \in Sources, create_Th(w) PROVE LogNext
        <3>1. InStep(s) /\ Clear
            BY <1>1, <2>1, QuietAtRest DEF create_Th, MayProceed
        <3> QED  BY <1>1, <3>1, LogDiscard DEF LogNext
    <2>2. ASSUME NEW w \in Sources, NEW k \in 0..MaxPkts, pcapFile_Read(w, k) PROVE LogNext
        BY <2>2, LogLoad DEF WaitInv, LogNext
    <2>3. ASSUME reset_md PROVE LogNext \/ UNCHANGED <<vec, vec_dump>>
        <3>1. CASE wk_life
            BY <2>3, <3>1 DEF reset_md, dataVars
        <3>2. CASE ~wk_life
            <4>1. InStep(s) /\ Clear
                BY <1>1, <2>3, <3>2, LifelessInStep DEF reset_md
            <4> QED  BY <1>1, <4>1, LogDiscard DEF LogNext
        <3> QED  BY <3>1, <3>2
    <2> QED  BY <1>3, <2>1, <2>2, <2>3, UserMoves DEF dataVars
<1>4. ASSUME NEW w \in Sources, WorkerStep(w) PROVE UNCHANGED <<vec, vec_dump>>
    BY <1>4 DEF WorkerStep, Opens, OpenFails, OpenSucceeds, Filters, EnterLoop, FilterRejected,
        Receive, Loops, TestFlag, ReadNothing, LoopError, Close, Post, PostCall, pcapVars
<1>5. CASE UNCHANGED vars
    BY <1>5 DEF vars, pcapVars
<1> QED  BY <1>2, <1>3, <1>4, <1>5 DEF Next, Down

\* The rows and the raw packets, that the capture thread sends in two calls and
\* files, Reset, Start and Back change behind it, are one log (PacketLog): for
\* any number of captures and files, if the user waits for the worker.
THEOREM PacketsAreOneLog == WaitsForWorker /\ Spec => ImplementsPacketLog
<1>1. Init => Log!LogInit
    <2> SUFFICES ASSUME Init PROVE Log!LogInit
        OBVIOUS
    <2>1. vec = {} /\ Len(vec_dump) = 0
        BY EmptySeq DEF Init
    <2>2. [i \in 1..Len(vec_dump) |-> vec_dump[i].num] = <<>>
        BY <2>1
    <2> QED  BY <2>1, <2>2 DEF Log!LogInit
<1> SUFFICES ASSUME WaitsForWorker PROVE Spec => ImplementsPacketLog
    OBVIOUS
<1>2. TypeInv /\ WaitInv /\ [Next]_vars =>
        [Log!Show \/ Log!Store \/ Log!Load \/ Log!Discard]_(Log!logVars)
    <2>1. UNCHANGED <<vec, vec_dump>> => UNCHANGED Log!logVars
        BY DEF Log!logVars
    <2> QED  BY <2>1, LogStep DEF LogNext
<1> QED  BY <1>1, <1>2, WaitingInv, PTL DEF Spec, ImplementsPacketLog, Log!LogSpec
=============================================================================
