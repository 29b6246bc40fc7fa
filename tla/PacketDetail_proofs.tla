-------------------------- MODULE PacketDetail_proofs --------------------------
(***************************************************************************)
(* Proofs about PacketDetail, for all frames and any number of them, rows, *)
(* files and pages: the page that a row opens is of the packet of the row, *)
(* shows its numbers and all its bytes, reads no TCP header byte that was  *)
(* not captured, and stands on a tree in which every parent and child      *)
(* agree and of which nothing is left when the next one replaces it; a     *)
(* saved session that is opened again is the session.                      *)
(*                                                                         *)
(* The inductive invariant is IInv.  Its parts: LogInv, what is stored;    *)
(* ShownInv and PageInv, what is shown; TreeInv, the tree is the one that  *)
(* the last call built, and nothing else; FileInv, every frame of a saved  *)
(* file gets a row; TypesInv.                                              *)
(***************************************************************************)
EXTENDS PacketDetail, FiniteSetTheorems, WellFoundedInduction, TLAPS

Dumps == [num : Nat, frame : Frames]

\* r is the row that a packet with number n and frame f gets.
IsRow(r, n, f) == r = my_packet_handler(n, f) /\ r.proto # "none"

LEMMA FramesAreFrames ==
    ASSUME NEW f \in Frames
    PROVE  /\ f # NoFrame
           /\ f.caplen \in Nat /\ f.ihl \in Nat /\ f.doff \in Nat
           /\ f.ihl <= 15 /\ f.doff <= 15 /\ f.p \in Fields
<1>1. f \in [caplen : Nat, ipv4 : BOOLEAN, ihl : 0..15, protocol : 0..255,
             doff : 0..15, p : Fields]
  BY FramesAssumption
<1>2. DOMAIN f = {"caplen", "ipv4", "ihl", "protocol", "doff", "p"}
  BY <1>1
<1>3. DOMAIN NoFrame = {"caplen"}
  BY DEF NoFrame
<1>4. f # NoFrame
  BY <1>2, <1>3
<1> QED
  BY <1>1, <1>4

-----------------------------------------------------------------------------
(***************************************************************************)
(* What the two places where a packet is read have in common.              *)
(***************************************************************************)
LEMMA Short16 ==
    ASSUME NEW x \in Short
    PROVE  ntohs(x) \in Nat /\ ntohs(x) < 65536
<1>1. x[1] \in Nat /\ x[1] <= 255 /\ x[2] \in Nat /\ x[2] <= 255
  BY DEF Short
<1>2. \A a, b \in Nat : a <= 255 /\ b <= 255 => 256 * a + b \in Nat /\ 256 * a + b < 65536
  OBVIOUS
<1> QED
  BY <1>1, <1>2 DEF ntohs

\* The detour over unsigned int changes nothing, also when the result is negative.
LEMMA SignedIsExact ==
    ASSUME NEW n \in Int, -65656 < n, n < 65656
    PROVE  Signed(n) = n
<1>1. PICK h \in Nat : UInt = 2 * h /\ UInt \div 2 = h /\ h > 65656
  <2>1. UInt \in Nat /\ UInt % 2 = 0 /\ UInt \div 2 > 65656
    BY UIntAssumption
  <2>2. PICK h : h = UInt \div 2
    OBVIOUS
  <2>3. h \in Nat /\ UInt = 2 * h /\ h > 65656
    BY <2>1, <2>2
  <2> QED
    BY <2>2, <2>3
<1>2. CASE n >= 0
  <2>1. n % UInt = n
    BY <1>1, <1>2
  <2> QED
    BY <1>1, <2>1 DEF Signed
<1>3. CASE n < 0
  <2>1. n % UInt = n + UInt
    BY <1>1, <1>3
  <2> QED
    BY <1>1, <1>3, <2>1 DEF Signed
<1> QED
  BY <1>2, <1>3

LEMMA TcpLengthsAgree ==
    ASSUME NEW f \in Frames
    PROVE  RowTcpLen(f.p, f.ihl, f.doff) = PageTcpLen(f.p, f.ihl, f.doff)
<1>1. f.p.tot_len \in Short
  BY FramesAreFrames DEF Fields
<1>2. /\ ntohs(f.p.tot_len) \in Nat /\ ntohs(f.p.tot_len) < 65536
      /\ f.ihl \in Nat /\ f.doff \in Nat /\ f.ihl <= 15 /\ f.doff <= 15
  BY <1>1, Short16, FramesAreFrames
<1>3. PageTcpLen(f.p, f.ihl, f.doff) \in Int
        /\ -65656 < PageTcpLen(f.p, f.ihl, f.doff) /\ PageTcpLen(f.p, f.ihl, f.doff) < 65656
  BY <1>2 DEF PageTcpLen
<1> QED
  BY <1>3, SignedIsExact DEF RowTcpLen, PageTcpLen

\* The protocol that a row shows is the one that the packet has.
LEMMA RowProtocols ==
    ASSUME NEW f \in Frames, NEW n, NEW r, IsRow(r, n, f)
    PROVE  /\ HasIp(f)
           /\ r.proto = "TCP" => f.protocol = 6 /\ HasTcp(f)
           /\ r.proto = "UDP" => f.protocol = 17
           /\ r.proto = "ICMP" => f.protocol = 1
           /\ f.protocol = 6 => r.proto = "TCP"
           /\ r.len = RowLen(f.p)
           /\ r.info = Info(f.p, f.ihl, f.doff, r.proto)
BY DEF IsRow, my_packet_handler, Protocol, Row

\* The parsers and start_tree_md, which lie 800 lines apart, agree on the length
\* of the headers: if the row was made, the bytes are there.
LEMMA ParserCoversTree ==
    ASSUME NEW f \in Frames, NEW n, NEW r, IsRow(r, n, f), f.protocol = 6
    PROVE  ReadTo(f) <= f.caplen
<1>1. HasTcp(f)
  BY RowProtocols
<1>2. f.caplen >= E_H + 4 * f.ihl + TCP_H
  BY <1>1 DEF HasTcp
<1>3. ReadTo(f) = E_H + 4 * f.ihl + TCP_H
  BY DEF ReadTo
<1> QED
  BY <1>2, <1>3, FramesAreFrames DEF E_H, TCP_H

\* The row of a frame and the values on its page tell the same.
LEMMA RowMatchesText ==
    ASSUME NEW f \in Frames, NEW n, NEW r, IsRow(r, n, f)
    PROVE  LET shown == TreeText(f).transport
           IN  /\ r.len = TreeText(f).ip.total + E_H
               /\ r.proto \in {"TCP", "UDP"} => r.info.ports = shown.ports
               /\ r.proto = "TCP" =>
                    r.info.len = shown.len /\ r.info.flags = shown.names \ {"ECE", "CWR"}
               /\ r.proto = "UDP" => r.info.len = shown.len - 8
               /\ r.proto = "ICMP" => r.info.type = shown.type
<1>1. r.len = TreeText(f).ip.total + E_H
  BY RowProtocols DEF TreeText, IpPage, RowLen
<1>2. TreeText(f).transport = TransportPage(f.p, f.ihl, f.doff, f.protocol)
  BY DEF TreeText
<1>3. CASE r.proto = "TCP"
  <2>1. f.protocol = 6 /\ r.info = Info(f.p, f.ihl, f.doff, "TCP")
    BY <1>3, RowProtocols
  <2>2. /\ r.info.ports = Ports(f.p) /\ r.info.flags = f.p.flags \cap RowFlags
        /\ r.info.len = RowTcpLen(f.p, f.ihl, f.doff)
    BY <2>1 DEF Info
  <2>3. /\ TreeText(f).transport.ports = Ports(f.p)
        /\ TreeText(f).transport.names = f.p.flags
        /\ TreeText(f).transport.len = PageTcpLen(f.p, f.ihl, f.doff)
    BY <1>2, <2>1 DEF TransportPage
  <2>4. f.p.flags \cap RowFlags = f.p.flags \ {"ECE", "CWR"}
    <3>1. f.p.flags \subseteq TcpFlags
      BY FramesAreFrames DEF Fields
    <3> QED
      BY <3>1 DEF TcpFlags, RowFlags
  <2> QED
    BY <1>1, <1>3, <2>2, <2>3, <2>4, TcpLengthsAgree
<1>4. CASE r.proto = "UDP"
  <2>1. f.protocol = 17 /\ r.info = Info(f.p, f.ihl, f.doff, "UDP")
    BY <1>4, RowProtocols
  <2>2. r.info.ports = Ports(f.p) /\ r.info.len = ntohs(f.p.len) - 8
    BY <2>1 DEF Info
  <2>3. TreeText(f).transport.ports = Ports(f.p) /\ TreeText(f).transport.len = ntohs(f.p.len)
    BY <1>2, <2>1 DEF TransportPage
  <2> QED
    BY <1>1, <1>4, <2>2, <2>3
<1>5. CASE r.proto = "ICMP"
  <2>1. f.protocol = 1 /\ r.info = Info(f.p, f.ihl, f.doff, "ICMP")
    BY <1>5, RowProtocols
  <2>2. r.info.type = IcmpType(f.p)
    BY <2>1 DEF Info
  <2>3. TreeText(f).transport.type = IcmpType(f.p)
    BY <1>2, <2>1 DEF TransportPage
  <2> QED
    BY <1>1, <1>5, <2>2, <2>3
<1>6. r.proto \in {"TCP", "UDP", "ICMP"}
  BY DEF IsRow, my_packet_handler, Protocol, Row
<1> QED
  BY <1>3, <1>4, <1>5, <1>6

-----------------------------------------------------------------------------
(***************************************************************************)
(* What is stored.  The packet at place i has number i - 1 and stands      *)
(* behind its row; a queued call is for the last row.                      *)
(***************************************************************************)
Rows == {my_packet_handler(n, f) : n \in Nat, f \in Frames}

LogTypes ==
    /\ num = 0 /\ wk_num \in Nat
    /\ vec \in Seq(Rows) /\ vec_dump \in Seq(Dumps) /\ posted \in Dumps \cup {NoDump}

Counted ==
    /\ wk_life => wk_num = Len(vec)
    /\ posted = NoDump => Len(vec) = Len(vec_dump)
    /\ posted # NoDump => /\ wk_life /\ Len(vec) = Len(vec_dump) + 1
                          /\ posted.num = Len(vec_dump)
                          /\ IsRow(vec[Len(vec)], posted.num, posted.frame)
    /\ page = "nic" => ~wk_life /\ vec = <<>>

InPlace ==
    \A i \in 1..Len(vec_dump) :
        vec_dump[i].num = i - 1 /\ IsRow(vec[i], i - 1, vec_dump[i].frame)

LogInv == LogTypes /\ Counted /\ InPlace

LEMMA RowNumber ==
    ASSUME NEW r, NEW n, NEW f, IsRow(r, n, f)
    PROVE  r.num = n
BY DEF IsRow, my_packet_handler, Row

LEMMA LogInit == Init => LogInv
BY DEF Init, LogInv, LogTypes, Counted, InPlace

LEMMA NoDumpIsNone ==
    ASSUME NEW d \in Dumps
    PROVE  d # NoDump
BY FramesAreFrames DEF Dumps, NoDump

\* Two copies of one parser.
LEMMA SameParser ==
    ASSUME NEW n, NEW f
    PROVE  packet_func(n, f) = my_packet_handler(n, f)
BY DEF packet_func, my_packet_handler

LEMMA LogUpdate ==
    ASSUME LogInv, NEW f \in Frames, update_md(f)
    PROVE  LogInv'
<1> DEFINE r == my_packet_handler(wk_num, f)
<1>1. /\ wk_life /\ posted = NoDump /\ r.proto # "none"
      /\ vec' = Append(vec, r) /\ posted' = [num |-> wk_num, frame |-> f]
      /\ wk_num' = wk_num + 1
      /\ num' = num /\ vec_dump' = vec_dump /\ page' = page /\ wk_life' = wk_life
  BY DEF update_md
<1>2. /\ vec \in Seq(Rows) /\ wk_num \in Nat /\ wk_num = Len(vec) /\ Len(vec) = Len(vec_dump)
      /\ vec_dump \in Seq(Dumps)
  BY <1>1 DEF LogInv, LogTypes, Counted
<1>3. r \in Rows /\ IsRow(r, wk_num, f)
  BY <1>1, <1>2 DEF Rows, IsRow
<1> HIDE DEF r
<1>4. posted' \in Dumps /\ posted' # NoDump /\ posted'.num = wk_num /\ posted'.frame = f
  BY <1>1, <1>2, NoDumpIsNone DEF Dumps
<1>5. /\ vec' \in Seq(Rows) /\ Len(vec') = Len(vec) + 1 /\ vec'[Len(vec')] = r
      /\ \A i \in 1..Len(vec) : vec'[i] = vec[i]
  BY <1>1, <1>2, <1>3
<1>6. LogTypes'
  BY <1>1, <1>2, <1>4, <1>5 DEF LogInv, LogTypes
<1>7. Counted'
  <2>1. page # "nic"
    BY <1>1 DEF LogInv, Counted
  <2> QED
    BY <1>1, <1>2, <1>3, <1>4, <1>5, <2>1 DEF Counted
<1>8. InPlace'
  BY <1>1, <1>2, <1>5 DEF LogInv, InPlace
<1> QED
  BY <1>6, <1>7, <1>8 DEF LogInv

LEMMA LogStore ==
    ASSUME LogInv, dump_push_back
    PROVE  LogInv'
<1>1. /\ posted # NoDump /\ vec_dump' = Append(vec_dump, posted) /\ posted' = NoDump
      /\ UNCHANGED <<page, wk_life, wk_num, num, vec>>
  BY DEF dump_push_back, workerVars
<1>2. /\ posted \in Dumps /\ vec_dump \in Seq(Dumps) /\ wk_life
      /\ Len(vec) = Len(vec_dump) + 1 /\ posted.num = Len(vec_dump)
      /\ IsRow(vec[Len(vec)], posted.num, posted.frame)
  BY <1>1 DEF LogInv, LogTypes, Counted
<1>3. /\ vec_dump' \in Seq(Dumps) /\ Len(vec_dump') = Len(vec_dump) + 1
      /\ \A i \in 1..Len(vec_dump) : vec_dump'[i] = vec_dump[i]
      /\ vec_dump'[Len(vec_dump')] = posted
  BY <1>1, <1>2
<1>4. LogTypes'
  BY <1>1, <1>3 DEF LogInv, LogTypes
<1>5. Counted'
  BY <1>1, <1>2, <1>3 DEF LogInv, Counted
<1>6. InPlace'
  <2> SUFFICES ASSUME NEW i \in 1..Len(vec_dump')
               PROVE  vec_dump'[i].num = i - 1 /\ IsRow(vec[i], i - 1, vec_dump'[i].frame)
    BY <1>1 DEF InPlace, IsRow, my_packet_handler, Row
  <2>1. CASE i \in 1..Len(vec_dump)
    BY <1>3, <2>1 DEF LogInv, InPlace
  <2>2. CASE i = Len(vec_dump')
    BY <1>2, <1>3, <2>2
  <2> QED
    BY <1>2, <1>3, <2>1, <2>2
<1> QED
  BY <1>4, <1>5, <1>6 DEF LogInv

LEMMA LogCleared ==
    ASSUME LogInv, Clear, ~wk_life, num' = num, wk_num' \in Nat, posted' = posted,
           wk_life' => wk_num' = 0, page' = "nic" => ~wk_life'
    PROVE  LogInv'
<1>1. posted = NoDump
  BY DEF LogInv, Counted
<1> QED
  BY <1>1 DEF LogInv, LogTypes, Counted, InPlace, Clear

\* The frames kept of a file are frames of the file that get a row.
LEMMA LogRead ==
    ASSUME LogInv, NEW fs \in Seq(Frames), pcapFile_Read(fs)
    PROVE  LogInv'
<1> DEFINE n == Cardinality(Rowed(fs))
<1>1. n \in Nat
  <2>1. IsFiniteSet(1..Len(fs))
    BY FS_Interval
  <2>2. Rowed(fs) \subseteq 1..Len(fs)
    BY DEF Rowed
  <2> QED
    BY <2>1, <2>2, FS_Subset, FS_CardinalityType
<1>2. /\ page = "nic" /\ page' = "capture" /\ num' = 0 /\ num = 0
      /\ wk_num' = wk_num /\ wk_life' = wk_life /\ posted' = posted
  BY DEF pcapFile_Read, workerVars, LogInv, LogTypes
<1>3. vec = <<>> /\ vec_dump = <<>> /\ posted = NoDump /\ ~wk_life
  <2>1. vec = <<>> /\ ~wk_life /\ posted = NoDump /\ Len(vec_dump) = 0
    BY <1>2 DEF LogInv, Counted
  <2> QED
    BY <2>1 DEF LogInv, LogTypes
<1>4. PICK at \in [1..n -> Rowed(fs)] :
        /\ vec_dump' = vec_dump \o
             [i \in DOMAIN at |-> [num |-> num + (i - 1), frame |-> fs[at[i]]]]
        /\ vec' = vec \o [i \in DOMAIN at |-> packet_func(num + (i - 1), fs[at[i]])]
  BY DEF pcapFile_Read
<1> DEFINE D == [i \in 1..n |-> [num |-> i - 1, frame |-> fs[at[i]]]]
           V == [i \in 1..n |-> my_packet_handler(i - 1, fs[at[i]])]
<1>5. \A i \in 1..n : fs[at[i]] \in Frames /\ my_packet_handler(i - 1, fs[at[i]]).proto # "none"
  <2> SUFFICES ASSUME NEW i \in 1..n
               PROVE  fs[at[i]] \in Frames /\ my_packet_handler(i - 1, fs[at[i]]).proto # "none"
    OBVIOUS
  <2>1. at[i] \in 1..Len(fs) /\ packet_func(num, fs[at[i]]).proto # "none"
    BY DEF Rowed
  <2>2. \A k, l : packet_func(k, fs[at[i]]).proto = my_packet_handler(l, fs[at[i]]).proto
    BY DEF packet_func, my_packet_handler, Row
  <2> QED
    BY <2>1, <2>2
<1> HIDE DEF n
<1>6. D \in Seq(Dumps) /\ V \in Seq(Rows) /\ Len(D) = n /\ Len(V) = n
  <2> DEFINE Fr(i) == fs[at[i]]
  <2>1. \A i \in 1..n : /\ [num |-> i - 1, frame |-> Fr(i)] \in Dumps
                        /\ my_packet_handler(i - 1, Fr(i)) \in Rows
    <3> SUFFICES ASSUME NEW i \in 1..n
                 PROVE  /\ [num |-> i - 1, frame |-> Fr(i)] \in Dumps
                        /\ my_packet_handler(i - 1, Fr(i)) \in Rows
      OBVIOUS
    <3>1. Fr(i) \in Frames /\ i - 1 \in Nat
      BY <1>1, <1>5
    <3> HIDE DEF Fr
    <3> QED
      BY <3>1 DEF Dumps, Rows
  <2>2. /\ D = [i \in 1..n |-> [num |-> i - 1, frame |-> Fr(i)]]
        /\ V = [i \in 1..n |-> my_packet_handler(i - 1, Fr(i))]
    OBVIOUS
  <2> HIDE DEF D, V, Fr
  <2>3. D \in Seq(Dumps) /\ Len(D) = n
    BY <1>1, <2>1, <2>2
  <2>4. V \in Seq(Rows) /\ Len(V) = n
    BY <1>1, <2>1, <2>2
  <2> QED
    BY <2>3, <2>4
<1>7. vec_dump' = D /\ vec' = V
  <2>1. \A i \in 1..n : num + (i - 1) = i - 1
    BY <1>1, <1>2
  <2>2. [i \in DOMAIN at |-> [num |-> num + (i - 1), frame |-> fs[at[i]]]] = D
    BY <2>1
  <2>3. [i \in DOMAIN at |-> packet_func(num + (i - 1), fs[at[i]])] = V
    BY <2>1, SameParser
  <2> HIDE DEF D, V
  <2>4. <<>> \o D = D /\ <<>> \o V = V
    BY <1>6
  <2> QED
    BY <1>3, <1>4, <2>2, <2>3, <2>4
<1>8. \A i \in 1..n : D[i].num = i - 1 /\ IsRow(V[i], i - 1, D[i].frame)
  BY <1>5 DEF IsRow
<1> HIDE DEF D, V
<1>9. InPlace'
  BY <1>6, <1>7, <1>8 DEF InPlace
<1>10. LogTypes' /\ Counted'
  BY <1>2, <1>3, <1>6, <1>7 DEF LogInv, LogTypes, Counted
<1> QED
  BY <1>9, <1>10 DEF LogInv

LEMMA LogStep == LogInv /\ [Next]_vars => LogInv'
<1> SUFFICES ASSUME LogInv, [Next]_vars PROVE LogInv'
  OBVIOUS
<1>1. ASSUME NEW r, NEW protocol, DoubleClick(r, protocol) PROVE LogInv'
  BY <1>1 DEF DoubleClick, LogInv, LogTypes, Counted, InPlace, listVars, workerVars
<1>2. CASE OpenNic
  BY <1>2 DEF OpenNic, LogInv, LogTypes, Counted, InPlace, listVars, workerVars
<1>3. CASE create_Th
  BY <1>3, LogCleared DEF create_Th
<1>4. CASE WorkerEnds
  BY <1>4 DEF WorkerEnds, LogInv, LogTypes, Counted, InPlace, listVars
<1>5. CASE Reset
  BY <1>5, LogCleared DEF Reset, workerVars, LogInv, LogTypes, Counted
<1>6. CASE Stop
  BY <1>6 DEF Stop, LogInv, LogTypes, Counted, InPlace, listVars
<1>7. CASE dump_push_back
  BY <1>7, LogStore
<1>8. CASE save_md
  BY <1>8 DEF save_md, LogInv, LogTypes, Counted, InPlace, listVars, workerVars
<1>9. CASE PktBack
  BY <1>9 DEF PktBack, LogInv, LogTypes, Counted, InPlace, listVars, workerVars
<1>10. CASE Back
  BY <1>10, LogCleared DEF Back, LogInv, LogTypes, Counted
<1>11. ASSUME NEW f \in Frames, update_md(f) PROVE LogInv'
  BY <1>11, LogUpdate
<1>12. ASSUME NEW fs \in Seq(Frames), pcapFile_Read(fs) PROVE LogInv'
  BY <1>12, LogRead
<1>13. CASE UNCHANGED vars
  BY <1>13 DEF vars, LogInv, LogTypes, Counted, InPlace, listVars, workerVars
<1>14. BoundedSeq(Frames, MaxPkts) \subseteq Seq(Frames)
  <2>1. \A m \in 0..MaxPkts : [1..m -> Frames] \subseteq Seq(Frames)
    BY BoundsAssumption
  <2> QED
    BY <2>1 DEF BoundedSeq, SeqOf
<1> QED
  BY <1>1, <1>2, <1>3, <1>4, <1>5, <1>6, <1>7, <1>8, <1>9, <1>10, <1>11, <1>12, <1>13, <1>14
  DEF Next

-----------------------------------------------------------------------------
(***************************************************************************)
(* What is shown: the page that a row opens is of the packet of the row.   *)
(***************************************************************************)
ShownInv ==
    detail.dump # NoFrame =>
        /\ detail.dump \in Frames
        /\ \E n \in Nat : IsRow(detail.row, n, detail.dump)
        /\ detail.read = ReadTo(detail.dump) /\ detail.text = TreeText(detail.dump)

\* A lookup by the number of a row finds its own packet or none.
LEMMA DumpIsOfRow ==
    ASSUME LogInv, NEW i \in 1..Len(vec), Dump(vec[i].num) # NoFrame
    PROVE  /\ Dump(vec[i].num) \in Frames
           /\ \E n \in Nat : IsRow(vec[i], n, Dump(vec[i].num))
<1> DEFINE At == {j \in 1..Len(vec_dump) : vec_dump[j].num = vec[i].num}
<1>1. /\ vec_dump \in Seq(Dumps) /\ InPlace /\ Len(vec) \in Nat
      /\ posted = NoDump => Len(vec) = Len(vec_dump)
      /\ posted # NoDump => /\ Len(vec) = Len(vec_dump) + 1 /\ posted.num = Len(vec_dump)
                            /\ IsRow(vec[Len(vec)], posted.num, posted.frame)
  BY DEF LogInv, LogTypes, Counted
<1>2. At # {}
  BY DEF Dump
<1>3. PICK j \in At : TRUE
  BY <1>2
<1>4. j \in 1..Len(vec_dump) /\ vec_dump[j].num = j - 1 /\ vec[i].num = j - 1
  BY <1>1, <1>3 DEF InPlace
<1>5. vec[i].num = i - 1
  <2>1. CASE i \in 1..Len(vec_dump)
    BY <1>1, <2>1, RowNumber DEF InPlace
  <2>2. CASE i \notin 1..Len(vec_dump)
    <3>1. i = Len(vec) /\ posted.num = i - 1 /\ IsRow(vec[i], i - 1, posted.frame)
      BY <1>1, <2>2
    <3> QED
      BY <3>1, RowNumber
  <2> QED
    BY <2>1, <2>2
<1>6. i = j
  BY <1>4, <1>5
<1>7. At = {i}
  BY <1>1, <1>4, <1>5, <1>6 DEF InPlace
<1>8. Dump(vec[i].num) = vec_dump[i].frame
  BY <1>7 DEF Dump
<1>9. vec_dump[i].frame \in Frames /\ IsRow(vec[i], i - 1, vec_dump[i].frame)
  <2>1. i \in 1..Len(vec_dump)
    BY <1>4, <1>6
  <2>2. vec_dump[i] \in Dumps
    BY <1>1, <2>1
  <2>3. IsRow(vec[i], i - 1, vec_dump[i].frame)
    BY <1>1, <2>1 DEF InPlace
  <2> QED
    BY <2>2, <2>3 DEF Dumps
<1>10. i - 1 \in Nat
  BY <1>1
<1> QED
  BY <1>8, <1>9, <1>10

LEMMA ShownInit == Init => ShownInv
  BY DEF Init, ShownInv, NoDetail

LEMMA ShownStep == LogInv /\ ShownInv /\ [Next]_vars => ShownInv'
<1> SUFFICES ASSUME LogInv, ShownInv, [Next]_vars PROVE ShownInv'
  OBVIOUS
<1>1. ASSUME NEW i \in 1..Len(vec), NEW protocol, DoubleClick(vec[i], protocol) PROVE ShownInv'
  <2>1. detail' = Shown(vec[i], Dump(vec[i].num))
    BY <1>1 DEF DoubleClick
  <2>2. /\ detail'.row = vec[i] /\ detail'.dump = Dump(vec[i].num)
        /\ detail'.dump # NoFrame => /\ detail'.read = ReadTo(detail'.dump)
                                     /\ detail'.text = TreeText(detail'.dump)
    BY <2>1 DEF Shown
  <2> QED
    BY <2>2, DumpIsOfRow DEF ShownInv
<1>2. CASE PktBack
  BY <1>2 DEF PktBack, ShownInv, NoDetail
<1>3. CASE UNCHANGED detail
  BY <1>3 DEF ShownInv
<1>4. CASE \/ OpenNic \/ create_Th \/ WorkerEnds \/ Reset
           \/ Stop \/ dump_push_back \/ save_md \/ Back
  BY <1>3, <1>4
  DEF OpenNic, create_Th, WorkerEnds, Reset, Stop, dump_push_back, save_md, Back
<1>5. ASSUME NEW f, update_md(f) PROVE ShownInv'
  BY <1>3, <1>5 DEF update_md
<1>6. ASSUME NEW fs, pcapFile_Read(fs) PROVE ShownInv'
  BY <1>3, <1>6 DEF pcapFile_Read
<1>7. CASE UNCHANGED vars
  BY <1>3, <1>7 DEF vars
<1> QED
  BY <1>1, <1>2, <1>4, <1>5, <1>6, <1>7 DEF Next

-----------------------------------------------------------------------------
(***************************************************************************)
(* The lists of children of start_tree_md, whatever the protocol: each     *)
(* item is added once, and everything hangs on the root.                   *)
(***************************************************************************)
Protocols == {1, 2, 6, 17}

AddedOnce(lists) ==
    \A q, h \in DOMAIN lists : \A c : c \in ToSet(lists[q]) /\ c \in ToSet(lists[h]) => q = h
Reached(lists) ==
    \A q \in DOMAIN lists :
        \/ q = "root" \/ q \in ToSet(lists["root"])
        \/ \E h \in DOMAIN lists : h \in ToSet(lists["root"]) /\ q \in ToSet(lists[h])

IsList(l) == Len(l) \in Nat /\ DOMAIN l = 1..Len(l)
WellMade(lists) ==
    /\ "root" \in DOMAIN lists
    /\ \A q \in DOMAIN lists : IsList(lists[q]) /\ "root" \notin ToSet(lists[q])
    /\ AddedOnce(lists) /\ Reached(lists)

LEMMA HeaderSets ==
    /\ IsList(EtherChildren) /\ IsList(TosChildren)
    /\ IsList(IpFlagChildren) /\ IsList(IpChildren)
    /\ ToSet(EtherChildren) = {"ether_ch_dst", "ether_ch_src", "ether_ch_type"}
    /\ ToSet(TosChildren) = {"ip_tos_ch1", "ip_tos_ch2"}
    /\ ToSet(IpFlagChildren) = {"ip_flag_RF", "ip_flag_DF", "ip_flag_MF"}
    /\ ToSet(IpChildren) =
         {"ip_version", "ip_ipHeaderLen", "ip_tos", "ip_totalLen", "ip_id", "ip_flag",
          "ip_ttl", "ip_proto", "ip_check", "ip_check_stat", "ip_src", "ip_Dst"}
<1>1. /\ IsList(EtherChildren) /\ IsList(TosChildren)
      /\ IsList(IpFlagChildren) /\ IsList(IpChildren)
  BY DEF IsList, EtherChildren, TosChildren, IpFlagChildren, IpChildren
<1>2. ToSet(EtherChildren) = {"ether_ch_dst", "ether_ch_src", "ether_ch_type"}
  BY DEF ToSet, EtherChildren
<1>3. ToSet(TosChildren) = {"ip_tos_ch1", "ip_tos_ch2"}
  BY DEF ToSet, TosChildren
<1>4. ToSet(IpFlagChildren) = {"ip_flag_RF", "ip_flag_DF", "ip_flag_MF"}
  BY DEF ToSet, IpFlagChildren
<1>5. ToSet(IpChildren) =
         {"ip_version", "ip_ipHeaderLen", "ip_tos", "ip_totalLen", "ip_id", "ip_flag",
          "ip_ttl", "ip_proto", "ip_check", "ip_check_stat", "ip_src", "ip_Dst"}
  BY DEF ToSet, IpChildren
<1> QED
  BY <1>1, <1>2, <1>3, <1>4, <1>5

LEMMA TransportSets ==
    /\ IsList(TcpChildren) /\ IsList(TcpFlagChildren)
    /\ IsList(UdpChildren) /\ IsList(IcmpChildren)
    /\ ToSet(TcpChildren) =
         {"tcp_src", "tcp_dst", "tcp_len", "tcp_seq", "tcp_ack", "tcp_hLen", "tcp_flag_root",
          "tcp_win"}
    /\ ToSet(TcpFlagChildren) =
         {"qs_res1", "qs_cwr", "qs_ece", "qs_urg", "qs_ack", "qs_psh",
          "qs_rst", "qs_syn", "qs_fin"}
    /\ ToSet(UdpChildren) = {"udp_src", "udp_dst", "udp_len"}
    /\ ToSet(IcmpChildren) = {"icmp_type_ch", "icmp_code"}
<1>1. /\ IsList(TcpChildren) /\ IsList(TcpFlagChildren)
      /\ IsList(UdpChildren) /\ IsList(IcmpChildren)
  BY DEF IsList, TcpChildren, TcpFlagChildren, UdpChildren, IcmpChildren
<1>2. ToSet(TcpChildren) =
         {"tcp_src", "tcp_dst", "tcp_len", "tcp_seq", "tcp_ack", "tcp_hLen", "tcp_flag_root",
          "tcp_win"}
  BY DEF ToSet, TcpChildren
<1>3. ToSet(TcpFlagChildren) =
         {"qs_res1", "qs_cwr", "qs_ece", "qs_urg", "qs_ack", "qs_psh",
          "qs_rst", "qs_syn", "qs_fin"}
  BY DEF ToSet, TcpFlagChildren
<1>4. ToSet(UdpChildren) = {"udp_src", "udp_dst", "udp_len"}
  BY DEF ToSet, UdpChildren
<1>5. ToSet(IcmpChildren) = {"icmp_type_ch", "icmp_code"}
  BY DEF ToSet, IcmpChildren
<1> QED
  BY <1>1, <1>2, <1>3, <1>4, <1>5

\* What every call builds.
LEMMA HeaderPart ==
    ASSUME NEW protocol
    PROVE  LET L == Lists(protocol)  lower == TransportLists(protocol)
           IN  /\ DOMAIN L = {"root", "ether", "ip_root", "ip_tos", "ip_flag"} \cup DOMAIN lower
               /\ L["root"] = <<"ether", "ip_root">> \o lower["root"]
               /\ L["ether"] = EtherChildren /\ L["ip_root"] = IpChildren
               /\ L["ip_tos"] = TosChildren /\ L["ip_flag"] = IpFlagChildren
<1>1. DOMAIN HeaderLists = {"root", "ether", "ip_root", "ip_tos", "ip_flag"}
  BY DEF HeaderLists
<1>2. /\ HeaderLists["root"] = <<"ether", "ip_root">>
      /\ HeaderLists["ether"] = EtherChildren /\ HeaderLists["ip_root"] = IpChildren
      /\ HeaderLists["ip_tos"] = TosChildren /\ HeaderLists["ip_flag"] = IpFlagChildren
  BY DEF HeaderLists
<1> QED
  BY <1>1, <1>2 DEF Lists

\* The top of a tree with a transport header.
TopIs(lists, heading) ==
    /\ Len(lists["root"]) = 3 /\ lists["root"][1] = "ether"
    /\ lists["root"][2] = "ip_root" /\ lists["root"][3] = heading

LEMMA TcpWellMade == WellMade(Lists(6)) /\ TopIs(Lists(6), "tcp_root")
<1> DEFINE L == Lists(6)
<1>1. TransportLists(6) = TcpLists
  BY DEF TransportLists
<1>2. /\ DOMAIN TcpLists = {"root", "tcp_root", "tcp_flag_root"}
      /\ TcpLists["root"] = <<"tcp_root">>
      /\ TcpLists["tcp_root"] = TcpChildren /\ TcpLists["tcp_flag_root"] = TcpFlagChildren
  BY DEF TcpLists
<1>3. DOMAIN L = {"root", "ether", "ip_root", "ip_tos", "ip_flag", "tcp_root", "tcp_flag_root"}
  <2>1. DOMAIN L = {"root", "ether", "ip_root", "ip_tos", "ip_flag"} \cup DOMAIN TcpLists
    BY <1>1, HeaderPart
  <2> HIDE DEF L
  <2> QED
    BY <1>2, <2>1
<1>4. L["root"] = <<"ether", "ip_root">> \o <<"tcp_root">>
  BY <1>1, <1>2, HeaderPart
<1>5. /\ L["ether"] = EtherChildren /\ L["ip_root"] = IpChildren
      /\ L["ip_tos"] = TosChildren /\ L["ip_flag"] = IpFlagChildren
  BY HeaderPart
<1>6. L["tcp_root"] = TcpChildren /\ L["tcp_flag_root"] = TcpFlagChildren
  BY <1>1, <1>2, <1>3 DEF Lists, HeaderLists
<1> HIDE DEF L
<1>7. IsList(L["root"]) /\ TopIs(L, "tcp_root")
  BY <1>4 DEF IsList, TopIs
<1>8. ToSet(L["root"]) = {"ether", "ip_root", "tcp_root"}
  BY <1>7 DEF ToSet, IsList, TopIs
<1>9. AddedOnce(L)
  BY <1>3, <1>5, <1>6, <1>8, HeaderSets, TransportSets DEF AddedOnce
<1>10. Reached(L)
  BY <1>3, <1>5, <1>6, <1>8, HeaderSets, TransportSets DEF Reached
<1>11. \A q \in DOMAIN L : IsList(L[q]) /\ "root" \notin ToSet(L[q])
  BY <1>3, <1>5, <1>6, <1>7, <1>8, HeaderSets, TransportSets
<1>12. WellMade(L)
  BY <1>3, <1>9, <1>10, <1>11 DEF WellMade
<1> QED
  BY <1>7, <1>12 DEF L

LEMMA UdpWellMade == WellMade(Lists(17)) /\ TopIs(Lists(17), "udp_root")
<1> DEFINE L == Lists(17)
<1>1. TransportLists(17) = UdpLists
  BY DEF TransportLists
<1>2. /\ DOMAIN UdpLists = {"root", "udp_root"} /\ UdpLists["root"] = <<"udp_root">>
      /\ UdpLists["udp_root"] = UdpChildren
  BY DEF UdpLists
<1>3. DOMAIN L = {"root", "ether", "ip_root", "ip_tos", "ip_flag", "udp_root"}
  <2>1. DOMAIN L = {"root", "ether", "ip_root", "ip_tos", "ip_flag"} \cup DOMAIN UdpLists
    BY <1>1, HeaderPart
  <2> HIDE DEF L
  <2> QED
    BY <1>2, <2>1
<1>4. L["root"] = <<"ether", "ip_root">> \o <<"udp_root">>
  BY <1>1, <1>2, HeaderPart
<1>5. /\ L["ether"] = EtherChildren /\ L["ip_root"] = IpChildren
      /\ L["ip_tos"] = TosChildren /\ L["ip_flag"] = IpFlagChildren
  BY HeaderPart
<1>6. L["udp_root"] = UdpChildren
  BY <1>1, <1>2, <1>3 DEF Lists, HeaderLists
<1> HIDE DEF L
<1>7. IsList(L["root"]) /\ TopIs(L, "udp_root")
  BY <1>4 DEF IsList, TopIs
<1>8. ToSet(L["root"]) = {"ether", "ip_root", "udp_root"}
  BY <1>7 DEF ToSet, IsList, TopIs
<1>9. AddedOnce(L)
  BY <1>3, <1>5, <1>6, <1>8, HeaderSets, TransportSets DEF AddedOnce
<1>10. Reached(L)
  BY <1>3, <1>5, <1>6, <1>8, HeaderSets, TransportSets DEF Reached
<1>11. \A q \in DOMAIN L : IsList(L[q]) /\ "root" \notin ToSet(L[q])
  BY <1>3, <1>5, <1>6, <1>7, <1>8, HeaderSets, TransportSets
<1>12. WellMade(L)
  BY <1>3, <1>9, <1>10, <1>11 DEF WellMade
<1> QED
  BY <1>7, <1>12 DEF L

LEMMA IcmpWellMade == WellMade(Lists(1)) /\ TopIs(Lists(1), "icmp_root")
<1> DEFINE L == Lists(1)
<1>1. TransportLists(1) = IcmpLists
  BY DEF TransportLists
<1>2. /\ DOMAIN IcmpLists = {"root", "icmp_root"} /\ IcmpLists["root"] = <<"icmp_root">>
      /\ IcmpLists["icmp_root"] = IcmpChildren
  BY DEF IcmpLists
<1>3. DOMAIN L = {"root", "ether", "ip_root", "ip_tos", "ip_flag", "icmp_root"}
  <2>1. DOMAIN L = {"root", "ether", "ip_root", "ip_tos", "ip_flag"} \cup DOMAIN IcmpLists
    BY <1>1, HeaderPart
  <2> HIDE DEF L
  <2> QED
    BY <1>2, <2>1
<1>4. L["root"] = <<"ether", "ip_root">> \o <<"icmp_root">>
  BY <1>1, <1>2, HeaderPart
<1>5. /\ L["ether"] = EtherChildren /\ L["ip_root"] = IpChildren
      /\ L["ip_tos"] = TosChildren /\ L["ip_flag"] = IpFlagChildren
  BY HeaderPart
<1>6. L["icmp_root"] = IcmpChildren
  BY <1>1, <1>2, <1>3 DEF Lists, HeaderLists
<1> HIDE DEF L
<1>7. IsList(L["root"]) /\ TopIs(L, "icmp_root")
  BY <1>4 DEF IsList, TopIs
<1>8. ToSet(L["root"]) = {"ether", "ip_root", "icmp_root"}
  BY <1>7 DEF ToSet, IsList, TopIs
<1>9. AddedOnce(L)
  BY <1>3, <1>5, <1>6, <1>8, HeaderSets, TransportSets DEF AddedOnce
<1>10. Reached(L)
  BY <1>3, <1>5, <1>6, <1>8, HeaderSets, TransportSets DEF Reached
<1>11. \A q \in DOMAIN L : IsList(L[q]) /\ "root" \notin ToSet(L[q])
  BY <1>3, <1>5, <1>6, <1>7, <1>8, HeaderSets, TransportSets
<1>12. WellMade(L)
  BY <1>3, <1>9, <1>10, <1>11 DEF WellMade
<1> QED
  BY <1>7, <1>12 DEF L

LEMMA OtherWellMade == ASSUME NEW p, p \notin {1, 6, 17} PROVE WellMade(Lists(p))
<1> DEFINE L == Lists(p)
<1>1. TransportLists(p) = NoLists
  BY DEF TransportLists
<1>2. DOMAIN NoLists = {"root"} /\ NoLists["root"] = <<>>
  BY DEF NoLists
<1>3. /\ DOMAIN L = {"root", "ether", "ip_root", "ip_tos", "ip_flag"}
      /\ L["root"] = <<"ether", "ip_root">> \o <<>>
      /\ L["ether"] = EtherChildren /\ L["ip_root"] = IpChildren
      /\ L["ip_tos"] = TosChildren /\ L["ip_flag"] = IpFlagChildren
  BY <1>1, <1>2, HeaderPart
<1> HIDE DEF L
<1>4. /\ IsList(L["root"]) /\ Len(L["root"]) = 2
      /\ L["root"][1] = "ether" /\ L["root"][2] = "ip_root"
  BY <1>3 DEF IsList
<1>5. ToSet(L["root"]) = {"ether", "ip_root"}
  BY <1>4 DEF ToSet, IsList
<1>6. AddedOnce(L)
  BY <1>3, <1>5, HeaderSets DEF AddedOnce
<1>7. Reached(L)
  BY <1>3, <1>5, HeaderSets DEF Reached
<1>8. \A q \in DOMAIN L : IsList(L[q]) /\ "root" \notin ToSet(L[q])
  BY <1>3, <1>4, <1>5, HeaderSets
<1>9. WellMade(L)
  BY <1>3, <1>6, <1>7, <1>8 DEF WellMade
<1> QED
  BY <1>9 DEF L

LEMMA AllWellMade == ASSUME NEW p \in Int PROVE WellMade(Lists(p))
BY TcpWellMade, UdpWellMade, IcmpWellMade, OtherWellMade

-----------------------------------------------------------------------------
(***************************************************************************)
(* The tree made of such lists, and what is left of it when it is replaced. *)
(***************************************************************************)
LEMMA HoldersAreItems ==
    ASSUME NEW L, WellMade(L)
    PROVE  /\ "root" \in Items(L) /\ DOMAIN L \subseteq Items(L)
           /\ \A q \in DOMAIN L : ToSet(L[q]) \subseteq Items(L)
           /\ \A c \in Items(L) : c # "root" =>
                /\ Holder(L, c) \in DOMAIN L /\ c \in ToSet(L[Holder(L, c)])
                /\ \A q \in DOMAIN L : c \in ToSet(L[q]) => q = Holder(L, c)
<1>1. \A q \in DOMAIN L : ToSet(L[q]) \subseteq Items(L)
  BY DEF Items
<1>2. "root" \in Items(L) /\ DOMAIN L \subseteq Items(L)
  BY <1>1 DEF WellMade, Reached, Items
<1>3. ASSUME NEW c \in Items(L), c # "root"
      PROVE  /\ Holder(L, c) \in DOMAIN L /\ c \in ToSet(L[Holder(L, c)])
             /\ \A q \in DOMAIN L : c \in ToSet(L[q]) => q = Holder(L, c)
  <2>1. \E q \in DOMAIN L : c \in ToSet(L[q])
    BY <1>3 DEF Items
  <2>2. Holder(L, c) \in DOMAIN L /\ c \in ToSet(L[Holder(L, c)])
    BY <2>1 DEF Holder
  <2> QED
    BY <2>2 DEF WellMade, AddedOnce
<1> QED
  BY <1>1, <1>2, <1>3

LEMMA TreeItems ==
    ASSUME NEW g, NEW L, WellMade(L)
    PROVE  /\ Live(Tree(g, L)) = {g} \X Items(L)
           /\ DOMAIN Tree(g, L).children = {g} \X Items(L)
           /\ \A c \in Items(L) : <<g, c>> \in Live(Tree(g, L))
           /\ \A x \in Live(Tree(g, L)) : \E c \in Items(L) : x = <<g, c>>
<1>1. Live(Tree(g, L)) = {g} \X Items(L) /\ DOMAIN Tree(g, L).children = {g} \X Items(L)
  BY DEF Tree, Live
<1>2. \A c \in Items(L) : <<g, c>> \in {g} \X Items(L)
  OBVIOUS
<1>3. \A x \in {g} \X Items(L) : \E c \in Items(L) : x = <<g, c>>
  OBVIOUS
<1> QED
  BY <1>1, <1>2, <1>3

LEMMA TreeParents ==
    ASSUME NEW g, NEW L, WellMade(L), NEW c \in Items(L)
    PROVE  Tree(g, L).parent[<<g, c>>] = IF c = "root" THEN NULL ELSE <<g, Holder(L, c)>>
<1>1. <<g, c>> \in {g} \X Items(L)
  OBVIOUS
<1> QED
  BY <1>1 DEF Tree, addChild

LEMMA TreeChildren ==
    ASSUME NEW g, NEW L, WellMade(L), NEW c \in Items(L)
    PROVE  Tree(g, L).children[<<g, c>>] =
             IF c \in DOMAIN L THEN [i \in 1..Len(L[c]) |-> <<g, L[c][i]>>] ELSE <<>>
<1>1. <<g, c>> \in {g} \X Items(L)
  OBVIOUS
<1> QED
  BY <1>1 DEF Tree

LEMMA TreeLists ==
    ASSUME NEW g, NEW L, WellMade(L), NEW q \in DOMAIN L
    PROVE  /\ Len(Tree(g, L).children[<<g, q>>]) = Len(L[q]) /\ Len(L[q]) \in Nat
           /\ DOMAIN Tree(g, L).children[<<g, q>>] = 1..Len(L[q])
           /\ \A i \in 1..Len(L[q]) : Tree(g, L).children[<<g, q>>][i] = <<g, L[q][i]>>
<1>1. Tree(g, L).children[<<g, q>>] = [i \in 1..Len(L[q]) |-> <<g, L[q][i]>>]
  BY TreeChildren, HoldersAreItems
<1>2. Len(L[q]) \in Nat
  BY DEF WellMade, IsList
<1> QED
  BY <1>1, <1>2

\* Whoever is in a list of children has its holder for a parent.
LEMMA ChildPointsBack ==
    ASSUME NEW g, NEW L, WellMade(L), NEW x \in Live(Tree(g, L)),
           NEW i \in 1..Len(Tree(g, L).children[x])
    PROVE  /\ Tree(g, L).children[x][i] \in Live(Tree(g, L))
           /\ Tree(g, L).parent[Tree(g, L).children[x][i]] = x
<1>1. PICK q \in Items(L) : x = <<g, q>>
  BY TreeItems
<1>2. q \in DOMAIN L
  <2> SUFFICES ASSUME q \notin DOMAIN L PROVE FALSE
    OBVIOUS
  <2>1. Tree(g, L).children[<<g, q>>] = <<>>
    BY TreeChildren
  <2>2. i \in 1..Len(<<>>)
    BY <1>1, <2>1
  <2> QED
    BY <2>2
<1>3. PICK c : c = L[q][i]
  OBVIOUS
<1>4. i \in 1..Len(L[q]) /\ Tree(g, L).children[x][i] = <<g, c>>
  BY <1>1, <1>2, <1>3, TreeLists
<1>5. c \in ToSet(L[q])
  BY <1>2, <1>3, <1>4 DEF ToSet, WellMade, IsList
<1>6. c \in Items(L) /\ c # "root" /\ Holder(L, c) = q
  BY <1>2, <1>5, HoldersAreItems DEF WellMade
<1>7. Tree(g, L).parent[<<g, c>>] = <<g, q>>
  BY <1>6, TreeParents
<1>8. <<g, c>> \in Live(Tree(g, L))
  BY <1>6, TreeItems
<1> QED
  BY <1>1, <1>4, <1>7, <1>8

LEMMA TreeTyped ==
    ASSUME NEW g, NEW L, WellMade(L)
    PROVE  /\ Tree(g, L).parent \in [Live(Tree(g, L)) -> Live(Tree(g, L)) \cup {NULL}]
           /\ Tree(g, L).children \in [Live(Tree(g, L)) -> Seq(Live(Tree(g, L)))]
<1> DEFINE T == Tree(g, L)
<1>1. ASSUME NEW c \in Items(L) PROVE T.parent[<<g, c>>] \in Live(T) \cup {NULL}
  <2>1. CASE c = "root"
    <3>1. T.parent[<<g, c>>] = NULL
      BY <2>1, TreeParents
    <3> QED
      BY <3>1
  <2>2. CASE c # "root"
    <3>1. T.parent[<<g, c>>] = <<g, Holder(L, c)>>
      BY <2>2, TreeParents
    <3>2. Holder(L, c) \in Items(L)
      BY <2>2, HoldersAreItems
    <3>3. <<g, Holder(L, c)>> \in Live(T)
      BY <3>2, TreeItems
    <3> QED
      BY <3>1, <3>3
  <2> QED
    BY <2>1, <2>2
<1>2. ASSUME NEW c \in Items(L) PROVE T.children[<<g, c>>] \in Seq(Live(T))
  <2>1. CASE c \in DOMAIN L
    <3>1. T.children[<<g, c>>] = [i \in 1..Len(L[c]) |-> <<g, L[c][i]>>]
      BY <2>1, TreeChildren
    <3>2. Len(L[c]) \in Nat /\ Len(T.children[<<g, c>>]) = Len(L[c])
      BY <2>1, TreeLists
    <3>3. \A i \in 1..Len(L[c]) : <<g, L[c][i]>> \in Live(T)
      <4> TAKE i \in 1..Len(L[c])
      <4>1. L[c][i] \in ToSet(L[c])
        BY <2>1 DEF ToSet, WellMade, IsList
      <4>2. L[c][i] \in Items(L)
        BY <2>1, <4>1, HoldersAreItems
      <4> QED
        BY <4>2, TreeItems
    <3> HIDE DEF T
    <3> QED
      BY <3>1, <3>2, <3>3
  <2>2. CASE c \notin DOMAIN L
    <3>1. T.children[<<g, c>>] = <<>>
      BY <2>2, TreeChildren
    <3> QED
      BY <3>1
  <2> QED
    BY <2>1, <2>2
<1>3. \A x \in Live(T) : T.parent[x] \in Live(T) \cup {NULL} /\ T.children[x] \in Seq(Live(T))
  BY <1>1, <1>2, TreeItems
<1>4. /\ T.parent = [x \in Live(T) |-> T.parent[x]]
      /\ T.children = [x \in Live(T) |-> T.children[x]]
  BY DEF Tree, Live
<1> HIDE DEF T
<1>5. /\ T.parent \in [Live(T) -> Live(T) \cup {NULL}]
      /\ T.children \in [Live(T) -> Seq(Live(T))]
  BY <1>3, <1>4
<1> QED
  BY <1>5 DEF T

\* Three rounds of ~TreeItem reach every item.
LEMMA TreeIsDestroyed ==
    ASSUME NEW g, NEW L, WellMade(L)
    PROVE  Live(Tree(g, L)) \subseteq Destroyed(Tree(g, L), <<g, "root">>)
<1> DEFINE T == Tree(g, L)
           r == <<g, "root">>
           Below(S) == S \cup UNION {ToSet(T.children[y]) : y \in S}
<1>1. \A q \in DOMAIN L : \A c \in ToSet(L[q]) : <<g, c>> \in ToSet(T.children[<<g, q>>])
  <2> SUFFICES ASSUME NEW q \in DOMAIN L, NEW c \in ToSet(L[q])
               PROVE  <<g, c>> \in ToSet(T.children[<<g, q>>])
    OBVIOUS
  <2>1. PICK i \in 1..Len(L[q]) : c = L[q][i]
    BY DEF ToSet, WellMade, IsList
  <2>2. /\ i \in DOMAIN T.children[<<g, q>>] /\ T.children[<<g, q>>][i] = <<g, c>>
    BY <2>1, TreeLists
  <2> QED
    BY <2>2 DEF ToSet
<1>2. \A S : \A q \in DOMAIN L : \A c \in ToSet(L[q]) : <<g, q>> \in S => <<g, c>> \in Below(S)
  BY <1>1
<1>3. \A S : S \subseteq Below(S)
  OBVIOUS
<1>4. Destroyed(T, r) = Below(Below(Below({r})))
  BY DEF Destroyed
<1>5. r \in {r}
  OBVIOUS
<1> HIDE DEF T, r, Below
<1>6. "root" \in DOMAIN L
  BY DEF WellMade
<1>7. \A c \in ToSet(L["root"]) : <<g, c>> \in Below({r})
  BY <1>2, <1>5, <1>6 DEF r
<1>8. \A q \in DOMAIN L : <<g, q>> \in Below(Below({r}))
  <2> SUFFICES ASSUME NEW q \in DOMAIN L PROVE <<g, q>> \in Below(Below({r}))
    OBVIOUS
  <2>1. CASE q = "root"
    BY <1>3, <1>5, <2>1 DEF r
  <2>2. CASE q \in ToSet(L["root"])
    BY <1>3, <1>7, <2>2
  <2>3. CASE \E h \in DOMAIN L : h \in ToSet(L["root"]) /\ q \in ToSet(L[h])
    BY <1>2, <1>7, <2>3
  <2> QED
    BY <2>1, <2>2, <2>3 DEF WellMade, Reached
<1>9. \A c \in Items(L) : <<g, c>> \in Below(Below(Below({r})))
  <2> SUFFICES ASSUME NEW c \in Items(L) PROVE <<g, c>> \in Below(Below(Below({r})))
    OBVIOUS
  <2>1. CASE c = "root"
    BY <1>3, <1>5, <2>1 DEF r
  <2>2. CASE \E q \in DOMAIN L : c \in ToSet(L[q])
    BY <1>2, <1>8, <2>2
  <2> QED
    BY <2>1, <2>2 DEF Items
<1>10. \A x \in Live(T) : \E c \in Items(L) : x = <<g, c>>
  BY TreeItems DEF T
<1>11. \A x \in Live(T) : x \in Destroyed(T, r)
  BY <1>4, <1>9, <1>10
<1> QED
  BY <1>11 DEF T, r

-----------------------------------------------------------------------------
(***************************************************************************)
(* The state of the model and of the page, call after call.                *)
(***************************************************************************)
TreeInv ==
    \/ /\ root = NULL /\ built = 0
       /\ heap = [parent |-> [x \in {} |-> NULL], children |-> [x \in {} |-> <<>>]]
    \/ /\ built \in Nat \ {0} /\ root = <<built, "root">>
       /\ \E protocol \in Protocols : heap = Tree(built, Lists(protocol))

PageInv ==
    page = "pkt" =>
        /\ root # NULL /\ detail.rows = TopLevel(heap, root)
        /\ detail.dump # NoFrame => /\ heap = Tree(built, Lists(detail.dump.protocol))
                                    /\ detail.hex = start_hax(detail.dump)

\* Nothing is left of the tree that was there.
LEMMA NothingIsKept ==
    ASSUME TreeInv
    PROVE  DOMAIN setPacketTree.parent = {} /\ DOMAIN setPacketTree.children = {}
<1>1. CASE root = NULL /\ built = 0
  <2>1. root = NULL /\ Live(heap) = {}
    BY <1>1 DEF TreeInv, Live
  <2> QED
    BY <2>1 DEF setPacketTree
<1>2. CASE built # 0
  <2>1. PICK protocol \in Protocols : heap = Tree(built, Lists(protocol))
    BY <1>2 DEF TreeInv
  <2>2. root = <<built, "root">> /\ root # NULL
    BY <1>2 DEF TreeInv, NULL
  <2>3. Live(heap) \ Destroyed(heap, root) = {}
    BY <2>1, <2>2, AllWellMade, TreeIsDestroyed DEF Protocols
  <2> QED
    BY <2>2, <2>3 DEF setPacketTree
<1> QED
  BY <1>1, <1>2 DEF TreeInv

LEMMA NewTree ==
    ASSUME TreeInv, NEW g, NEW protocol
    PROVE  start_tree_md(g, protocol) = Tree(g, Lists(protocol))
<1> DEFINE T == Tree(g, Lists(protocol))
<1>1. /\ T = [parent |-> T.parent, children |-> T.children]
      /\ T.parent = [x \in DOMAIN T.parent |-> T.parent[x]]
      /\ T.children = [x \in DOMAIN T.children |-> T.children[x]]
  BY DEF Tree
<1>2. start_tree_md(g, protocol) =
        [parent |-> Over(T.parent, setPacketTree.parent),
         children |-> Over(T.children, setPacketTree.children)]
  BY DEF start_tree_md
<1> HIDE DEF T
<1>3. Over(T.parent, setPacketTree.parent) = [x \in DOMAIN T.parent |-> T.parent[x]]
  BY NothingIsKept DEF Over
<1>4. Over(T.children, setPacketTree.children) = [x \in DOMAIN T.children |-> T.children[x]]
  BY NothingIsKept DEF Over
<1>5. start_tree_md(g, protocol) = T
  BY <1>1, <1>2, <1>3, <1>4
<1> QED
  BY <1>5 DEF T

\* What a view reads at the top of a tree.
LEMMA TopOfTree ==
    ASSUME NEW g, NEW L, WellMade(L)
    PROVE  TopLevel(Tree(g, L), <<g, "root">>) = [i \in 1..Len(L["root"]) |-> L["root"][i]]
<1>1. "root" \in DOMAIN L
  BY DEF WellMade
<1>2. /\ Len(Tree(g, L).children[<<g, "root">>]) = Len(L["root"])
      /\ \A i \in 1..Len(L["root"]) :
            Tree(g, L).children[<<g, "root">>][i] = <<g, L["root"][i]>>
  BY <1>1, TreeLists
<1>3. \A i \in 1..Len(L["root"]) : Tree(g, L).children[<<g, "root">>][i][2] = L["root"][i]
  BY <1>2
<1> QED
  BY <1>2, <1>3 DEF TopLevel

LEMMA TreeInit == Init => TreeInv /\ PageInv
  BY DEF Init, TreeInv, PageInv

\* DoubleClick alone touches the tree.
LEMMA OtherSteps ==
    ASSUME [Next]_vars,
           ~ \E i \in 1..Len(vec), protocol \in Protocols : DoubleClick(vec[i], protocol)
    PROVE  /\ UNCHANGED treeVars
           /\ page' = "pkt" => page = "pkt" /\ UNCHANGED detail
<1>1. CASE OpenNic \/ create_Th \/ WorkerEnds \/ Reset \/ Stop \/ dump_push_back \/ save_md
  BY <1>1 DEF OpenNic, create_Th, WorkerEnds, Reset, Stop, dump_push_back, save_md
<1>2. CASE PktBack \/ Back
  BY <1>2 DEF PktBack, Back
<1>3. ASSUME NEW f, update_md(f) PROVE UNCHANGED <<treeVars, page, detail>>
  BY <1>3 DEF update_md
<1>4. ASSUME NEW fs, pcapFile_Read(fs) PROVE UNCHANGED treeVars /\ page' = "capture"
  BY <1>4 DEF pcapFile_Read
<1>5. CASE UNCHANGED vars
  BY <1>5 DEF vars
<1> QED
  BY <1>1, <1>2, <1>3, <1>4, <1>5 DEF Next, Protocols

LEMMA TreeStep == TreeInv /\ PageInv /\ [Next]_vars => TreeInv' /\ PageInv'
<1> SUFFICES ASSUME TreeInv, PageInv, [Next]_vars PROVE TreeInv' /\ PageInv'
  OBVIOUS
<1>1. ASSUME NEW i \in 1..Len(vec), NEW protocol \in Protocols, DoubleClick(vec[i], protocol)
      PROVE  TreeInv' /\ PageInv'
  <2>1. /\ built' = built + 1 /\ root' = <<built', "root">>
        /\ heap' = start_tree_md(built', protocol)
        /\ detail' = Shown(vec[i], Dump(vec[i].num))
        /\ Dump(vec[i].num) # NoFrame => protocol = Dump(vec[i].num).protocol
    BY <1>1 DEF DoubleClick
  <2>2. heap' = Tree(built', Lists(protocol))
    BY <2>1, NewTree
  <2>3. built' \in Nat \ {0} /\ root' # NULL
    BY <2>1 DEF TreeInv, NULL
  <2>4. TreeInv'
    BY <2>1, <2>2, <2>3 DEF TreeInv
  <2>5. /\ detail'.dump = Dump(vec[i].num) /\ detail'.rows = TopLevel(heap', root')
        /\ detail'.hex = start_hax(detail'.dump)
    BY <2>1 DEF Shown
  <2>6. PageInv'
    BY <2>1, <2>2, <2>3, <2>5 DEF PageInv
  <2> QED
    BY <2>4, <2>6
<1>2. CASE UNCHANGED treeVars /\ (page' = "pkt" => page = "pkt" /\ UNCHANGED detail)
  BY <1>2 DEF TreeInv, PageInv, treeVars
<1> QED
  BY <1>1, <1>2, OtherSteps

-----------------------------------------------------------------------------
(***************************************************************************)
(* The rest of the state, and everything together.                         *)
(***************************************************************************)
TypesInv ==
    /\ page \in {"nic", "capture", "pkt"} /\ isCapturing \in BOOLEAN /\ wk_life \in BOOLEAN
    /\ stop_flag \in BOOLEAN /\ built \in 0..MaxDetails
FileInv ==
    file \in Seq(Frames) /\ \A i \in 1..Len(file) : packet_func(0, file[i]).proto # "none"

\* Whether a frame gets a row does not depend on its number.
LEMMA SameProtocol ==
    ASSUME NEW f, NEW n, NEW m
    PROVE  my_packet_handler(n, f).proto = packet_func(m, f).proto
BY DEF my_packet_handler, packet_func, Row

LEMMA MiscInit == Init => TypesInv /\ FileInv
<1> SUFFICES ASSUME Init PROVE TypesInv /\ FileInv
  OBVIOUS
<1>1. TypesInv
  <2>1. /\ page = "nic" /\ built = 0
        /\ isCapturing \in BOOLEAN /\ wk_life \in BOOLEAN /\ stop_flag \in BOOLEAN
    BY DEF Init
  <2>2. built \in 0..MaxDetails
    BY <2>1, BoundsAssumption
  <2> QED
    BY <2>1, <2>2 DEF TypesInv
<1>2. file = <<>> /\ Len(file) = 0
  BY DEF Init
<1> QED
  BY <1>1, <1>2 DEF FileInv

LEMMA TypesStep == TypesInv /\ [Next]_vars => TypesInv'
<1> SUFFICES ASSUME TypesInv, [Next]_vars PROVE TypesInv'
  OBVIOUS
<1>1. CASE OpenNic \/ create_Th \/ WorkerEnds \/ Reset \/ Stop
  BY <1>1 DEF OpenNic, create_Th, WorkerEnds, Reset, Stop, TypesInv, workerVars, treeVars
<1>2. CASE dump_push_back \/ save_md \/ PktBack \/ Back
  BY <1>2 DEF dump_push_back, save_md, PktBack, Back, TypesInv, workerVars, treeVars
<1>3. ASSUME NEW f, update_md(f) PROVE TypesInv'
  BY <1>3 DEF update_md, TypesInv, treeVars
<1>4. ASSUME NEW fs, pcapFile_Read(fs) PROVE TypesInv'
  BY <1>4 DEF pcapFile_Read, TypesInv, workerVars, treeVars
<1>5. ASSUME NEW r, NEW protocol, DoubleClick(r, protocol) PROVE TypesInv'
  BY <1>5, BoundsAssumption DEF DoubleClick, TypesInv, workerVars
<1>6. CASE UNCHANGED vars
  BY <1>6 DEF vars, TypesInv, workerVars, treeVars
<1> QED
  BY <1>1, <1>2, <1>3, <1>4, <1>5, <1>6 DEF Next

LEMMA FileStep == LogInv /\ FileInv /\ [Next]_vars => FileInv'
<1> SUFFICES ASSUME LogInv, FileInv, [Next]_vars PROVE FileInv'
  OBVIOUS
<1>1. CASE save_md
  <2>1. file' = [i \in 1..Len(vec_dump) |-> vec_dump[i].frame]
    BY <1>1 DEF save_md
  <2>2. vec_dump \in Seq(Dumps) /\ InPlace
    BY DEF LogInv, LogTypes
  <2>3. \A i \in 1..Len(vec_dump) :
            vec_dump[i].frame \in Frames /\ packet_func(0, vec_dump[i].frame).proto # "none"
    <3> TAKE i \in 1..Len(vec_dump)
    <3>1. vec_dump[i] \in Dumps
      BY <2>2
    <3>2. IsRow(vec[i], i - 1, vec_dump[i].frame)
      BY <2>2 DEF InPlace
    <3>3. my_packet_handler(i - 1, vec_dump[i].frame).proto # "none"
      BY <3>2 DEF IsRow
    <3> QED
      BY <3>1, <3>3, SameProtocol DEF Dumps
  <2>4. Len(file') = Len(vec_dump) /\ \A i \in 1..Len(vec_dump) : file'[i] = vec_dump[i].frame
    BY <2>1, <2>2
  <2>5. file' \in Seq(Frames)
    BY <2>1, <2>2, <2>3
  <2>6. \A i \in 1..Len(file') : packet_func(0, file'[i]).proto # "none"
    BY <2>3, <2>4
  <2> QED
    BY <2>5, <2>6 DEF FileInv, packet_func, Row, HasIp, Protocol, HasTcp
<1>2. CASE UNCHANGED file
  BY <1>2 DEF FileInv, packet_func, Row, HasIp, Protocol, HasTcp
<1>3. CASE \/ OpenNic \/ create_Th \/ WorkerEnds \/ Reset
           \/ Stop \/ dump_push_back \/ PktBack \/ Back
  BY <1>2, <1>3
  DEF OpenNic, create_Th, WorkerEnds, Reset, Stop, dump_push_back, PktBack, Back
<1>4. ASSUME NEW f, update_md(f) PROVE FileInv'
  BY <1>2, <1>4 DEF update_md
<1>5. ASSUME NEW fs, pcapFile_Read(fs) PROVE FileInv'
  BY <1>2, <1>5 DEF pcapFile_Read
<1>6. ASSUME NEW r, NEW protocol, DoubleClick(r, protocol) PROVE FileInv'
  BY <1>2, <1>6 DEF DoubleClick
<1>7. CASE UNCHANGED vars
  BY <1>2, <1>7 DEF vars
<1> QED
  BY <1>1, <1>3, <1>4, <1>5, <1>6, <1>7 DEF Next

IInv == LogInv /\ ShownInv /\ TreeInv /\ PageInv /\ TypesInv /\ FileInv

LEMMA DetailInvariant == Spec => []IInv
<1>1. Init => IInv
  BY LogInit, ShownInit, TreeInit, MiscInit DEF IInv
<1>2. IInv /\ [Next]_vars => IInv'
  BY LogStep, ShownStep, TreeStep, TypesStep, FileStep DEF IInv
<1> QED
  BY <1>1, <1>2, PTL DEF Spec

-----------------------------------------------------------------------------
(***************************************************************************)
(* What follows.                                                           *)
(***************************************************************************)
\* The state is well formed: every row but the last has its raw packet at its
\* place and with its number, and no pointer leads to a deleted TreeItem.
THEOREM DetailTypes == Spec => []TypeOK
<1>1. IInv => TypeOK
  <2> SUFFICES ASSUME IInv PROVE TypeOK
    OBVIOUS
  <2>1. LogTypes /\ Counted /\ InPlace /\ TypesInv /\ FileInv /\ TreeInv
    BY DEF IInv, LogInv
  <2>2. ASSUME NEW i \in 1..Len(vec) PROVE vec[i].proto \in Names /\ vec[i].num \in Nat
    <3>1. vec[i] \in Rows
      BY <2>1 DEF LogTypes
    <3>2. PICK n \in Nat, f \in Frames : vec[i] = my_packet_handler(n, f)
      BY <3>1 DEF Rows
    <3>3. vec[i].num = n
      BY <3>2 DEF my_packet_handler, Row
    <3>4. vec[i].proto # "none"
      <4>1. CASE i \in 1..Len(vec_dump)
        BY <2>1, <4>1 DEF InPlace, IsRow
      <4>2. CASE i \notin 1..Len(vec_dump)
        <5>1. posted # NoDump /\ i = Len(vec)
          BY <2>1, <4>2 DEF Counted, LogTypes
        <5> QED
          BY <2>1, <5>1 DEF Counted, IsRow
      <4> QED
        BY <4>1, <4>2
    <3>5. vec[i].proto \in Names \cup {"none"}
      BY <3>2 DEF my_packet_handler, Row, Protocol, Names
    <3> QED
      BY <3>3, <3>4, <3>5
  <2>3. /\ wk_num \in Nat /\ num \in Nat /\ vec_dump \in Seq(Dumps) /\ file \in Seq(Frames)
        /\ posted \in Dumps \cup {NoDump}
    BY <2>1 DEF LogTypes, FileInv
  <2>4. Len(vec) = Len(vec_dump) + (IF posted = NoDump THEN 0 ELSE 1)
    BY <2>1 DEF Counted, LogTypes
  <2>5. ASSUME NEW i \in 1..Len(vec_dump) PROVE vec_dump[i].num = vec[i].num
    BY <2>1, RowNumber DEF InPlace
  <2>6. /\ heap.parent \in [Live(heap) -> Live(heap) \cup {NULL}]
        /\ heap.children \in [Live(heap) -> Seq(Live(heap))]
        /\ root \in Live(heap) \cup {NULL}
    <3>1. CASE root = NULL /\ built = 0
      <4>1. /\ heap.parent = [x \in {} |-> NULL] /\ heap.children = [x \in {} |-> <<>>]
            /\ Live(heap) = {}
        BY <2>1, <3>1 DEF TreeInv, Live
      <4> QED
        BY <3>1, <4>1
    <3>2. CASE built # 0
      <4>1. PICK protocol \in Protocols : heap = Tree(built, Lists(protocol))
        BY <2>1, <3>2 DEF TreeInv
      <4>2. WellMade(Lists(protocol))
        BY AllWellMade DEF Protocols
      <4>3. root = <<built, "root">> /\ "root" \in Items(Lists(protocol))
        BY <2>1, <3>2, <4>2, HoldersAreItems DEF TreeInv
      <4> QED
        BY <4>1, <4>2, <4>3, TreeTyped, TreeItems
    <3> QED
      BY <2>1, <3>1, <3>2 DEF TreeInv
  <2> QED
    BY <2>1, <2>2, <2>3, <2>4, <2>5, <2>6 DEF TypeOK, TypesInv, Dumps
<1> QED
  BY <1>1, DetailInvariant, PTL

(***************************************************************************)
(* start_tree_md reads the headers of a TCP packet, whose length it never  *)
(* looks at, inside the captured bytes.                                    *)
(***************************************************************************)
THEOREM TcpReadsInside == Spec => []TcpFieldsCaptured
<1>1. IInv => TcpFieldsCaptured
  <2> SUFFICES ASSUME ShownInv, Found, detail.dump.protocol = 6
               PROVE  detail.read <= detail.dump.caplen
    BY DEF IInv, TcpFieldsCaptured
  <2> QED
    BY ParserCoversTree DEF ShownInv, Found
<1> QED
  BY <1>1, DetailInvariant, PTL

(***************************************************************************)
(* The numbers of a row, which the parsers of live captures and of files   *)
(* put together, are the numbers that start_tree_md finds for its page.    *)
(***************************************************************************)
THEOREM PageTellsOfRow == Spec => []PageTellsRow
<1>1. IInv => PageTellsRow
  <2> SUFFICES ASSUME ShownInv, Found PROVE PageTellsRow
    BY DEF IInv, PageTellsRow
  <2>1. /\ detail.dump \in Frames /\ detail.text = TreeText(detail.dump)
        /\ \E n \in Nat : IsRow(detail.row, n, detail.dump)
    BY DEF ShownInv, Found
  <2>2. PICK n \in Nat : IsRow(detail.row, n, detail.dump)
    BY <2>1
  <2> QED
    BY <2>1, <2>2, RowMatchesText DEF PageTellsRow
<1> QED
  BY <1>1, DetailInvariant, PTL

\* The heading that start_tree_md gives the tree of a packet is that of the
\* protocol that the parser put in the row.
THEOREM TreeIsOfItsRow == Spec => []TreeIsOfRow
<1>1. IInv => TreeIsOfRow
  <2> SUFFICES ASSUME IInv, Found
               PROVE  detail.rows = <<"ether", "ip_root", Heading(detail.row.proto)>>
    BY DEF TreeIsOfRow
  <2>1. PICK n \in Nat : IsRow(detail.row, n, detail.dump)
    BY DEF IInv, ShownInv, Found
  <2>2. detail.dump \in Frames
    BY DEF IInv, ShownInv, Found
  <2> DEFINE L == Lists(detail.dump.protocol)
  <2>3. /\ heap = Tree(built, L) /\ root = <<built, "root">>
        /\ detail.rows = TopLevel(heap, root)
    BY DEF IInv, PageInv, TreeInv, Found
  <2>4. WellMade(L) /\ TopIs(L, Heading(detail.row.proto))
    <3>1. detail.row.proto \in {"TCP", "UDP", "ICMP"}
      BY <2>1 DEF IsRow, my_packet_handler, Protocol, Row
    <3>2. CASE detail.row.proto = "TCP"
      BY <2>1, <2>2, <3>2, RowProtocols, TcpWellMade DEF Heading
    <3>3. CASE detail.row.proto = "UDP"
      BY <2>1, <2>2, <3>3, RowProtocols, UdpWellMade DEF Heading
    <3>4. CASE detail.row.proto = "ICMP"
      BY <2>1, <2>2, <3>4, RowProtocols, IcmpWellMade DEF Heading
    <3> QED
      BY <3>1, <3>2, <3>3, <3>4
  <2> HIDE DEF L
  <2>5. detail.rows = [i \in 1..Len(L["root"]) |-> L["root"][i]]
    BY <2>3, <2>4, TopOfTree
  <2> DEFINE h == Heading(detail.row.proto)
  <2>6. /\ Len(L["root"]) = 3 /\ L["root"][1] = "ether"
        /\ L["root"][2] = "ip_root" /\ L["root"][3] = h
    BY <2>4 DEF TopIs
  <2> HIDE DEF h
  <2>7. detail.rows = <<"ether", "ip_root", h>>
    BY <2>5, <2>6
  <2> QED
    BY <2>7 DEF h
<1> QED
  BY <1>1, DetailInvariant, PTL

\* TreeModel::parent undoes TreeModel::index, for every item of every tree.
THEOREM ParentsOfIndexes == Spec => []ParentOfIndex
<1>1. IInv => ParentOfIndex
  <2> SUFFICES ASSUME IInv, page = "pkt", NEW p \in Indexes, NEW r \in 0..(rowCount(p) - 1)
               PROVE  parent(index(r, p)) = p
    BY DEF ParentOfIndex
  <2>1. /\ built \in Nat \ {0} /\ root = <<built, "root">>
        /\ \E protocol \in Protocols : heap = Tree(built, Lists(protocol))
    BY DEF IInv, PageInv, TreeInv
  <2>2. PICK protocol \in Protocols : heap = Tree(built, Lists(protocol))
    BY <2>1
  <2> DEFINE L == Lists(protocol)
  <2>3. WellMade(L)
    BY AllWellMade DEF Protocols
  <2> HIDE DEF L
  <2>4. Live(heap) = {built} \X Items(L) /\ root \in Live(heap)
    BY <2>1, <2>2, <2>3, TreeItems, HoldersAreItems DEF L
  <2>5. \A x \in Live(heap) : x # NULL /\ x # Invalid
    BY <2>1, <2>4 DEF NULL, Invalid
  <2>6. /\ ItemOf(p) \in Live(heap)
        /\ p = Invalid \/ (p = <<row(ItemOf(p)), ItemOf(p)>> /\ ItemOf(p) # root)
    <3>1. CASE p = Invalid
      BY <2>4, <3>1 DEF ItemOf
    <3>2. CASE p # Invalid
      <4>1. PICK x \in Live(heap) \ {root} : p = <<row(x), x>>
        BY <3>2 DEF Indexes
      <4>2. ItemOf(p) = x
        BY <3>2, <4>1 DEF ItemOf
      <4> QED
        BY <4>1, <4>2
    <3> QED
      BY <3>1, <3>2
  <2> DEFINE q == ItemOf(p)
             c == heap.children[q][r + 1]
  <2>7. r \in Nat /\ r < rowCount(p) /\ r + 1 \in 1..Len(heap.children[q])
    <3>1. heap.children \in [Live(heap) -> Seq(Live(heap))]
      BY <2>2, <2>3, TreeTyped DEF L
    <3>2. Len(heap.children[q]) \in Nat /\ rowCount(p) = Len(heap.children[q])
      BY <2>6, <3>1 DEF rowCount
    <3> QED
      BY <3>2
  <2>8. c \in Live(heap) /\ heap.parent[c] = q
    BY <2>2, <2>3, <2>6, <2>7, ChildPointsBack DEF L
  <2>9. index(r, p) = <<r, c>>
    BY <2>7 DEF index
  <2> HIDE DEF c
  <2>10. <<r, c>> # Invalid /\ ItemOf(<<r, c>>) = c
    BY <2>5, <2>8 DEF Invalid, ItemOf
  <2>11. q # NULL
    BY <2>5, <2>6
  <2>12. parent(<<r, c>>) = IF q = root THEN Invalid ELSE <<row(q), q>>
    BY <2>8, <2>10, <2>11 DEF parent
  <2>13. CASE p = Invalid
    <3>1. q = root
      BY <2>13 DEF ItemOf
    <3> QED
      BY <2>9, <2>12, <2>13, <3>1
  <2>14. CASE p # Invalid
    BY <2>6, <2>9, <2>12, <2>14
  <2> QED
    BY <2>13, <2>14
<1> QED
  BY <1>1, DetailInvariant, PTL

\* setPacketTree deletes the tree that it replaces, to the last item.
THEOREM ReplacedTreesAreFreed == Spec => ReplacedIsFreed
<1> DEFINE A == root # NULL /\ root' # root =>
                  \A x \in Live(heap) : x[1] = root[1] => x \notin Live(heap')
<1>1. IInv /\ [Next]_vars => [A]_vars
  <2> SUFFICES ASSUME IInv, [Next]_vars, root # NULL, root' # root,
                      NEW x \in Live(heap), x[1] = root[1]
               PROVE  x \notin Live(heap')
    OBVIOUS
  <2>1. PICK i \in 1..Len(vec), protocol \in Protocols : DoubleClick(vec[i], protocol)
    BY OtherSteps DEF treeVars
  <2>2. built' = built + 1 /\ heap' = start_tree_md(built', protocol)
    BY <2>1 DEF DoubleClick
  <2>3. heap' = Tree(built', Lists(protocol))
    BY <2>2, NewTree DEF IInv
  <2>4. \A y \in Live(heap') : y[1] = built'
    <3>1. WellMade(Lists(protocol))
      BY AllWellMade DEF Protocols
    <3>2. Live(heap') = {built'} \X Items(Lists(protocol))
      BY <2>3, <3>1, TreeItems
    <3> QED
      BY <3>2
  <2>5. built \in Nat /\ root[1] = built
    BY DEF IInv, TreeInv
  <2> QED
    BY <2>2, <2>4, <2>5
<1>2. []IInv /\ [][Next]_vars => [][A]_vars
  BY <1>1, PTL
<1> QED
  BY <1>2, DetailInvariant DEF Spec, ReplacedIsFreed

\* A number with eight binary places: each place can be read off.
LEMMA Places ==
    ASSUME NEW b0 \in 0..1, NEW b1 \in 0..1, NEW b2 \in 0..1, NEW b3 \in 0..1,
           NEW b4 \in 0..1, NEW b5 \in 0..1, NEW b6 \in 0..1, NEW b7 \in 0..1
    PROVE  LET n == 128 * b7 + 64 * b6 + 32 * b5 + 16 * b4 + 8 * b3 + 4 * b2 + 2 * b1 + b0
           IN  /\ (n \div 1) % 2 = b0 /\ (n \div 2) % 2 = b1
               /\ (n \div 4) % 2 = b2 /\ (n \div 8) % 2 = b3
               /\ (n \div 16) % 2 = b4 /\ (n \div 32) % 2 = b5
               /\ (n \div 64) % 2 = b6 /\ (n \div 128) % 2 = b7
OBVIOUS

LEMMA FlagsAreWire ==
    ASSUME NEW flags, flags \subseteq TcpFlags
    PROVE  flags = {w[2] : w \in {v \in Wire : BitSet(FlagsNumber(flags), v[1])}}
<1> DEFINE B(b) == IF b \in flags THEN 1 ELSE 0
           n == FlagsNumber(flags)
<1>1. n = 128 * B("CWR") + 64 * B("ECE") + 32 * B("URG") + 16 * B("ACK")
            + 8 * B("PSH") + 4 * B("RST") + 2 * B("SYN") + B("FIN")
  BY DEF FlagsNumber, Bit
<1>2. \A b : B(b) \in 0..1
  OBVIOUS
<1> HIDE DEF B, n
<1>3. /\ BitSet(n, 1) <=> B("FIN") = 1
      /\ BitSet(n, 2) <=> B("SYN") = 1
      /\ BitSet(n, 4) <=> B("RST") = 1
      /\ BitSet(n, 8) <=> B("PSH") = 1
      /\ BitSet(n, 16) <=> B("ACK") = 1
      /\ BitSet(n, 32) <=> B("URG") = 1
      /\ BitSet(n, 64) <=> B("ECE") = 1
      /\ BitSet(n, 128) <=> B("CWR") = 1
  <2>1. PICK b0 \in 0..1, b1 \in 0..1, b2 \in 0..1, b3 \in 0..1,
             b4 \in 0..1, b5 \in 0..1, b6 \in 0..1, b7 \in 0..1 :
               /\ b0 = B("FIN") /\ b1 = B("SYN") /\ b2 = B("RST") /\ b3 = B("PSH")
               /\ b4 = B("ACK") /\ b5 = B("URG") /\ b6 = B("ECE") /\ b7 = B("CWR")
    BY <1>2
  <2>2. n = 128 * b7 + 64 * b6 + 32 * b5 + 16 * b4 + 8 * b3 + 4 * b2 + 2 * b1 + b0
    BY <1>1, <2>1
  <2>3. /\ (n \div 1) % 2 = b0 /\ (n \div 2) % 2 = b1
        /\ (n \div 4) % 2 = b2 /\ (n \div 8) % 2 = b3
        /\ (n \div 16) % 2 = b4 /\ (n \div 32) % 2 = b5
        /\ (n \div 64) % 2 = b6 /\ (n \div 128) % 2 = b7
    BY <2>2, Places
  <2> QED
    BY <2>1, <2>3 DEF BitSet
<1>4. \A b : B(b) = 1 <=> b \in flags
  BY DEF B
<1>5. \A v \in Wire : BitSet(n, v[1]) <=> v[2] \in flags
  BY <1>3, <1>4 DEF Wire
<1>6. \A b \in TcpFlags : \E v \in Wire : v[2] = b
  BY DEF Wire, TcpFlags
<1>7. {w[2] : w \in {v \in Wire : BitSet(n, v[1])}} = flags
  BY <1>5, <1>6
<1> QED
  BY <1>7 DEF n

\* The three flags of the IP header, of their number: text and lines.
LEMMA MeaningIsSet ==
    ASSUME NEW n \in 0..7
    PROVE  /\ IpFlagsMeaning(n) = "Don't fragment" <=> "DF" \in IpFlagsSet(n)
           /\ IpFlagsMeaning(n) = "None" <=> IpFlagsSet(n) \subseteq {"RF"}
<1>1. "DF" \in IpFlagsSet(n) <=> BitSet(n, 2)
  BY DEF IpFlagsSet
<1>2. "MF" \in IpFlagsSet(n) <=> BitSet(n, 1)
  BY DEF IpFlagsSet
<1>3. IpFlagsSet(n) \subseteq {"RF"} <=> "DF" \notin IpFlagsSet(n) /\ "MF" \notin IpFlagsSet(n)
  BY DEF IpFlagsSet
<1>4. /\ IpFlagsMeaning(n) = "Don't fragment" <=> BitSet(n, 2)
      /\ IpFlagsMeaning(n) = "None" <=> ~BitSet(n, 2) /\ ~BitSet(n, 1)
  BY DEF IpFlagsMeaning
<1> QED
  BY <1>1, <1>2, <1>3, <1>4

\* The number of a flag field, its names and its lines are of the same bits.
THEOREM FlagsTellTheSame == Spec => []FlagsTellSame
<1>1. IInv => FlagsTellSame
  <2> SUFFICES ASSUME IInv, Found PROVE FlagsTellSame
    BY DEF FlagsTellSame
  <2>1. PICK f \in Frames : f = detail.dump /\ detail.text = TreeText(f)
    BY DEF IInv, ShownInv, Found
  <2>2. PICK n : n = IpFlagsNumber(f.p)
    OBVIOUS
  <2>3. /\ detail.text.ip.meaning = IpFlagsMeaning(n) /\ detail.text.ip.set = IpFlagsSet(n)
    BY <2>1, <2>2 DEF TreeText, IpPage
  <2>4. n \in 0..7
    <3>1. f.p.frag_off \in Short
      BY FramesAreFrames DEF Fields
    <3>2. ntohs(f.p.frag_off) \in Nat
      BY <3>1, Short16
    <3> QED
      BY <2>2, <3>2 DEF IpFlagsNumber
  <2>5. ASSUME f.protocol = 6
        PROVE  detail.text.transport.names =
                 {w[2] : w \in {v \in Wire : BitSet(detail.text.transport.flags, v[1])}}
    <3>1. /\ detail.text.transport.names = f.p.flags
          /\ detail.text.transport.flags = FlagsNumber(f.p.flags)
      BY <2>1, <2>5 DEF TreeText, TransportPage
    <3>2. f.p.flags \subseteq TcpFlags
      BY FramesAreFrames DEF Fields
    <3> QED
      BY <3>1, <3>2, FlagsAreWire
  <2> QED
    BY <2>1, <2>3, <2>4, <2>5, MeaningIsSet DEF FlagsTellSame
<1> QED
  BY <1>1, DetailInvariant, PTL

LEMMA HexLines ==
    ASSUME NEW f \in Frames
    PROVE  /\ Len(start_hax(f)) = (f.caplen + 15) \div 16
           /\ Len(start_hax(f)) \in Nat
           /\ \A k \in 1..Len(start_hax(f)) :
                /\ start_hax(f)[k].offset = 16 * (k - 1)
                /\ \A j \in 1..16 :
                     start_hax(f)[k].cells[j] =
                        IF 16 * (k - 1) + (j - 1) < f.caplen THEN 16 * (k - 1) + (j - 1) ELSE -1
<1>1. (f.caplen + 15) \div 16 \in Nat
  BY FramesAreFrames
<1> QED
  BY <1>1 DEF start_hax, LineBytes, Pad

\* start_hax shows every captured byte, once and in order.
THEOREM HexShowsDump == Spec => []HexIsDump
<1>1. IInv => HexIsDump
  <2> SUFFICES ASSUME IInv, Found PROVE HexIsDump
    BY DEF HexIsDump
  <2>1. PICK f \in Frames : f = detail.dump /\ detail.hex = start_hax(f)
    BY DEF IInv, ShownInv, PageInv, Found
  <2> DEFINE Cell(c) == detail.hex[c[1]].cells[c[2]]
             All == (1..Len(detail.hex)) \X (1..16)
             Bytes == {c \in All : Cell(c) # -1}
  <2>2. PICK lines \in Nat : lines = Len(detail.hex) /\ lines = (f.caplen + 15) \div 16
    BY <2>1, HexLines
  <2>3. f.caplen \in Nat
    BY FramesAreFrames
  <2>4. ASSUME NEW k \in 1..lines, NEW j \in 1..16
        PROVE  detail.hex[k].cells[j] =
                 IF 16 * (k - 1) + (j - 1) < f.caplen THEN 16 * (k - 1) + (j - 1) ELSE -1
    <3>1. k \in 1..Len(start_hax(f))
      BY <2>1, <2>2
    <3>2. start_hax(f)[k].cells[j] =
            IF 16 * (k - 1) + (j - 1) < f.caplen THEN 16 * (k - 1) + (j - 1) ELSE -1
      BY <3>1, HexLines
    <3> QED
      BY <2>1, <3>2
  <2>5. ASSUME NEW k \in 1..lines PROVE detail.hex[k].offset = detail.hex[k].cells[1]
    <3>1. detail.hex[k].offset = 16 * (k - 1)
      BY <2>1, <2>2, HexLines
    <3>2. 16 * (k - 1) < f.caplen
      BY <2>2, <2>3
    <3>3. 1 \in 1..16 /\ 16 * (k - 1) + (1 - 1) = 16 * (k - 1)
      OBVIOUS
    <3> QED
      BY <2>4, <3>1, <3>2, <3>3
  <2>6. ASSUME NEW c \in Bytes
        PROVE  \E k \in 1..lines, j \in 1..16 :
                 /\ c = <<k, j>> /\ Cell(c) = 16 * (k - 1) + (j - 1)
                 /\ 16 * (k - 1) + (j - 1) < f.caplen
    <3>1. PICK k \in 1..lines, j \in 1..16 : c = <<k, j>>
      BY <2>2
    <3>2. Cell(c) = detail.hex[k].cells[j] /\ Cell(c) # -1
      BY <3>1
    <3> QED
      BY <2>4, <3>1, <3>2
  <2>7. ASSUME NEW b \in 0..(f.caplen - 1)
        PROVE  \E c \in Bytes : Cell(c) = b
    <3>1. PICK k \in 1..lines, j \in 1..16 : 16 * (k - 1) + (j - 1) = b
      <4> DEFINE k == (b \div 16) + 1
                 j == (b % 16) + 1
      <4>1. k \in 1..lines /\ j \in 1..16 /\ 16 * (k - 1) + (j - 1) = b
        BY <2>2, <2>3
      <4> QED
        BY <4>1
    <3>2. detail.hex[k].cells[j] = b
      <4>1. b < f.caplen
        BY <2>3
      <4>2. detail.hex[k].cells[j] = IF b < f.caplen THEN b ELSE -1
        BY <2>4, <3>1
      <4> QED
        BY <4>1, <4>2
    <3>3. <<k, j>> \in All /\ Cell(<<k, j>>) = b
      BY <2>2, <3>2
    <3> QED
      BY <3>3
  <2> HIDE DEF Cell
  <2>8. {Cell(c) : c \in Bytes} = 0..(f.caplen - 1)
    <3>1. ASSUME NEW c \in Bytes PROVE Cell(c) \in 0..(f.caplen - 1)
      <4>1. PICK k \in 1..lines, j \in 1..16 :
              Cell(c) = 16 * (k - 1) + (j - 1) /\ 16 * (k - 1) + (j - 1) < f.caplen
        BY <2>6
      <4> QED
        BY <2>3, <4>1
    <3> QED
      BY <2>7, <3>1
  <2>9. ASSUME NEW c \in Bytes, NEW d \in Bytes,
               c[1] < d[1] \/ (c[1] = d[1] /\ c[2] < d[2])
        PROVE  Cell(c) < Cell(d)
    <3>1. PICK k \in 1..lines, j \in 1..16 : c = <<k, j>> /\ Cell(c) = 16 * (k - 1) + (j - 1)
      BY <2>6
    <3>2. PICK l \in 1..lines, i \in 1..16 : d = <<l, i>> /\ Cell(d) = 16 * (l - 1) + (i - 1)
      BY <2>6
    <3>3. k < l \/ (k = l /\ j < i)
      BY <2>9, <3>1, <3>2
    <3>4. 16 * (k - 1) + (j - 1) < 16 * (l - 1) + (i - 1)
      BY <3>3
    <3> QED
      BY <3>1, <3>2, <3>4
  <2>10. ASSUME NEW k \in 1..Len(detail.hex) PROVE detail.hex[k].offset = Cell(<<k, 1>>)
    BY <2>2, <2>5 DEF Cell
  <2> QED
    BY <2>1, <2>8, <2>9, <2>10 DEF HexIsDump, LineBytes, Pad, Cell
<1> QED
  BY <1>1, DetailInvariant, PTL

-----------------------------------------------------------------------------
LEMMA Smallest ==
    ASSUME NEW S, S \subseteq Nat, S # {}
    PROVE  \E x \in S : \A y \in S : x <= y
<1>1. PICK n \in S : TRUE
  OBVIOUS
<1> DEFINE D == 1..n
           T == {1..k : k \in {m \in S : m <= n}}
<1>2. IsFiniteSet(D)
  BY <1>1, FS_Interval
<1>3. IsWellFoundedOn(StrictSubsetOrdering(D), SUBSET D)
  <2>1. IsWellFoundedOn(StrictSubsetOrdering(D), FiniteSubsetsOf(D))
    BY FS_StrictSubsetOrderingWellFounded
  <2>2. FiniteSubsetsOf(D) = SUBSET D
    BY <1>2, FS_FiniteSubsetsOfFinite
  <2> QED BY <2>1, <2>2
<1>4. T \subseteq SUBSET D /\ T # {}
  BY <1>1
<1>5. PICK X \in T : \A Y \in T : ~ (<<Y, X>> \in StrictSubsetOrdering(D))
  <2> HIDE DEF T, D
  <2> QED BY <1>3, <1>4, WFMin
<1>6. PICK x \in S : x <= n /\ X = 1..x
  BY <1>5
<1>7. ASSUME NEW y \in S, y < x PROVE FALSE
  <2>1. 1..y \in T
     BY <1>1, <1>6, <1>7
  <2>2. 1..y # 1..x /\ 1..y \subseteq 1..x
     <3>1. x \in 1..x /\ x \notin 1..y
       BY <1>7
     <3> QED BY <1>7, <3>1
  <2>3. <<1..y, X>> \in StrictSubsetOrdering(D)
     BY <1>1, <1>6, <1>7, <2>2 DEF StrictSubsetOrdering
  <2> QED BY <2>1, <2>3, <1>5
<1> QED BY <1>7

\* The only way to take all of 1..n in order.
LEMMA IncreasingIsIdentity ==
    ASSUME NEW n \in Nat, NEW at \in [1..n -> 1..n],
           \A i, j \in 1..n : i < j => at[i] < at[j]
    PROVE  \A i \in 1..n : at[i] = i
<1> DEFINE Low == {i \in 1..n : at[i] < i}
           High == {m \in 0..n : \E i \in 1..n : at[i] > i /\ m = n - i}
<1>1. Low = {}
  <2> SUFFICES ASSUME Low # {} PROVE FALSE
    OBVIOUS
  <2>1. Low \subseteq Nat
    OBVIOUS
  <2>2. PICK m \in Low : \A i \in Low : m <= i
    BY <2>1, Smallest
  <2>3. m \in 1..n /\ at[m] \in 1..n /\ at[m] < m
    OBVIOUS
  <2>4. m - 1 \in 1..n /\ at[m - 1] \in 1..n /\ at[m - 1] < at[m]
    <3>1. m - 1 \in 1..n /\ m - 1 < m
      BY <2>3
    <3> QED
      BY <2>3, <3>1
  <2>5. m - 1 \in Low
    BY <2>3, <2>4
  <2> QED
    BY <2>2, <2>3, <2>5
<1>2. High = {}
  <2> SUFFICES ASSUME High # {} PROVE FALSE
    OBVIOUS
  <2>1. High \subseteq Nat
    OBVIOUS
  <2>2. PICK k \in High : \A l \in High : k <= l
    BY <2>1, Smallest
  <2>3. PICK m \in 1..n : at[m] > m /\ k = n - m
    OBVIOUS
  <2>4. at[m] \in 1..n /\ m + 1 \in 1..n /\ at[m + 1] \in 1..n /\ at[m] < at[m + 1]
    <3>1. at[m] \in 1..n
      OBVIOUS
    <3>2. m + 1 \in 1..n /\ m < m + 1
      BY <2>3, <3>1
    <3> QED
      BY <3>1, <3>2
  <2>5. n - (m + 1) \in High
    BY <2>3, <2>4
  <2>6. k <= n - (m + 1)
    BY <2>2, <2>5
  <2> QED
    BY <2>3, <2>6
<1>3. ASSUME NEW i \in 1..n PROVE at[i] = i
  <2>1. ~(at[i] < i)
    BY <1>1
  <2>2. ~(at[i] > i)
    <3>1. n - i \in 0..n
      OBVIOUS
    <3> QED
      BY <1>2, <3>1
  <2> QED
    BY <2>1, <2>2
<1> QED
  BY <1>3

\* A file in which every frame gets a row is read whole.
LEMMA WholeIsRead ==
    ASSUME LogInv, FileInv, pcapFile_Read(file)
    PROVE  /\ vec_dump' = [i \in 1..Len(file) |-> [num |-> i - 1, frame |-> file[i]]]
           /\ vec' = [i \in 1..Len(file) |-> my_packet_handler(i - 1, file[i])]
<1>1. num = 0 /\ vec = <<>> /\ vec_dump = <<>>
  <2>1. page = "nic" /\ num = 0 /\ vec_dump \in Seq(Dumps)
    BY DEF pcapFile_Read, LogInv, LogTypes
  <2>2. vec = <<>> /\ ~wk_life /\ posted = NoDump /\ Len(vec_dump) = 0
    BY <2>1 DEF LogInv, Counted
  <2> QED
    BY <2>1, <2>2
<1>2. PICK n \in Nat : n = Len(file)
  BY DEF FileInv
<1>3. Rowed(file) = 1..n
  BY <1>1, <1>2 DEF Rowed, FileInv
<1>4. Cardinality(Rowed(file)) = n
  <2>1. Cardinality(1..n) = IF 1 > n THEN 0 ELSE n - 1 + 1
    BY FS_Interval
  <2> QED
    BY <1>3, <2>1
<1>5. PICK at \in [1..n -> 1..n] :
        /\ \A i, j \in DOMAIN at : i < j => at[i] < at[j]
        /\ vec_dump' = vec_dump \o
             [i \in DOMAIN at |-> [num |-> num + (i - 1), frame |-> file[at[i]]]]
        /\ vec' = vec \o [i \in DOMAIN at |-> packet_func(num + (i - 1), file[at[i]])]
  BY <1>3, <1>4 DEF pcapFile_Read
<1>6. \A i \in 1..n : at[i] = i
  BY <1>5, IncreasingIsIdentity
<1> DEFINE D == [i \in 1..n |-> [num |-> i - 1, frame |-> file[i]]]
           V == [i \in 1..n |-> my_packet_handler(i - 1, file[i])]
<1>7. \A i \in 1..n : num + (i - 1) = i - 1
  BY <1>1
<1>8. [i \in DOMAIN at |-> [num |-> num + (i - 1), frame |-> file[at[i]]]] = D
  BY <1>6, <1>7
<1>9. [i \in DOMAIN at |-> packet_func(num + (i - 1), file[at[i]])] = V
  BY <1>6, <1>7, SameParser
<1>10. <<>> \o D = D /\ <<>> \o V = V
  <2> DEFINE E(i) == [num |-> i - 1, frame |-> file[i]]
             W(i) == my_packet_handler(i - 1, file[i])
             A == {E(i) : i \in 1..n}
             B == {W(i) : i \in 1..n}
  <2>1. D = [i \in 1..n |-> E(i)] /\ V = [i \in 1..n |-> W(i)]
    OBVIOUS
  <2>2. \A i \in 1..n : E(i) \in A /\ W(i) \in B
    OBVIOUS
  <2> HIDE DEF E, W, A, B, D, V
  <2>3. D \in Seq(A) /\ V \in Seq(B)
    BY <2>1, <2>2
  <2> QED
    BY <2>3
<1> HIDE DEF D, V
<1>11. vec_dump' = D /\ vec' = V
  BY <1>1, <1>5, <1>8, <1>9, <1>10
<1> QED
  BY <1>2, <1>11 DEF D, V

\* A saved session that is opened again is the session: the two parsers agree on
\* every frame that got a row, and nothing of what was open before is left.
THEOREM SavedFilesReadBack == Spec => SavedReadsBack
<1> DEFINE A == file # <<>> /\ pcapFile_Read(file) =>
                  /\ vec_dump' = [i \in 1..Len(file) |-> [num |-> i - 1, frame |-> file[i]]]
                  /\ vec' = [i \in 1..Len(file) |-> my_packet_handler(i - 1, file[i])]
<1>1. IInv => A
  BY WholeIsRead DEF IInv
<1>2. [][A]_vars => SavedReadsBack
  BY DEF SavedReadsBack
<1> HIDE DEF A
<1> QED
  BY <1>1, <1>2, DetailInvariant, PTL DEF Spec
=============================================================================
