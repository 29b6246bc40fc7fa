---------------------------- MODULE PacketDetail ----------------------------
(***************************************************************************)
(* From a captured frame to what the user sees of it: the row that         *)
(* Worker::my_packet_handler (live) or Pcap::packet_func (file) makes, the *)
(* raw packet that is stored beside it and saved, and the detail page of a *)
(* double-clicked row: the protocol tree that Pcap::start_tree_md builds   *)
(* in TreeModel out of TreeItems, and the lines of Pcap::start_hax.        *)
(*                                                                         *)
(* A frame is its captured length, the header fields the branches test and *)
(* the fields shown (PacketFields); a byte is its position.  A TreeItem is *)
(* <<g, v>>: v the variable that start_tree_md builds it in, g the number  *)
(* of the call.  One Pcap serves all views (Main.qml).  The interleavings  *)
(* of the capture thread are in CaptureSession: the user here waits for    *)
(* the worker before starting, leaving or opening.                         *)
(***************************************************************************)
EXTENDS PacketFields, SequencesExt

CONSTANTS
    Frames,      \* frames that arrive
    MaxPkts,     \* bound: rows of one capture, packets of one file
    MaxDetails   \* bound: detail pages opened

ASSUME FramesAssumption ==
    Frames \subseteq [caplen : Nat, ipv4 : BOOLEAN, ihl : 0..15, protocol : 0..255,
                      doff : 0..15, p : Fields]
\* A UDP or ICMP header that is not captured whole is read all the same, from
\* whatever lies behind; such frames are left out.
ASSUME WholeAssumption ==
    \A f \in Frames : f.protocol \in {1, 17} => f.caplen >= E_H + 4 * f.ihl + 8
ASSUME BoundsAssumption == MaxPkts \in Nat /\ MaxDetails \in Nat

VARIABLES
    page,       \* "nic", "capture" or "pkt": top of the StackView
    isCapturing,
    wk_life,    \* a worker is there
    wk_num,     \* Worker::num
    stop_flag,  \* Pcap::stop_flag; wk_flag is its negation when it is TRUE
    num,        \* Pcap::num
    vec,        \* Capture::vec, in the order of arrival
    vec_dump,   \* Pcap::vec_dump
    posted,     \* the call of dump_push_back that is still queued, or NoDump
    file,       \* the frames that save_md wrote last
    heap,       \* TreeItems not deleted: their parent and children
    root,       \* TreeModel::root
    built,      \* trees built
    detail      \* what the PktView shows

workerVars == <<isCapturing, wk_life, wk_num, stop_flag>>
listVars == <<num, vec, vec_dump, posted>>
treeVars == <<heap, root, built>>
vars == <<page, workerVars, listVars, file, treeVars, detail>>

NULL == <<0, "nullptr">>
NoFrame == [caplen |-> 0]
NoDump == [num |-> 0, frame |-> NoFrame]
NoDetail == [row |-> <<>>, dump |-> NoFrame, rows |-> <<>>, read |-> 0, hex |-> <<>>, text |-> <<>>]

-----------------------------------------------------------------------------
(***************************************************************************)
(* Frame to row.  The live handler and the one for files are two copies of *)
(* the same checks, here two operators on shared parts.                    *)
(***************************************************************************)
HasIp(f) ==
    /\ f.caplen >= E_H /\ f.ipv4 /\ f.caplen >= E_H + IP_H
    /\ f.ihl >= 5 /\ f.caplen >= E_H + 4 * f.ihl

HasTcp(f) ==
    /\ f.caplen >= E_H + 4 * f.ihl + TCP_H
    /\ f.doff >= 5 /\ f.caplen >= E_H + 4 * f.ihl + 4 * f.doff

Names == {"TCP", "UDP", "ICMP"}
Protocol(f) ==
    CASE f.protocol = 6  -> IF HasTcp(f) THEN "TCP" ELSE "none"
      [] f.protocol = 17 -> "UDP"
      [] f.protocol = 1  -> "ICMP"
      [] OTHER -> "none"

\* The row of frame f as packet n; its protocol is "none" when there is no row.
Row(n, f, proto) ==
    [num |-> n, proto |-> proto, len |-> RowLen(f.p), info |-> Info(f.p, f.ihl, f.doff, proto)]

\* Mutant: the TCP header is not looked for in the captured bytes.
Bug_NoTcpCheck(n, f) ==
    Row(n, f, IF ~HasIp(f) THEN "none" ELSE IF f.protocol = 6 THEN "TCP" ELSE Protocol(f))

my_packet_handler(n, f) == Row(n, f, IF HasIp(f) THEN Protocol(f) ELSE "none")

\* Mutant: the copy for files asks for TCP options.
Bug_OptionsWanted(n, f) ==
    Row(n, f, IF HasIp(f) /\ (f.protocol = 6 => f.doff > 5) THEN Protocol(f) ELSE "none")

packet_func(n, f) == Row(n, f, IF HasIp(f) THEN Protocol(f) ELSE "none")

-----------------------------------------------------------------------------
(***************************************************************************)
(* TreeItem and TreeModel.                                                 *)
(***************************************************************************)
Live(h) == DOMAIN h.parent

\* Mutant: ~TreeItem deletes the children, and not theirs.
Bug_OneLevel(h, x) == {x} \cup ToSet(h.children[x])

\* What delete x deletes: x, its children, and theirs; a tree is three deep.
Destroyed(h, x) ==
    LET Below(S) == S \cup UNION {ToSet(h.children[y]) : y \in S}
    IN  Below(Below(Below({x})))

setPacketTree ==
    LET Kept == IF root = NULL THEN Live(heap) ELSE Live(heap) \ Destroyed(heap, root)
    IN  [parent |-> [x \in Kept |-> heap.parent[x]],
         children |-> [x \in Kept |-> heap.children[x]]]

\* A QModelIndex is <<row, item>>; the invalid index stands for the root.
Invalid == <<0, NULL>>
ItemOf(idx) == IF idx = Invalid THEN root ELSE idx[2]

row(x) ==
    IF heap.parent[x] = NULL THEN 0
    ELSE SelectInSeq(heap.children[heap.parent[x]], LAMBDA y : y = x) - 1

rowCount(idx) == Len(heap.children[ItemOf(idx)])
index(r, idx) ==
    IF r < rowCount(idx) THEN <<r, heap.children[ItemOf(idx)][r + 1]>> ELSE Invalid
parent(idx) ==
    LET p == heap.parent[ItemOf(idx)]
    IN  IF idx = Invalid \/ p \in {NULL, root} THEN Invalid ELSE <<row(p), p>>

-----------------------------------------------------------------------------
(***************************************************************************)
(* start_tree_md: the items that addChild is given, in this order, for     *)
(* each item that it is called on.                                         *)
(***************************************************************************)
EtherChildren == <<"ether_ch_dst", "ether_ch_src", "ether_ch_type">>
TosChildren == <<"ip_tos_ch1", "ip_tos_ch2">>
IpFlagChildren == <<"ip_flag_RF", "ip_flag_DF", "ip_flag_MF">>
IpChildren ==
    <<"ip_version", "ip_ipHeaderLen", "ip_tos", "ip_totalLen", "ip_id", "ip_flag",
      "ip_ttl", "ip_proto", "ip_check", "ip_check_stat", "ip_src", "ip_Dst">>
TcpFlagChildren ==
    <<"qs_res1", "qs_cwr", "qs_ece", "qs_urg", "qs_ack", "qs_psh", "qs_rst", "qs_syn", "qs_fin">>
TcpChildren ==
    <<"tcp_src", "tcp_dst", "tcp_len", "tcp_seq", "tcp_ack", "tcp_hLen", "tcp_flag_root",
      "tcp_win">>
UdpChildren == <<"udp_src", "udp_dst", "udp_len">>
IcmpChildren == <<"icmp_type_ch", "icmp_code">>

HeaderLists ==
    [root |-> <<"ether", "ip_root">>, ether |-> EtherChildren, ip_root |-> IpChildren,
     ip_tos |-> TosChildren, ip_flag |-> IpFlagChildren]

TcpLists == [root |-> <<"tcp_root">>, tcp_root |-> TcpChildren, tcp_flag_root |-> TcpFlagChildren]
UdpLists == [root |-> <<"udp_root">>, udp_root |-> UdpChildren]
IcmpLists == [root |-> <<"icmp_root">>, icmp_root |-> IcmpChildren]
NoLists == [root |-> <<>>]

\* Mutant: the branches for 1 and 17 are swapped.
Bug_Swapped(protocol) ==
    CASE protocol = 6  -> TcpLists
      [] protocol = 1  -> UdpLists
      [] protocol = 17 -> IcmpLists
      [] OTHER -> NoLists

TransportLists(protocol) ==
    CASE protocol = 6  -> TcpLists
      [] protocol = 17 -> UdpLists
      [] protocol = 1  -> IcmpLists
      [] OTHER -> NoLists

\* The whole call: what comes later is appended to the list that is there.
Lists(protocol) ==
    LET upper == HeaderLists  lower == TransportLists(protocol)
    IN  [q \in DOMAIN upper \cup DOMAIN lower |->
            IF q = "root" THEN upper[q] \o lower[q]
            ELSE IF q \in DOMAIN upper THEN upper[q] ELSE lower[q]]

\* Mutant: icmp_code keeps root, the parent that it was constructed with.
Bug_ParentKept(q, c) == IF c = "icmp_code" THEN "root" ELSE q

\* q->addChild(c) makes q the parent, whatever the constructor of c was given.
addChild(q, c) == q

Items(lists) == {"root"} \cup UNION {ToSet(lists[q]) : q \in DOMAIN lists}
Holder(lists, c) == CHOOSE q \in DOMAIN lists : c \in ToSet(lists[q])

Tree(g, lists) ==
    [parent |-> [x \in {g} \X Items(lists) |->
        IF x[2] = "root" THEN NULL ELSE <<g, addChild(Holder(lists, x[2]), x[2])>>],
     children |-> [x \in {g} \X Items(lists) |->
        IF x[2] \in DOMAIN lists
        THEN [i \in 1..Len(lists[x[2]]) |-> <<g, lists[x[2]][i]>>] ELSE <<>>]]

\* f, and g where f has no value.
Over(f, g) == [x \in DOMAIN f \cup DOMAIN g |-> IF x \in DOMAIN f THEN f[x] ELSE g[x]]

\* The tree of call g: the new root replaces the old tree, then gets its children.
start_tree_md(g, protocol) ==
    LET new == Tree(g, Lists(protocol))
    IN  [parent |-> Over(new.parent, setPacketTree.parent),
         children |-> Over(new.children, setPacketTree.children)]

\* The values in the titles of the items.
TreeText(f) ==
    [ether |-> EtherPage(f.p), ip |-> IpPage(f.p),
     transport |-> TransportPage(f.p, f.ihl, f.doff, f.protocol)]

\* Bytes of the frame that the fields shown come from: a prefix of this length.
ReadTo(f) ==
    E_H + 4 * f.ihl + (CASE f.protocol = 6  -> TCP_H
                         [] f.protocol = 17 -> 6
                         [] f.protocol = 1  -> 2
                         [] OTHER -> 0)

LineBytes == 16
Pad == -1  \* a cell that is blank

\* Mutant: the last byte is taken for padding.
Bug_LastPadded(f) ==
    [k \in 1..((f.caplen + LineBytes - 1) \div LineBytes) |->
        [offset |-> LineBytes * (k - 1),
         cells |-> [j \in 1..LineBytes |->
                      IF LineBytes * (k - 1) + j < f.caplen
                      THEN LineBytes * (k - 1) + (j - 1) ELSE Pad]]]

start_hax(f) ==
    [k \in 1..((f.caplen + LineBytes - 1) \div LineBytes) |->
        [offset |-> LineBytes * (k - 1),
         cells |-> [j \in 1..LineBytes |->
                      IF LineBytes * (k - 1) + (j - 1) < f.caplen
                      THEN LineBytes * (k - 1) + (j - 1) ELSE Pad]]]

-----------------------------------------------------------------------------
Init ==
    /\ page = "nic" /\ isCapturing = FALSE /\ wk_life = FALSE /\ wk_num = 0
    /\ stop_flag = FALSE /\ num = 0
    /\ vec = <<>> /\ vec_dump = <<>> /\ posted = NoDump /\ file = <<>>
    /\ heap = [parent |-> [x \in {} |-> NULL], children |-> [x \in {} |-> <<>>]]
    /\ root = NULL /\ built = 0 /\ detail = NoDetail

Clear == vec' = <<>> /\ vec_dump' = <<>>

OpenNic ==
    /\ page = "nic"
    /\ page' = "capture"
    /\ UNCHANGED <<workerVars, listVars, file, treeVars, detail>>

create_Th ==
    /\ page = "capture" /\ ~isCapturing /\ ~wk_life
    /\ isCapturing' = TRUE /\ wk_life' = TRUE /\ wk_num' = 0 /\ stop_flag' = FALSE
    /\ Clear
    /\ UNCHANGED <<page, num, posted, file, treeVars, detail>>

\* The row of a frame reaches Pcap; its raw packet is queued right behind it.
update_md(f) ==
    /\ wk_life /\ posted = NoDump
    /\ Len(vec) < MaxPkts /\ my_packet_handler(wk_num, f).proto # "none"
    /\ vec' = Append(vec, my_packet_handler(wk_num, f))
    /\ posted' = [num |-> wk_num, frame |-> f]
    /\ wk_num' = wk_num + 1
    /\ UNCHANGED <<page, isCapturing, wk_life, stop_flag, num, vec_dump, file, treeVars, detail>>

dump_push_back ==
    /\ posted # NoDump
    /\ vec_dump' = Append(vec_dump, posted) /\ posted' = NoDump
    /\ UNCHANGED <<page, workerVars, num, vec, file, treeVars, detail>>

\* The loop was broken or failed, and the last call of the worker was run.
WorkerEnds ==
    /\ wk_life /\ posted = NoDump
    /\ wk_life' = FALSE
    /\ UNCHANGED <<page, isCapturing, wk_num, stop_flag, listVars, file, treeVars, detail>>

\* stop_Th sets the flags only while there is a handle.
Stop ==
    /\ page = "capture" /\ isCapturing
    /\ isCapturing' = FALSE /\ stop_flag' = (stop_flag \/ wk_life)
    /\ UNCHANGED <<page, wk_life, wk_num, listVars, file, treeVars, detail>>

\* reset_md does nothing while wk_life is set.
Reset ==
    /\ page = "capture" /\ ~wk_life
    /\ Clear
    /\ UNCHANGED <<page, workerVars, num, posted, file, treeVars, detail>>

\* Only the dumps of a stopped session are written.
save_md ==
    /\ page = "capture" /\ stop_flag /\ vec_dump # <<>>
    /\ file' = [i \in 1..Len(vec_dump) |-> vec_dump[i].frame]
    /\ UNCHANGED <<page, workerVars, listVars, treeVars, detail>>

\* Mutant: the frames that get no row are stored all the same.
Bug_StoresAll(fs) ==
    /\ page = "nic"
    /\ page' = "capture"
    /\ vec_dump' = vec_dump \o [i \in 1..Len(fs) |-> [num |-> i - 1, frame |-> fs[i]]]
    /\ vec' = vec \o [i \in 1..Len(fs) |-> packet_func(i - 1, fs[i])]
    /\ UNCHANGED <<workerVars, num, posted, file, treeVars, detail>>

\* The frames of the file that get a row, in the order of the file.
Rowed(fs) == {i \in 1..Len(fs) : packet_func(num, fs[i]).proto # "none"}

\* Rows and raw packets are added to those there are and numbered from Pcap::num
\* on, which is set back at the end.
pcapFile_Read(fs) ==
    /\ page = "nic"
    /\ page' = "capture"
    /\ \E at \in [1..Cardinality(Rowed(fs)) -> Rowed(fs)] :
        /\ \A i, j \in DOMAIN at : i < j => at[i] < at[j]
        /\ vec_dump' = vec_dump \o
             [i \in DOMAIN at |-> [num |-> num + (i - 1), frame |-> fs[at[i]]]]
        /\ vec' = vec \o [i \in DOMAIN at |-> packet_func(num + (i - 1), fs[at[i]])]
    /\ num' = 0
    /\ UNCHANGED <<workerVars, posted, file, treeVars, detail>>

\* start_tree_md and start_hax look the number up and keep the last match.
Dump(n) ==
    LET At == {i \in 1..Len(vec_dump) : vec_dump[i].num = n}
    IN  IF At = {} THEN NoFrame ELSE vec_dump[CHOOSE i \in At : \A j \in At : j <= i].frame

\* What a view attached to the model reads at once: the items at the top.
TopLevel(h, r) == [i \in 1..Len(h.children[r]) |-> h.children[r][i][2]]

Shown(r, f) ==
    [row |-> r, dump |-> f, rows |-> TopLevel(heap', root'), hex |-> start_hax(f),
     read |-> IF f = NoFrame THEN 0 ELSE ReadTo(f),
     text |-> IF f = NoFrame THEN <<>> ELSE TreeText(f)]

\* Without a raw packet the fields are read from memory that is not a packet:
\* the tree is then one for any protocol.
DoubleClick(r, protocol) ==
    /\ page = "capture" /\ ~isCapturing /\ built < MaxDetails
    /\ Dump(r.num) # NoFrame => protocol = Dump(r.num).protocol
    /\ built' = built + 1 /\ root' = <<built', "root">>
    /\ heap' = start_tree_md(built', protocol)
    /\ page' = "pkt"
    /\ detail' = Shown(r, Dump(r.num))
    /\ UNCHANGED <<workerVars, listVars, file>>

PktBack ==
    /\ page = "pkt"
    /\ page' = "capture" /\ detail' = NoDetail
    /\ UNCHANGED <<workerVars, listVars, file, treeVars>>

\* stop_Th finds no handle, reset_md no worker; the tree and the flags stay.
Back ==
    /\ page = "capture" /\ ~wk_life
    /\ page' = "nic" /\ isCapturing' = FALSE
    /\ Clear
    /\ UNCHANGED <<wk_life, wk_num, stop_flag, num, posted, file, treeVars, detail>>

Next ==
    \/ OpenNic \/ create_Th \/ WorkerEnds \/ Reset \/ Stop \/ dump_push_back \/ save_md
    \/ PktBack \/ Back
    \/ \E f \in Frames : update_md(f)
    \/ \E fs \in BoundedSeq(Frames, MaxPkts) : pcapFile_Read(fs)
    \/ \E i \in 1..Len(vec), protocol \in {1, 2, 6, 17} : DoubleClick(vec[i], protocol)

Spec == Init /\ [][Next]_vars

-----------------------------------------------------------------------------
(***************************************************************************)
(* Properties.                                                             *)
(***************************************************************************)
\* The state is well formed: only TCP, UDP and ICMP have rows, every row but
\* the one whose call is queued has its raw packet at its place and with its
\* number, and no pointer leads to a deleted TreeItem.
TypeOK ==
    /\ page \in {"nic", "capture", "pkt"} /\ isCapturing \in BOOLEAN /\ wk_life \in BOOLEAN
    /\ stop_flag \in BOOLEAN /\ wk_num \in Nat /\ num \in Nat
    /\ \A i \in 1..Len(vec) : vec[i].proto \in Names /\ vec[i].num \in Nat
    /\ vec_dump \in Seq([num : Nat, frame : Frames]) /\ file \in Seq(Frames)
    /\ posted \in [num : Nat, frame : Frames] \cup {NoDump} /\ built \in 0..MaxDetails
    /\ Len(vec) = Len(vec_dump) + (IF posted = NoDump THEN 0 ELSE 1)
    /\ \A i \in 1..Len(vec_dump) : vec_dump[i].num = vec[i].num
    /\ heap.parent \in [Live(heap) -> Live(heap) \cup {NULL}]
    /\ heap.children \in [Live(heap) -> Seq(Live(heap))]
    /\ root \in Live(heap) \cup {NULL}

Heading(name) ==
    CASE name = "TCP" -> "tcp_root" [] name = "UDP" -> "udp_root" [] name = "ICMP" -> "icmp_root"
Found == page = "pkt" /\ detail.dump # NoFrame

\* The row and the page of one packet are of one protocol: the table's label
\* and the headings of the tree, each decided from the packet at its own place.
TreeIsOfRow == Found => detail.rows = <<"ether", "ip_root", Heading(detail.row.proto)>>

\* The numbers of the row, live or from a file, are those of its page: ports,
\* lengths (unsigned on the one side, signed on the other), flags, ICMP type.
PageTellsRow ==
    Found =>
        LET info == detail.row.info  shown == detail.text.transport
        IN  /\ detail.row.len = detail.text.ip.total + E_H
            /\ detail.row.proto \in {"TCP", "UDP"} => info.ports = shown.ports
            /\ detail.row.proto = "TCP" =>
                 info.len = shown.len /\ info.flags = shown.names \ {"ECE", "CWR"}
            /\ detail.row.proto = "UDP" => info.len = shown.len - 8
            /\ detail.row.proto = "ICMP" => info.type = shown.type

\* RFC 9293: the value of each flag in its byte.
Wire == {<<1, "FIN">>, <<2, "SYN">>, <<4, "RST">>, <<8, "PSH">>,
         <<16, "ACK">>, <<32, "URG">>, <<64, "ECE">>, <<128, "CWR">>}
\* A flag field has a number, a line of names and lines of its own on the page,
\* each put together apart: they tell of the same bits.
FlagsTellSame ==
    Found =>
        /\ detail.text.ip.meaning = "Don't fragment" <=> "DF" \in detail.text.ip.set
        /\ detail.text.ip.meaning = "None" <=> detail.text.ip.set \subseteq {"RF"}
        /\ detail.dump.protocol = 6 =>
             detail.text.transport.names =
                {w[2] : w \in {v \in Wire : BitSet(detail.text.transport.flags, v[1])}}

\* start_tree_md reads the headers of a TCP packet without looking at its
\* length: the checks made when the row was made, live or from a file, suffice.
TcpFieldsCaptured ==
    Found /\ detail.dump.protocol = 6 => detail.read <= detail.dump.caplen

\* The hex lines of start_hax show every captured byte, once and in order, and
\* each line starts with the offset of its first byte.
HexIsDump ==
    Found =>
        LET Cell(c) == detail.hex[c[1]].cells[c[2]]
            Bytes == {c \in (1..Len(detail.hex)) \X (1..LineBytes) : Cell(c) # Pad}
        IN  /\ {Cell(c) : c \in Bytes} = 0..(detail.dump.caplen - 1)
            /\ \A c, d \in Bytes :
                 c[1] < d[1] \/ (c[1] = d[1] /\ c[2] < d[2]) => Cell(c) < Cell(d)
            /\ \A k \in 1..Len(detail.hex) : detail.hex[k].offset = Cell(<<k, 1>>)

\* What QAbstractItemModel asks of a model: the parent of every index that
\* index(r, p) returns is p.
Indexes ==
    {Invalid} \cup {<<row(x), x>> : x \in {y \in Live(heap) : y[1] = root[1]} \ {root}}
ParentOfIndex ==
    page = "pkt" => \A p \in Indexes : \A r \in 0..(rowCount(p) - 1) : parent(index(r, p)) = p

\* A tree that is replaced is deleted to the last item.
ReplacedIsFreed ==
    [][root # NULL /\ root' # root =>
        \A x \in Live(heap) : x[1] = root[1] => x \notin Live(heap')]_vars

\* A saved session that is opened again has the rows and the raw packets it had,
\* numbered from 0: the two copies of the parser agree on what was captured, and
\* nothing of what was open before is left.
SavedReadsBack ==
    [][file # <<>> /\ pcapFile_Read(file) =>
        /\ vec_dump' = [i \in 1..Len(file) |-> [num |-> i - 1, frame |-> file[i]]]
        /\ vec' = [i \in 1..Len(file) |-> my_packet_handler(i - 1, file[i])]]_vars

\* "Source / destination MAC" of Ethernet II (README.md:43): the headline of the
\* tree and the lines under it name the same two addresses.
HeadlineNamesMacs == Found => detail.text.ether.title = detail.text.ether.lines
=============================================================================
