------------------------------ MODULE CaptureTable ------------------------------
(***************************************************************************)
(* Capture, the model behind the packet table: rows arrive at the end, a   *)
(* click on a column header sorts what is there by that column, and reset  *)
(* empties the table without touching the flags that turn a sort around.   *)
(*                                                                         *)
(* std::sort is any rearrangement that leaves no row before one the        *)
(* comparator puts ahead of it; rows that compare equal come out in any    *)
(* order.  It asks for a strict weak order: with any other comparator its  *)
(* behaviour is undefined.                                                 *)
(***************************************************************************)
EXTENDS Integers, Sequences

CONSTANTS
    Packets,   \* the st_pkt records that may arrive
    MaxRows    \* bound: rows in the table

Octets == [1..4 -> 0..255]
Protos == {"TCP", "UDP", "ICMP"}

ASSUME PacketsAssumption ==
    Packets \subseteq [num : Int, src : Octets, dst : Octets, proto : Protos, len : Int]
ASSUME RowsAssumption == MaxRows \in Nat

VARIABLES
    vec,        \* the rows of the table, top to bottom
    num_flag, src_flag, dst_flag, len_flag, proto_num,
    sorted      \* history: the column clicked last and the rows there were then

flags == <<num_flag, src_flag, dst_flag, len_flag, proto_num>>
vars == <<vec, flags, sorted>>

Columns == {"num", "src", "dst", "proto", "len"}

TypeOK ==
    /\ vec \in Seq(Packets)
    /\ num_flag \in BOOLEAN /\ src_flag \in BOOLEAN
    /\ dst_flag \in BOOLEAN /\ len_flag \in BOOLEAN
    /\ proto_num \in 0..2
    /\ sorted \in [by : Columns \cup {"none"}, rows : Nat]

Init ==
    /\ vec = <<>>
    /\ num_flag = FALSE /\ src_flag = FALSE /\ dst_flag = FALSE /\ len_flag = FALSE
    /\ proto_num = 0
    /\ sorted = [by |-> "none", rows |-> 0]

-----------------------------------------------------------------------------
(***************************************************************************)
(* The comparators, each with the flag that turns it around.               *)
(***************************************************************************)
Ordered(up, a, b) == IF up THEN a < b ELSE b < a

\* Mutant: the walk over the octets misses that the ones before must be equal.
Bug_AnyOctet(up, a, b) == \E i \in 1..4 : Ordered(up, a[i], b[i])

\* Addresses, octet by octet: the first that differs decides.
paser_and_sort(up, a, b) ==
    \E i \in 1..4 : Ordered(up, a[i], b[i]) /\ \A j \in 1..(i - 1) : a[j] = b[j]

get_proto_num(proto) == CASE proto = "UDP" -> 1 [] proto = "ICMP" -> 2 [] OTHER -> 0

\* Mutant: the distance is taken without wrapping it around.
Bug_NoWrap(proto, first) == get_proto_num(proto) - first

\* How far behind the protocol that comes first a protocol is.
Turn(proto, first) == (get_proto_num(proto) + 3 - first) % 3

\* The comparator of a column: up is its flag, first is proto_num.
Before(by, up, first, p, q) ==
    CASE by = "num" -> Ordered(up, p.num, q.num)
      [] by = "src" -> paser_and_sort(up, p.src, q.src)
      [] by = "dst" -> paser_and_sort(up, p.dst, q.dst)
      [] by = "len" -> Ordered(up, p.len, q.len)
      [] by = "proto" -> Turn(p.proto, first) < Turn(q.proto, first)

-----------------------------------------------------------------------------
Rows == 1..Len(vec)
Rearrangements ==
    {f \in [Rows -> Rows] : \A i, j \in Rows : i # j => f[i] # f[j]}

Sort(by, up, first) ==
    /\ \E f \in Rearrangements :
        /\ \A i, j \in Rows : i < j => ~Before(by, up, first, vec[f[j]], vec[f[i]])
        /\ vec' = [i \in Rows |-> vec[f[i]]]
    /\ sorted' = [by |-> by, rows |-> Len(vec)]

update_md(p) ==
    /\ Len(vec) < MaxRows
    /\ vec' = Append(vec, p)
    /\ UNCHANGED <<flags, sorted>>

reset ==
    /\ vec' = <<>>
    /\ sorted' = [sorted EXCEPT !.rows = 0]
    /\ UNCHANGED flags

\* Mutant: the flag is turned before the rows are sorted.
Bug_TurnedFirst ==
    /\ Sort("num", ~num_flag, 0)
    /\ num_flag' = ~num_flag
    /\ UNCHANGED <<src_flag, dst_flag, len_flag, proto_num>>

\* The number and address columns sort, then turn their flag: descending first.
sort_num ==
    /\ Sort("num", num_flag, 0)
    /\ num_flag' = ~num_flag
    /\ UNCHANGED <<src_flag, dst_flag, len_flag, proto_num>>

sort_src ==
    /\ Sort("src", src_flag, 0)
    /\ src_flag' = ~src_flag
    /\ UNCHANGED <<num_flag, dst_flag, len_flag, proto_num>>

sort_dst ==
    /\ Sort("dst", dst_flag, 0)
    /\ dst_flag' = ~dst_flag
    /\ UNCHANGED <<num_flag, src_flag, len_flag, proto_num>>

\* The protocol column moves on to the next protocol, then sorts.
sort_proto ==
    /\ proto_num' = (proto_num + 1) % 3
    /\ Sort("proto", TRUE, proto_num')
    /\ UNCHANGED <<num_flag, src_flag, dst_flag, len_flag>>

\* The length column turns its flag, then sorts: ascending first.
sort_len ==
    /\ len_flag' = ~len_flag
    /\ Sort("len", len_flag', 0)
    /\ UNCHANGED <<num_flag, src_flag, dst_flag, proto_num>>

Next ==
    \/ sort_num \/ sort_src \/ sort_dst \/ sort_proto \/ sort_len \/ reset
    \/ \E p \in Packets : update_md(p)

Spec == Init /\ [][Next]_vars
-----------------------------------------------------------------------------
(***************************************************************************)
(* Properties.                                                             *)
(***************************************************************************)
\* The direction in which the next click on a column sorts.
NextUp(by) ==
    CASE by = "num" -> num_flag [] by = "src" -> src_flag [] by = "dst" -> dst_flag
      [] by = "len" -> ~len_flag [] OTHER -> TRUE

\* The direction in which the last click on a column sorted.
LastUp(by) == IF by = "proto" THEN TRUE ELSE ~NextUp(by)

\* Every comparator, whichever way its flag stands, is a strict weak order on
\* the rows of the table: what std::sort needs to be defined at all.
ComparatorsAreOrders ==
    \A by \in Columns : \A i, j, k \in Rows :
        LET B(m, n) == Before(by, NextUp(by), proto_num, vec[m], vec[n])
        IN  /\ ~B(i, i)
            /\ B(i, j) /\ B(j, k) => B(i, k)
            /\ B(i, j) => B(i, k) \/ B(k, j)

\* The rows there were at the last click stay at the top in the order of that
\* click, through arrivals and resets, and the next click on the same column
\* sorts the other way round.  The protocol column does not turn but moves on.
HeadIsSorted ==
    /\ sorted.rows <= Len(vec)
    /\ \A i, j \in 1..sorted.rows :
        i < j => ~Before(sorted.by, LastUp(sorted.by), proto_num, vec[j], vec[i])

\* After a click on the protocol column, rows of the protocol that proto_num
\* names come first, whatever protocols the table holds.
ProtosInTurn ==
    sorted.by = "proto" =>
        \A i, j \in 1..sorted.rows :
            i < j /\ get_proto_num(vec[j].proto) = proto_num =>
                get_proto_num(vec[i].proto) = proto_num
=============================================================================
