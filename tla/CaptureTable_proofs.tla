-------------------------- MODULE CaptureTable_proofs --------------------------
(***************************************************************************)
(* The comparators of the packet table are strict weak orders, for every   *)
(* set of packets and every position of the flags.                         *)
(***************************************************************************)
EXTENDS CaptureTable, SequenceTheorems, TLAPS

Row == [num : Int, src : Octets, dst : Octets, proto : Protos, len : Int]

-----------------------------------------------------------------------------
(***************************************************************************)
(* Addresses.  The octet that decides between two addresses is the first   *)
(* that differs, so of three addresses two are decided at the same octet   *)
(* or at octets of which the earlier also decides the third pair.          *)
(***************************************************************************)
\* x comes before y, octet by octet.
Less(x, y) ==
    \/ x[1] < y[1]
    \/ x[1] = y[1] /\ x[2] < y[2]
    \/ x[1] = y[1] /\ x[2] = y[2] /\ x[3] < y[3]
    \/ x[1] = y[1] /\ x[2] = y[2] /\ x[3] = y[3] /\ x[4] < y[4]

LEMMA LessOrder ==
    ASSUME NEW a \in Octets, NEW b \in Octets, NEW c \in Octets
    PROVE  /\ Less(a, b) /\ Less(b, c) => Less(a, c)
           /\ Less(a, b) => Less(a, c) \/ Less(c, b)
<1> DEFINE a1 == a[1]  a2 == a[2]  a3 == a[3]  a4 == a[4]
           b1 == b[1]  b2 == b[2]  b3 == b[3]  b4 == b[4]
           c1 == c[1]  c2 == c[2]  c3 == c[3]  c4 == c[4]
           L(p, q, r, s, t, u, v, w) ==
              \/ p < t
              \/ p = t /\ q < u
              \/ p = t /\ q = u /\ r < v
              \/ p = t /\ q = u /\ r = v /\ s < w
           AB == L(a1, a2, a3, a4, b1, b2, b3, b4)
           BC == L(b1, b2, b3, b4, c1, c2, c3, c4)
           AC == L(a1, a2, a3, a4, c1, c2, c3, c4)
           CB == L(c1, c2, c3, c4, b1, b2, b3, b4)
<1>1. (Less(a, b) <=> AB) /\ (Less(b, c) <=> BC) /\ (Less(a, c) <=> AC) /\ (Less(c, b) <=> CB)
    BY DEF Less
<1>0. ASSUME NEW x \in Octets PROVE x[1] \in Int /\ x[2] \in Int /\ x[3] \in Int /\ x[4] \in Int
    BY DEF Octets
<1>2. /\ a1 \in Int /\ a2 \in Int /\ a3 \in Int /\ a4 \in Int
      /\ b1 \in Int /\ b2 \in Int /\ b3 \in Int /\ b4 \in Int
      /\ c1 \in Int /\ c2 \in Int /\ c3 \in Int /\ c4 \in Int
    BY <1>0
<1> HIDE DEF a1, a2, a3, a4, b1, b2, b3, b4, c1, c2, c3, c4
<1>3. AB /\ BC => AC
    BY <1>2
<1>4. AB => AC \/ CB
    BY <1>2
<1> HIDE DEF AB, BC, AC, CB
<1> QED  BY <1>1, <1>3, <1>4

LEMMA AddressOrder ==
    ASSUME NEW up \in BOOLEAN, NEW a \in Octets, NEW b \in Octets, NEW c \in Octets
    PROVE  LET B(x, y) == paser_and_sort(up, x, y)
           IN  /\ ~B(a, a)
               /\ B(a, b) /\ B(b, c) => B(a, c)
               /\ B(a, b) => B(a, c) \/ B(c, b)
<1>1. a[1] \in Int /\ a[2] \in Int /\ a[3] \in Int /\ a[4] \in Int
    BY DEF Octets
<1>2. \A x, y : paser_and_sort(up, x, y) <=>
        \/ Ordered(up, x[1], y[1])
        \/ Ordered(up, x[2], y[2]) /\ x[1] = y[1]
        \/ Ordered(up, x[3], y[3]) /\ x[1] = y[1] /\ x[2] = y[2]
        \/ Ordered(up, x[4], y[4]) /\ x[1] = y[1] /\ x[2] = y[2] /\ x[3] = y[3]
    BY DEF paser_and_sort
<1> DEFINE B(x, y) == paser_and_sort(up, x, y)
<1>3. ~B(a, a)
    BY <1>1, <1>2 DEF Ordered
<1>4. ASSUME NEW x, NEW y
      PROVE  B(x, y) <=> IF up THEN Less(x, y) ELSE Less(y, x)
    <2>1. CASE up
        BY <1>2, <2>1 DEF Ordered, Less
    <2>2. CASE ~up
        BY <1>2, <2>2 DEF Ordered, Less
    <2> QED  BY <2>1, <2>2
<1>5. B(a, b) /\ B(b, c) => B(a, c)
    BY <1>4, LessOrder
<1>6. B(a, b) => B(a, c) \/ B(c, b)
    BY <1>4, LessOrder
<1> QED  BY <1>3, <1>5, <1>6

LEMMA NumberOrder ==
    ASSUME NEW up \in BOOLEAN, NEW a \in Int, NEW b \in Int, NEW c \in Int
    PROVE  /\ ~Ordered(up, a, a)
           /\ Ordered(up, a, b) /\ Ordered(up, b, c) => Ordered(up, a, c)
           /\ Ordered(up, a, b) => Ordered(up, a, c) \/ Ordered(up, c, b)
BY DEF Ordered

LEMMA ComparatorOrder ==
    ASSUME NEW by \in Columns, NEW up \in BOOLEAN, NEW first \in 0..2,
           NEW p \in Row, NEW q \in Row, NEW r \in Row
    PROVE  LET B(x, y) == Before(by, up, first, x, y)
           IN  /\ ~B(p, p)
               /\ B(p, q) /\ B(q, r) => B(p, r)
               /\ B(p, q) => B(p, r) \/ B(r, q)
<1>1. CASE by = "src"
    BY <1>1, AddressOrder DEF Before, Row
<1>2. CASE by = "dst"
    BY <1>2, AddressOrder DEF Before, Row
<1>3. CASE by = "num"
    BY <1>3, NumberOrder DEF Before, Row
<1>4. CASE by = "len"
    BY <1>4, NumberOrder DEF Before, Row
<1>5. CASE by = "proto"
    <2>1. \A x \in Protos : Turn(x, first) \in Int
        BY DEF Turn, get_proto_num, Protos
    <2> QED  BY <1>5, <2>1 DEF Before, Row
<1> QED  BY <1>1, <1>2, <1>3, <1>4, <1>5 DEF Columns

-----------------------------------------------------------------------------
LEMMA RowsStay ==
    ASSUME TypeOK, NEW by \in Columns, NEW up, NEW first, Sort(by, up, first)
    PROVE  vec' \in Seq(Packets) /\ sorted' \in [by : Columns \cup {"none"}, rows : Nat]
<1>1. vec \in Seq(Packets) /\ Len(vec) \in Nat
    BY LenProperties DEF TypeOK
<1>2. PICK f \in [Rows -> Rows] : vec' = [i \in Rows |-> vec[f[i]]]
    BY DEF Sort, Rearrangements
<1>3. vec' \in [1..Len(vec) -> Packets]
    BY <1>1, <1>2, ElementOfSeq DEF Rows
<1>4. vec' \in Seq(Packets)
    BY <1>1, <1>3, IsASeq
<1> QED  BY <1>1, <1>4 DEF Sort

LEMMA TypeInit == Init => TypeOK
<1> SUFFICES ASSUME Init PROVE TypeOK
    OBVIOUS
<1>1. vec \in Seq(Packets) /\ proto_num \in 0..2
    BY EmptySeq DEF Init
<1>2. sorted \in [by : Columns \cup {"none"}, rows : Nat]
    BY DEF Init
<1> QED  BY <1>1, <1>2 DEF Init, TypeOK

LEMMA TypeStep == TypeOK /\ [Next]_vars => TypeOK'
<1> SUFFICES ASSUME TypeOK, [Next]_vars PROVE TypeOK'
    OBVIOUS
<1>1. CASE sort_num
    BY <1>1, RowsStay DEF sort_num, TypeOK, Columns
<1>2. CASE sort_src
    BY <1>2, RowsStay DEF sort_src, TypeOK, Columns
<1>3. CASE sort_dst
    BY <1>3, RowsStay DEF sort_dst, TypeOK, Columns
<1>4. CASE sort_proto
    <2>1. vec' \in Seq(Packets) /\ sorted' \in [by : Columns \cup {"none"}, rows : Nat]
        BY <1>4, RowsStay DEF sort_proto, Columns
    <2>2. proto_num' \in 0..2
        BY <1>4 DEF sort_proto, TypeOK
    <2> QED  BY <1>4, <2>1, <2>2 DEF sort_proto, TypeOK
<1>5. CASE sort_len
    <2>1. vec' \in Seq(Packets) /\ sorted' \in [by : Columns \cup {"none"}, rows : Nat]
        BY <1>5, RowsStay DEF sort_len, Columns
    <2> QED  BY <1>5, <2>1 DEF sort_len, TypeOK
<1>6. CASE reset
    BY <1>6, EmptySeq DEF reset, TypeOK, flags
<1>7. ASSUME NEW p \in Packets, update_md(p) PROVE TypeOK'
    <2>1. vec' \in Seq(Packets)
        BY <1>7, AppendProperties DEF update_md, TypeOK
    <2> QED  BY <1>7, <2>1 DEF update_md, TypeOK, flags
<1>8. CASE UNCHANGED vars
    BY <1>8 DEF vars, flags, TypeOK
<1> QED  BY <1>1, <1>2, <1>3, <1>4, <1>5, <1>6, <1>7, <1>8 DEF Next

LEMMA TypesMakeOrders == TypeOK => ComparatorsAreOrders
<1> SUFFICES ASSUME TypeOK, NEW by \in Columns, NEW i \in Rows, NEW j \in Rows, NEW k \in Rows
             PROVE  LET B(m, n) == Before(by, NextUp(by), proto_num, vec[m], vec[n])
                    IN  /\ ~B(i, i)
                        /\ B(i, j) /\ B(j, k) => B(i, k)
                        /\ B(i, j) => B(i, k) \/ B(k, j)
    BY DEF ComparatorsAreOrders
<1>1. vec[i] \in Row /\ vec[j] \in Row /\ vec[k] \in Row
    BY PacketsAssumption, ElementOfSeq DEF TypeOK, Rows, Row
<1>2. NextUp(by) \in BOOLEAN /\ proto_num \in 0..2
    BY DEF TypeOK, NextUp, Columns
<1>3. PICK up \in BOOLEAN, first \in 0..2, p \in Row, q \in Row, r \in Row :
        up = NextUp(by) /\ first = proto_num /\ p = vec[i] /\ q = vec[j] /\ r = vec[k]
    BY <1>1, <1>2
<1> QED  BY <1>3, ComparatorOrder

\* std::sort is defined on every table the program can show: the comparator of
\* each column, with its flag as it stands, is a strict weak order on the rows.
THEOREM SortsAreDefined == Spec => []ComparatorsAreOrders
BY TypeInit, TypeStep, TypesMakeOrders, PTL DEF Spec

-----------------------------------------------------------------------------
(***************************************************************************)
(* The sorted head.  A click leaves all rows in its order and turns the    *)
(* flag after or before it sorts, so that the flag tells the direction; a  *)
(* row that arrives goes behind the head, and only a click moves a flag.   *)
(***************************************************************************)
LEMMA SortLeaves ==
    ASSUME TypeOK, NEW by \in Columns, NEW up \in BOOLEAN, NEW first \in 0..2,
           Sort(by, up, first)
    PROVE  /\ sorted' = [by |-> by, rows |-> Len(vec)] /\ Len(vec') = Len(vec)
           /\ \A i, j \in 1..Len(vec) : i < j => ~Before(by, up, first, vec'[j], vec'[i])
<1>1. Len(vec) \in Nat
    BY LenProperties DEF TypeOK
<1>2. PICK f \in [Rows -> Rows] :
        /\ \A i, j \in Rows : i < j => ~Before(by, up, first, vec[f[j]], vec[f[i]])
        /\ vec' = [i \in Rows |-> vec[f[i]]]
    BY DEF Sort, Rearrangements
<1>3. Len(vec') = Len(vec)
    <2>1. vec' \in Seq(Packets) /\ DOMAIN vec' = 1..Len(vec)
        BY <1>2, RowsStay DEF Rows
    <2> QED  BY <1>1, <2>1, LenProperties
<1>4. \A i \in 1..Len(vec) : vec'[i] = vec[f[i]]
    BY <1>2 DEF Rows
<1> QED  BY <1>2, <1>3, <1>4 DEF Sort, Rows

LEMMA FirstIsForProtos ==
    ASSUME NEW by \in Columns \ {"proto"}, NEW up, NEW f, NEW g, NEW p, NEW q
    PROVE  Before(by, up, f, p, q) = Before(by, up, g, p, q)
BY DEF Before, Columns

LEMMA HeadOfClick ==
    ASSUME TypeOK, NEW by \in Columns, NEW up \in BOOLEAN, NEW first \in 0..2,
           Sort(by, up, first),
           up = LastUp(by)', by = "proto" => first = proto_num'
    PROVE  HeadIsSorted'
<1>1. /\ sorted'.by = by /\ sorted'.rows = Len(vec) /\ Len(vec') = Len(vec)
      /\ Len(vec) \in Nat
      /\ \A i, j \in 1..Len(vec) : i < j => ~Before(by, up, first, vec'[j], vec'[i])
    BY SortLeaves, LenProperties DEF TypeOK
<1>2. CASE by = "proto"
    BY <1>1, <1>2 DEF HeadIsSorted
<1>3. CASE by # "proto"
    <2>1. \A i, j \in 1..Len(vec) : i < j => ~Before(by, up, proto_num', vec'[j], vec'[i])
        BY <1>1, <1>3, FirstIsForProtos
    <2> QED  BY <1>1, <1>3, <2>1 DEF HeadIsSorted
<1> QED  BY <1>2, <1>3

LEMMA HeadStep == TypeOK /\ HeadIsSorted /\ [Next]_vars => HeadIsSorted'
<1> SUFFICES ASSUME TypeOK, HeadIsSorted, [Next]_vars PROVE HeadIsSorted'
    OBVIOUS
<1>1. CASE sort_num
    <2>1. PICK up \in BOOLEAN : up = num_flag /\ Sort("num", up, 0)
        BY <1>1 DEF sort_num, TypeOK
    <2>2. up = LastUp("num")'
        BY <1>1, <2>1 DEF sort_num, LastUp, NextUp, TypeOK
    <2> QED  BY <2>1, <2>2, HeadOfClick DEF Columns
<1>2. CASE sort_src
    <2>1. PICK up \in BOOLEAN : up = src_flag /\ Sort("src", up, 0)
        BY <1>2 DEF sort_src, TypeOK
    <2>2. up = LastUp("src")'
        BY <1>2, <2>1 DEF sort_src, LastUp, NextUp, TypeOK
    <2> QED  BY <2>1, <2>2, HeadOfClick DEF Columns
<1>3. CASE sort_dst
    <2>1. PICK up \in BOOLEAN : up = dst_flag /\ Sort("dst", up, 0)
        BY <1>3 DEF sort_dst, TypeOK
    <2>2. up = LastUp("dst")'
        BY <1>3, <2>1 DEF sort_dst, LastUp, NextUp, TypeOK
    <2> QED  BY <2>1, <2>2, HeadOfClick DEF Columns
<1>4. CASE sort_proto
    <2>1. proto_num' \in 0..2
        BY <1>4 DEF sort_proto, TypeOK
    <2>2. PICK up \in BOOLEAN, first \in 0..2 :
            up = TRUE /\ first = proto_num' /\ Sort("proto", up, first)
        BY <1>4, <2>1, Zenon DEF sort_proto
    <2>3. up = LastUp("proto")'
        BY <2>2 DEF LastUp
    <2> QED  BY <2>2, <2>3, HeadOfClick DEF Columns
<1>5. CASE sort_len
    <2>1. PICK up \in BOOLEAN : up = len_flag' /\ Sort("len", up, 0)
        BY <1>5 DEF sort_len, TypeOK
    <2>2. up = LastUp("len")'
        BY <2>1 DEF LastUp, NextUp
    <2> QED  BY <2>1, <2>2, HeadOfClick DEF Columns
<1>6. CASE reset
    <2>1. sorted'.rows = 0 /\ Len(vec') = 0
        BY <1>6, EmptySeq DEF reset, TypeOK
    <2> QED  BY <2>1 DEF HeadIsSorted
<1>7. ASSUME NEW p \in Packets, update_md(p) PROVE HeadIsSorted'
    <2>1. /\ Len(vec) \in Nat /\ Len(vec') = Len(vec) + 1 /\ sorted.rows \in Nat
          /\ \A i \in 1..Len(vec) : vec'[i] = vec[i]
        BY <1>7, AppendProperties, LenProperties DEF update_md, TypeOK
    <2>2. sorted' = sorted /\ proto_num' = proto_num /\ LastUp(sorted.by)' = LastUp(sorted.by)
        BY <1>7 DEF update_md, flags, NextUp, LastUp
    <2> QED  BY <2>1, <2>2 DEF HeadIsSorted
<1>8. CASE UNCHANGED vars
    BY <1>8 DEF vars, flags, HeadIsSorted, NextUp, LastUp
<1> QED  BY <1>1, <1>2, <1>3, <1>4, <1>5, <1>6, <1>7, <1>8 DEF Next

\* The order of a click outlives every arrival after it, and the flag of its
\* column always stands for the other direction: the next click turns the table.
THEOREM ClicksStay == Spec => []HeadIsSorted
<1>1. Init => HeadIsSorted
    BY EmptySeq DEF Init, HeadIsSorted
<1> QED  BY <1>1, TypeInit, TypeStep, HeadStep, PTL DEF Spec

\* A click on the protocol column brings the rows of the protocol whose turn it
\* is to the top, and there they stay until the next click.
THEOREM ProtocolsTakeTurns == Spec => []ProtosInTurn
<1>1. TypeOK /\ HeadIsSorted => ProtosInTurn
    <2> SUFFICES ASSUME TypeOK, HeadIsSorted, sorted.by = "proto",
                        NEW i \in 1..sorted.rows, NEW j \in 1..sorted.rows, i < j,
                        get_proto_num(vec[j].proto) = proto_num
                 PROVE  get_proto_num(vec[i].proto) = proto_num
        BY DEF ProtosInTurn
    <2>1. ~Before("proto", TRUE, proto_num, vec[j], vec[i])
        BY DEF HeadIsSorted, LastUp
    <2>2. ~(Turn(vec[j].proto, proto_num) < Turn(vec[i].proto, proto_num))
        BY <2>1 DEF Before
    <2>3. /\ get_proto_num(vec[i].proto) \in 0..2 /\ proto_num \in 0..2
        BY DEF get_proto_num, TypeOK
    <2> QED  BY <2>2, <2>3 DEF Turn
<1>2. Init => HeadIsSorted
    BY EmptySeq DEF Init, HeadIsSorted
<1> QED  BY <1>1, <1>2, TypeInit, TypeStep, HeadStep, PTL DEF Spec
=============================================================================
