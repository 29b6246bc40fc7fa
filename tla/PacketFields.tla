------------------------------ MODULE PacketFields ------------------------------
(***************************************************************************)
(* The values of one packet as the program words them: once in its row,    *)
(* where the two parsers work them out, and once on its detail page, where *)
(* start_tree_md works them out again.  What is right is that the two, and *)
(* the several lines that the page gives to one field, tell the same.      *)
(*                                                                         *)
(* A 16 bit field is its two bytes as they are in the packet, high first.  *)
(***************************************************************************)
EXTENDS Integers

CONSTANTS
    UInt,   \* how many values an unsigned int has: 2^32
    Macs    \* Ethernet addresses

\* A sum of 16 bit numbers and header lengths is far from the width of an int.
ASSUME UIntAssumption == UInt \in Nat /\ UInt % 2 = 0 /\ UInt \div 2 > 65536 + 120

Short == (0..255) \X (0..255)
TcpFlags == {"FIN", "SYN", "RST", "PSH", "ACK", "URG", "ECE", "CWR"}
Fields ==
    [dhost : Macs, shost : Macs, tot_len : Short, frag_off : Short,
     source : Short, dest : Short, flags : SUBSET TcpFlags, len : Short,
     type : 0..255, code : 0..255]

E_H == 14      \* sizeof(e_H), sizeof(ip_H), sizeof(tcp_H)
IP_H == 20
TCP_H == 20

-----------------------------------------------------------------------------
ntohs(x) == 256 * x[1] + x[2]

\* Mutant: the unsigned value is shown as it is.
Bug_Unsigned(n) == n % UInt

\* An unsigned int made an int.
Signed(n) == IF n % UInt < UInt \div 2 THEN n % UInt ELSE (n % UInt) - UInt

Ports(p) == <<ntohs(p.source), ntohs(p.dest)>>

IcmpType(p) ==
    CASE p.type = 0 -> "Echo Reply" [] p.type = 3 -> "Destination Unreachable"
      [] p.type = 5 -> "Redirect" [] p.type = 8 -> "Echo Request"
      [] p.type = 11 -> "Time Exceeded" [] OTHER -> ""

IcmpCode(p) ==
    CASE p.type = 3 /\ p.code = 0 -> "Network Unreachable"
      [] p.type = 3 /\ p.code = 1 -> "Host Unreachable"
      [] p.type = 3 /\ p.code = 3 -> "Port Unreachable"
      [] p.type = 11 /\ p.code = 0 -> "TTL exceeded"
      [] p.type = 11 /\ p.code = 1 -> "fragment reassembly time exceeded"
      [] p.type \in {0, 8} -> "id, seq, ttl"
      [] OTHER -> ""

\* The row.  tcp_header_len is unsigned, so the subtraction is; then it is an int.
RowTcpLen(p, ihl, doff) == Signed(ntohs(p.tot_len) - 4 * ihl - 4 * doff)
RowFlags == {"SYN", "ACK", "FIN", "RST", "PSH", "URG"}

Info(p, ihl, doff, proto) ==
    CASE proto = "TCP" -> [ports |-> Ports(p), flags |-> p.flags \cap RowFlags,
                           len |-> RowTcpLen(p, ihl, doff)]
      [] proto = "UDP" -> [ports |-> Ports(p), len |-> ntohs(p.len) - 8]
      [] proto = "ICMP" -> [type |-> IcmpType(p), code |-> IcmpCode(p)]
      [] OTHER -> <<>>

RowLen(p) == ntohs(p.tot_len) + E_H

-----------------------------------------------------------------------------
(***************************************************************************)
(* The page.                                                               *)
(***************************************************************************)
PageTcpLen(p, ihl, doff) == ntohs(p.tot_len) - 4 * ihl - 4 * doff

\* Mutant: two bits are taken for each other.
Bug_BitsSwapped ==
    [FIN |-> 1, SYN |-> 2, RST |-> 4, PSH |-> 8, ACK |-> 32, URG |-> 16, ECE |-> 64, CWR |-> 128]

Bit ==
    [FIN |-> 1, SYN |-> 2, RST |-> 4, PSH |-> 8, ACK |-> 16, URG |-> 32, ECE |-> 64, CWR |-> 128]

BitSet(n, bit) == (n \div bit) % 2 = 1

FlagsNumber(flags) ==
    LET In(b) == IF b \in flags THEN Bit[b] ELSE 0
    IN  In("CWR") + In("ECE") + In("URG") + In("ACK")
          + In("PSH") + In("RST") + In("SYN") + In("FIN")

\* The three flags of frag_off: the number, what it means, and a line for each.
IpFlagsNumber(p) == (ntohs(p.frag_off) \div 8192) % 8
IpFlagsMeaning(n) ==
    CASE BitSet(n, 2) -> "Don't fragment" [] ~BitSet(n, 2) /\ BitSet(n, 1) -> "More fragments"
      [] OTHER -> "None"
IpFlagsSet(n) == {b \in {"RF", "DF", "MF"} : BitSet(n, [RF |-> 4, DF |-> 2, MF |-> 1][b])}

\* title is the headline "Src, Dst" of the Ethernet header; lines are those under it.
EtherPage(p) ==
    [title |-> [src |-> p.dhost, dst |-> p.shost], lines |-> [src |-> p.shost, dst |-> p.dhost]]

IpPage(p) ==
    [total |-> ntohs(p.tot_len), flags |-> IpFlagsNumber(p),
     meaning |-> IpFlagsMeaning(IpFlagsNumber(p)), set |-> IpFlagsSet(IpFlagsNumber(p))]

TransportPage(p, ihl, doff, protocol) ==
    CASE protocol = 6 ->
            [ports |-> Ports(p), len |-> PageTcpLen(p, ihl, doff), hLen |-> 4 * doff,
             flags |-> FlagsNumber(p.flags), names |-> p.flags]
      [] protocol = 17 -> [ports |-> Ports(p), len |-> ntohs(p.len)]
      [] protocol = 1 -> [type |-> IcmpType(p), code |-> p.code]
      [] OTHER -> <<>>
=============================================================================
