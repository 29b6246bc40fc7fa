--------------------------- MODULE MCPacketDetail ---------------------------
(***************************************************************************)
(* Instance of PacketDetail for TLC: frames at the boundaries of the       *)
(* parser's checks, of the hex lines and of the numbers shown.             *)
(***************************************************************************)
EXTENDS PacketDetail

CONSTANTS m1, m2

Shows(tot, frag, sport, flags, len, type) ==
    [dhost |-> m1, shost |-> m2, tot_len |-> tot, frag_off |-> frag, source |-> sport,
     dest |-> <<1, 187>>, flags |-> flags, len |-> len, type |-> type, code |-> 1]
Ipv4(caplen, ihl, protocol, doff, shows) ==
    [caplen |-> caplen, ipv4 |-> TRUE, ihl |-> ihl, protocol |-> protocol, doff |-> doff,
     p |-> shows]
Plain == Shows(<<0, 40>>, <<64, 0>>, <<0, 53>>, {}, <<0, 8>>, 11)

MCFrames ==
    { \* TCP, the shortest that is accepted, with a total length that is too small
      Ipv4(54, 5, 6, 5, Shows(<<0, 39>>, <<64, 0>>, <<200, 1>>, {"SYN", "ECE", "CWR"}, <<0, 0>>, 0)),
      \* TCP with options in both headers, the longest, a fragment
      Ipv4(70, 6, 6, 8, Shows(<<255, 255>>, <<32, 5>>, <<0, 80>>, {"ACK", "PSH"}, <<0, 0>>, 0)),
      \* UDP, three full hex lines, with a length shorter than its header
      Ipv4(48, 5, 17, 0, Shows(<<0, 34>>, <<160, 0>>, <<0, 53>>, {}, <<0, 7>>, 0)),
      Ipv4(42, 5, 1, 0, Plain),
      \* no rows: TCP cut in its header, IGMP, not IPv4
      Ipv4(53, 5, 6, 5, Plain),
      Ipv4(60, 5, 2, 0, Plain),
      [Ipv4(60, 5, 6, 5, Plain) EXCEPT !.ipv4 = FALSE] }
=============================================================================
