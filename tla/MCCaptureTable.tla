----------------------------- MODULE MCCaptureTable -----------------------------
EXTENDS CaptureTable

Row(n, s, d, p, l) == [num |-> n, src |-> s, dst |-> d, proto |-> p, len |-> l]

\* Two rows with one number (two captures that overlapped), an address that is
\* larger in an early octet and smaller in a later one, and every protocol.
MCPackets == {
    Row(0, <<10, 0, 0, 2>>, <<10, 1, 0, 1>>, "TCP", 60),
    Row(0, <<10, 1, 0, 1>>, <<10, 0, 0, 2>>, "UDP", 80),
    Row(1, <<10, 0, 1, 0>>, <<10, 0, 1, 0>>, "ICMP", 60),
    Row(2, <<10, 0, 0, 2>>, <<10, 0, 1, 0>>, "TCP", 98)}
=============================================================================
