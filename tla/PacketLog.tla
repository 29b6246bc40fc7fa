-------------------------------- MODULE PacketLog --------------------------------
(***************************************************************************)
(* What the packet table promises, whatever threads and queues lie behind  *)
(* it: the rows and the raw packets are those of one capture or one file,  *)
(* numbered from 0 without a gap; a packet is shown, then stored; and the  *)
(* two are cleared together, never between the two halves of a packet.     *)
(***************************************************************************)
EXTENDS Naturals, Sequences

VARIABLES
    rows,   \* the numbers in the table
    dumps   \* the numbers of the raw packets, in the order stored

logVars == <<rows, dumps>>

Upto(n) == 0..(n - 1)
InStep == rows = Upto(Len(dumps))

LogInit == rows = {} /\ dumps = <<>>

Show ==
    /\ InStep
    /\ rows' = Upto(Len(dumps) + 1)
    /\ UNCHANGED dumps

Store ==
    /\ rows = Upto(Len(dumps) + 1)
    /\ dumps' = Append(dumps, Len(dumps))
    /\ UNCHANGED rows

Load ==
    /\ rows = {} /\ dumps = <<>>
    /\ rows' = Upto(Len(dumps'))
    /\ dumps' = [i \in 1..Len(dumps') |-> i - 1]

Discard ==
    /\ InStep
    /\ rows' = {} /\ dumps' = <<>>

LogSpec == LogInit /\ [][Show \/ Store \/ Load \/ Discard]_logVars
=============================================================================
