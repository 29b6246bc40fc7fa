------------------------------- MODULE IpChecksum -------------------------------
(***************************************************************************)
(* Pcap::compute_ip_checksum: the loop that decides whether the detail     *)
(* page calls the checksum of an IPv4 header "Good" or "Bad".              *)
(*                                                                         *)
(* The program adds words of 16 bits in a uint32_t.  The size of a byte is *)
(* a parameter here: a byte is below Byte, a word below Byte^2, and the    *)
(* sum wraps at Byte^4.  Byte = 256 is the program.                        *)
(***************************************************************************)
EXTENDS Integers, Sequences

CONSTANTS
    Byte,      \* how many values a byte has
    MaxBytes   \* the longest header, in bytes: 60 in IPv4 (ihl is 4 bits of words)

Word == Byte * Byte
UInt32 == Word * Word

\* 60 <= 2 * 65536: the headers are short for the width of the sum.
ASSUME ByteAssumption == Byte \in Nat /\ Byte >= 2
ASSUME HeaderAssumption == MaxBytes \in Nat /\ MaxBytes <= 2 * Word

VARIABLES
    data,   \* the header, byte by byte
    i, sum, \* the locals of the function
    ret     \* what it returns, or -1 while it runs

vars == <<data, i, sum, ret>>

Bytes == 0..(Byte - 1)
Headers == {d \in Seq(Bytes) : Len(d) <= MaxBytes /\ Len(d) % 2 = 0}

TypeOK ==
    /\ data \in Headers
    /\ i \in 0..Len(data) /\ i % 2 = 0
    /\ sum \in 0..(UInt32 - 1)
    /\ ret \in {-1} \cup 0..(Word - 1)

\* header_len is ihl * 4: even, whatever ihl is.
Init ==
    /\ data \in UNION {[1..n -> Bytes] : n \in {m \in 1..MaxBytes : m % 4 = 0}}
    /\ i = 0 /\ sum = 0 /\ ret = -1

\* Mutant: the bytes of a word are taken in the order of the host.
Bug_HostOrder(at) == data[at + 2] * Byte + data[at + 1]

\* The word at offset at, high byte first.
WordAt(at) == data[at + 1] * Byte + data[at + 2]

\* Mutants: the sum is shifted along; the carry is added where it was.
Bug_Shifted ==
    /\ ret = -1 /\ i < Len(data)
    /\ sum' = (sum * Word + WordAt(i)) % UInt32
    /\ i' = i + 2
    /\ UNCHANGED <<data, ret>>
Bug_NotShifted ==
    /\ ret = -1 /\ i = Len(data) /\ sum \div Word # 0
    /\ sum' = ((sum % Word) + (sum \div Word) * Word) % UInt32
    /\ UNCHANGED <<data, i, ret>>

Add ==
    /\ ret = -1 /\ i < Len(data)
    /\ sum' = (sum + WordAt(i)) % UInt32
    /\ i' = i + 2
    /\ UNCHANGED <<data, ret>>

Carry ==
    /\ ret = -1 /\ i = Len(data) /\ sum \div Word # 0
    /\ sum' = ((sum % Word) + sum \div Word) % UInt32
    /\ UNCHANGED <<data, i, ret>>

\* ~sum & 0xFFFF
Return ==
    /\ ret = -1 /\ i = Len(data) /\ sum \div Word = 0
    /\ ret' = Word - 1 - (sum % Word)
    /\ UNCHANGED <<data, i, sum>>

Done == ret # -1 /\ UNCHANGED vars

Next == Add \/ Carry \/ Return \/ Done

Spec == Init /\ [][Next]_vars
\* The function is a plain loop: nothing can keep its thread from the next step.
FairSpec == Spec /\ WF_vars(Next)
-----------------------------------------------------------------------------
(***************************************************************************)
(* The checksum as RFC 791 words it: the complement of the one's           *)
(* complement sum.  A one's complement sum is the sum modulo Word - 1, and *)
(* it is Word - 1 (minus zero), not 0, unless every word is zero.          *)
(***************************************************************************)
\* The sums of the words of d up to each even offset.
Sums(d) ==
    LET Upto[n \in 0..Len(d)] ==
            IF n < 2 THEN 0 ELSE Upto[n - 2] + d[n - 1] * Byte + d[n]
    IN  Upto
Total == Sums(data)[Len(data)]
OnesComplementSum ==
    IF Total = 0 THEN 0 ELSE 1 + ((Total - 1) % (Word - 1))

\* What the carries leave is the one's complement sum, complemented; a header
\* whose checksum field is right, and no other, gives 0, which shows as "Good".
ReturnsChecksum ==
    ret # -1 => /\ ret = Word - 1 - OnesComplementSum
                /\ (ret = 0) <=> (Total > 0 /\ Total % (Word - 1) = 0)

\* The sum never comes near the width it is kept in, so no carry is ever lost.
NeverWraps == sum <= (i \div 2) * (Word - 1) /\ (i \div 2) * (Word - 1) < UInt32

\* The loop over the carries ends.
Terminates == <>(ret # -1)
=============================================================================
