-------------------------------- MODULE NicList --------------------------------
(***************************************************************************)
(* NicList: how the network interfaces that pcap_findalldevs reports are   *)
(* sorted into kinds and listed.                                           *)
(*                                                                         *)
(* An interface is its name and its marks: what compare_Nic looks for in   *)
(* the name, the description and the flags.  One interface usually has     *)
(* several, as an "Intel Wireless Ethernet" adapter does.                  *)
(***************************************************************************)
EXTENDS Naturals, Sequences, FiniteSets

CONSTANT Interfaces  \* those the system can have, in the order it reports them

Marks == {
    "LOOPBACK",   \* the flag PCAP_IF_LOOPBACK
    "wireless",   \* wl*, "wi-fi", "wireless", "wlan", "802.11"
    "virtual",    \* "virtual", "vmware", "virtualbox", "hyper-v", "npf_loopback"
    "ethernet",   \* en*, eth*, "ethernet", "realtek", "intel"
    "vm"}         \* vmnet*, vbox*

NoNic == ""       \* the empty name

ASSUME InterfacesAssumption ==
    /\ Interfaces \in Seq([name : STRING \ {NoNic}, marks : SUBSET Marks])
    /\ \A i, j \in 1..Len(Interfaces) : Interfaces[i].name = Interfaces[j].name => i = j

OP_Loop == 1
OP_Wlo == 2
OP_Ethernet == 3
OP_Virtual == 4
OP_Any == 5

\* Mutant: the marks of wired interfaces are looked for first.
Bug_EthernetFirst(marks) ==
    IF "LOOPBACK" \in marks THEN OP_Loop
    ELSE IF "wireless" \in marks THEN OP_Wlo
    ELSE IF "ethernet" \in marks THEN OP_Ethernet
    ELSE IF marks \cap {"virtual", "vm"} # {} THEN OP_Virtual
    ELSE OP_Ethernet

\* The first test that an interface passes decides.
compare_Nic(marks) ==
    IF "LOOPBACK" \in marks THEN OP_Loop
    ELSE IF "wireless" \in marks THEN OP_Wlo
    ELSE IF "virtual" \in marks THEN OP_Virtual
    ELSE IF "ethernet" \in marks THEN OP_Ethernet
    ELSE IF "vm" \in marks THEN OP_Virtual
    ELSE OP_Ethernet

\* The ways to go through a finite set of numbers in order: there is one.
InOrder(S) == {at \in [1..Cardinality(S) -> S] : \A i, j \in DOMAIN at : i < j => at[i] < at[j]}

\* What set_Nic may leave in vec when the system reports the interfaces at the
\* places present; a pcap_findalldevs that fails leaves what no interface leaves.
set_Nic(set_flag, present) ==
    LET kept == {k \in present : set_flag \in {OP_Any, compare_Nic(Interfaces[k].marks)}}
    IN  {[i \in DOMAIN at |-> [text |-> Interfaces[at[i]].name,
                               type |-> compare_Nic(Interfaces[at[i]].marks)]] :
            at \in InOrder(kept)}

get_FirstNic(nic) == IF nic = <<>> THEN NoNic ELSE nic[1].text
=============================================================================
