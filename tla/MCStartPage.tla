------------------------------ MODULE MCStartPage ------------------------------
(***************************************************************************)
(* Instance of StartPage for TLC: a loopback interface and three adapters  *)
(* that all have the marks of an Ethernet adapter, two of them others too. *)
(***************************************************************************)
EXTENDS StartPage

MCInterfaces == <<
    [name |-> "lo",    marks |-> {"LOOPBACK"}],
    [name |-> "wifi",  marks |-> {"wireless", "ethernet"}],
    [name |-> "vmnet", marks |-> {"virtual", "ethernet", "vm"}],
    [name |-> "eth",   marks |-> {"ethernet"}] >>
=============================================================================
