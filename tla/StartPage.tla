------------------------------- MODULE StartPage -------------------------------
(***************************************************************************)
(* NicListView, the first page: the interfaces (NicList), the recent       *)
(* captures (Open_List) and the CaptureView that either of them opens.     *)
(*                                                                         *)
(* It is the page of one copy of the program, Here.  The other copies work *)
(* on the database file meanwhile; interfaces come and go at any time, and *)
(* the page learns of it only when it asks.                                *)
(***************************************************************************)
EXTENDS OpenList, NicList

CONSTANT Here

ASSUME HereAssumption == Here \in Copies

VARIABLES
    nic,        \* NicList::vec
    filterBox,  \* the entry the combo box shows
    selectNic,  \* the interface picked last
    page,       \* "start", or "capture" when a CaptureView is on top
    shown       \* the nicName and pcap_path that CaptureView was given

nicVars == <<nic, filterBox, selectNic>>
pageVars == <<nicVars, page, shown>>
allVars == <<vars, pageVars>>

NoView == [nicName |-> NoNic, pcap_path |-> NoPath]
Present == SUBSET (1..Len(Interfaces))
Ready == pc[Here] = "idle" /\ page = "start"

StartInit ==
    /\ Init
    /\ nic = <<>> /\ filterBox = "All" /\ selectNic = NoNic
    /\ page = "start" /\ shown = NoView

-----------------------------------------------------------------------------
(***************************************************************************)
(* The page is built: its NicList, its Open_List, then onCompleted.        *)
(***************************************************************************)
NicListBuilt ==
    /\ create_db_lite(Here)
    /\ \E present \in Present : nic' \in set_Nic(OP_Any, present)
    /\ UNCHANGED <<filterBox, selectNic, page, shown>>

Completed ==
    /\ init_vec(Here)
    /\ selectNic' = get_FirstNic(nic)
    /\ UNCHANGED <<nic, filterBox, page, shown>>

\* The copy ends: the next start begins with an empty page.
Quit ==
    /\ Exit(Here)
    /\ nic' = <<>> /\ filterBox' = "All" /\ selectNic' = NoNic
    /\ page' = "start" /\ shown' = NoView

-----------------------------------------------------------------------------
(***************************************************************************)
(* The interfaces.                                                         *)
(***************************************************************************)
\* The kind that the combo box asks set_Nic for: there is no entry for loopback.
Asked == [All |-> OP_Any, Wireless |-> OP_Wlo, Local |-> OP_Ethernet, Virtual |-> OP_Virtual]

\* Mutant: the interface picked last stays picked.
Bug_Keeps(label) ==
    /\ Ready
    /\ filterBox' = label
    /\ \E present \in Present : nic' \in set_Nic(Asked[label], present)
    /\ UNCHANGED <<vars, selectNic, page, shown>>

onActivated(label) ==
    /\ Ready
    /\ filterBox' = label
    /\ \E present \in Present : nic' \in set_Nic(Asked[label], present)
    /\ selectNic' = get_FirstNic(nic')
    /\ UNCHANGED <<vars, page, shown>>

onClicked(i) ==
    /\ Ready
    /\ selectNic' = nic[i].text
    /\ UNCHANGED <<vars, nic, filterBox, page, shown>>

\* The first of the two clicks is a click.
onDoubleClicked(i) ==
    /\ Ready
    /\ selectNic' = nic[i].text
    /\ page' = "capture" /\ shown' = [nicName |-> nic[i].text, pcap_path |-> NoPath]
    /\ UNCHANGED <<vars, nic, filterBox>>

-----------------------------------------------------------------------------
(***************************************************************************)
(* The files: add_db runs to its end before the CaptureView is pushed.     *)
(***************************************************************************)
onAccepted(p) == Ready /\ add_db(Here, p) /\ UNCHANGED pageVars

FileViewOpens(p) ==
    /\ page' = "capture" /\ shown' = [nicName |-> selectNic, pcap_path |-> p]
    /\ UNCHANGED nicVars

Accepted == Refresh(Here) /\ FileViewOpens(adding[Here])

RecentOpened(p) == Ready /\ FileViewOpens(p) /\ UNCHANGED vars

\* The StackView pops the CaptureView; the page below is as it was left.
Back ==
    /\ pc[Here] = "idle" /\ page = "capture"
    /\ page' = "start" /\ shown' = NoView
    /\ UNCHANGED <<vars, nicVars>>

-----------------------------------------------------------------------------
StartNext ==
    \/ \E c \in Copies \ {Here} : CopyStep(c) /\ UNCHANGED pageVars
    \/ (create_db_table(Here) \/ Insert(Here)) /\ UNCHANGED pageVars
    \/ NicListBuilt \/ Completed \/ Quit \/ Accepted \/ Back
    \/ \E label \in DOMAIN Asked : onActivated(label)
    \/ \E i \in 1..Len(nic) : onClicked(i) \/ onDoubleClicked(i)
    \/ \E p \in Paths : onAccepted(p)
    \/ \E p \in vec[Here] : RecentOpened(p)

StartSpec == StartInit /\ [][StartNext]_allVars

-----------------------------------------------------------------------------
\* Once the page is built, the interface that a file view is opened with is one
\* of those listed, and it is none only when none is listed: whatever the filter
\* replaced the list by, and however long ago.
SelectionIsListed ==
    pc[Here] \in {"idle", "insert", "select"} =>
        IF nic = <<>> THEN selectNic = NoNic
        ELSE \E i \in 1..Len(nic) : nic[i].text = selectNic

MarksOf(name) == Interfaces[CHOOSE k \in 1..Len(Interfaces) : Interfaces[k].name = name].marks

\* "All, wireless, local (Ethernet) and virtual interfaces" (README.md:28): an
\* interface opened under a label is of that kind, though virtual and wireless
\* adapters call themselves Ethernet adapters too.
OpenedIsOfLabel ==
    page = "capture" /\ shown.nicName # NoNic =>
        LET marks == MarksOf(shown.nicName)
        IN  CASE filterBox = "Wireless" -> "wireless" \in marks
              [] filterBox = "Virtual" -> marks \cap {"virtual", "vm"} # {}
              [] filterBox = "Local" -> marks \cap {"LOOPBACK", "wireless", "virtual"} = {}
              [] OTHER -> TRUE
=============================================================================
