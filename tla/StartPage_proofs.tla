----------------------------- MODULE StartPage_proofs -----------------------------
(***************************************************************************)
(* The interface that the start page has selected is one that it lists,    *)
(* and one of the kind that its combo box shows, for all interfaces and    *)
(* marks.  What other copies of the program do to the database is of no    *)
(* concern to the interfaces: the invariant speaks of Here only.  Then     *)
(* what all copies show of the database, and that the page is one of them. *)
(***************************************************************************)
EXTENDS StartPage, FiniteSetTheorems, TLAPS

Asking == DOMAIN Asked
Of(label, k) == Asked[label] \in {OP_Any, compare_Nic(Interfaces[k].marks)}

Items == [text : STRING, type : Nat]

\* A list holds names of interfaces of the kind asked for.
IsList(list, label) ==
    /\ list \in Seq(Items)
    /\ \A i \in 1..Len(list) : \E k \in 1..Len(Interfaces) :
            list[i].text = Interfaces[k].name /\ Of(label, k)

Selected(list, name) ==
    IF list = <<>> THEN name = NoNic ELSE \E i \in 1..Len(list) : list[i].text = name

Built == pc[Here] \in {"idle", "insert", "select"}

PageInv ==
    /\ pc \in [Copies -> {"down", "create", "init", "idle", "insert", "select"}]
    /\ filterBox \in Asking /\ page \in {"start", "capture"}
    /\ IsList(nic, filterBox)
    /\ pc[Here] = "down" => filterBox = "All"
    /\ Built => Selected(nic, selectNic)
    /\ page = "capture" => Built /\ shown.nicName = selectNic

LEMMA KindsAreNumbers ==
    ASSUME NEW marks
    PROVE  compare_Nic(marks) \in Nat
BY DEF compare_Nic, OP_Loop, OP_Wlo, OP_Virtual, OP_Ethernet

LEMMA FunctionIsSeq ==
    ASSUME NEW T, NEW n \in Nat, NEW f \in [1..n -> T]
    PROVE  f \in Seq(T) /\ Len(f) = n
OBVIOUS

LEMMA ElementOfSeq ==
    ASSUME NEW T, NEW s \in Seq(T), NEW k \in 1..Len(s)
    PROVE  s[k] \in T
OBVIOUS

\* set_Nic makes a list of the kind asked for, of whatever is present.
LEMMA SetNicLists ==
    ASSUME NEW label \in Asking, NEW present \in Present,
           NEW list \in set_Nic(Asked[label], present)
    PROVE  IsList(list, label)
<1> DEFINE kept == {k \in present : Asked[label] \in {OP_Any, compare_Nic(Interfaces[k].marks)}}
           n == Cardinality(kept)
           Item(k) == [text |-> Interfaces[k].name, type |-> compare_Nic(Interfaces[k].marks)]
<1>1. kept \subseteq 1..Len(Interfaces) /\ \A k \in kept : Of(label, k)
  BY DEF Present, Of
<1>2. n \in Nat
  <2>1. Len(Interfaces) \in Nat
    BY InterfacesAssumption
  <2>2. IsFiniteSet(1..Len(Interfaces))
    BY <2>1, FS_Interval
  <2> QED
    BY <1>1, <2>2, FS_Subset, FS_CardinalityType
<1>3. PICK at \in [1..n -> kept] : list = [i \in DOMAIN at |-> Item(at[i])]
  BY DEF set_Nic, InOrder
<1>4. \A k \in 1..Len(Interfaces) : Item(k) \in Items
  <2> SUFFICES ASSUME NEW k \in 1..Len(Interfaces)
               PROVE  Item(k) \in Items
    OBVIOUS
  <2>1. Interfaces[k].name \in STRING
    <3>1. Interfaces \in Seq([name : STRING \ {NoNic}, marks : SUBSET Marks])
      BY InterfacesAssumption
    <3>2. Interfaces[k] \in [name : STRING \ {NoNic}, marks : SUBSET Marks]
      BY <3>1, ElementOfSeq
    <3> QED
      BY <3>2
  <2>2. compare_Nic(Interfaces[k].marks) \in Nat
    BY KindsAreNumbers
  <2> QED
    BY <2>1, <2>2 DEF Items
<1> HIDE DEF n, kept
<1>5. \A i \in 1..n : at[i] \in kept /\ at[i] \in 1..Len(Interfaces) /\ list[i] = Item(at[i])
  BY <1>1, <1>3
<1>6. list \in Seq(Items) /\ Len(list) = n
  <2>1. list \in [1..n -> Items]
    <3>1. \A i \in 1..n : Item(at[i]) \in Items
      BY <1>4, <1>5
    <3>2. list = [i \in 1..n |-> Item(at[i])]
      BY <1>3
    <3> HIDE DEF Item
    <3>3. [i \in 1..n |-> Item(at[i])] \in [1..n -> Items]
      BY <3>1
    <3> QED
      BY <3>2, <3>3
  <2> QED
    BY <1>2, <2>1, FunctionIsSeq
<1>7. \A i \in 1..Len(list) : \E k \in 1..Len(Interfaces) :
          list[i].text = Interfaces[k].name /\ Of(label, k)
  BY <1>1, <1>5, <1>6
<1> QED
  BY <1>6, <1>7 DEF IsList

LEMMA FirstIsSelected ==
    ASSUME NEW label, NEW list, IsList(list, label)
    PROVE  Selected(list, get_FirstNic(list))
<1>1. list \in Seq(Items)
  BY DEF IsList
<1>2. list # <<>> => 1 \in 1..Len(list)
  BY <1>1
<1> QED
  BY <1>2 DEF Selected, get_FirstNic

LEMMA EmptyList == \A label : IsList(<<>>, label)
BY DEF IsList

LEMMA PageInit == StartInit => PageInv
BY EmptyList, HereAssumption DEF StartInit, Init, PageInv, Built, Asking, Asked

\* The steps of other copies, and those that leave the page alone.
LEMMA ElsewhereStep ==
    ASSUME PageInv, UNCHANGED pageVars,
           pc' \in [Copies -> {"down", "create", "init", "idle", "insert", "select"}],
           Built' <=> Built, pc'[Here] = "down" => pc[Here] = "down"
    PROVE  PageInv'
BY DEF PageInv, pageVars, nicVars, IsList, Selected, Of

LEMMA StepOfCopy ==
    ASSUME PageInv, NEW c \in Copies, CopyStep(c)
    PROVE  /\ pc' \in [Copies -> {"down", "create", "init", "idle", "insert", "select"}]
           /\ \A d \in Copies \ {c} : pc'[d] = pc[d]
<1>1. ASSUME NEW from, NEW to \in {"down", "create", "init", "idle", "insert", "select"},
             Step(c, from, to)
      PROVE  /\ pc' \in [Copies -> {"down", "create", "init", "idle", "insert", "select"}]
             /\ \A d \in Copies \ {c} : pc'[d] = pc[d]
  BY <1>1 DEF Step, PageInv
<1>2. CASE Exit(c)
  BY <1>2 DEF Exit, PageInv
<1>3. CASE \/ create_db_lite(c) \/ create_db_table(c) \/ init_vec(c)
           \/ Insert(c) \/ Refresh(c) \/ \E p \in Paths : add_db(c, p)
  BY <1>1, <1>3 DEF create_db_lite, create_db_table, init_vec, Insert, Refresh, add_db
<1> QED
  BY <1>2, <1>3 DEF CopyStep

LEMMA PageStep == PageInv /\ [StartNext]_allVars => PageInv'
<1> SUFFICES ASSUME PageInv, [StartNext]_allVars PROVE PageInv'
  OBVIOUS
<1> DEFINE Places == {"down", "create", "init", "idle", "insert", "select"}
<1>1. ASSUME NEW c \in Copies \ {Here}, CopyStep(c), UNCHANGED pageVars PROVE PageInv'
  <2>1. pc' \in [Copies -> Places] /\ pc'[Here] = pc[Here]
    BY <1>1, StepOfCopy, HereAssumption
  <2> QED
    BY <1>1, <2>1, ElsewhereStep DEF Built
<1>2. CASE (create_db_table(Here) \/ Insert(Here)) /\ UNCHANGED pageVars
  <2>1. pc' \in [Copies -> Places] /\ (Built' <=> Built) /\ pc'[Here] # "down"
    BY <1>2, HereAssumption DEF create_db_table, Insert, Step, Built, PageInv
  <2> QED
    BY <1>2, <2>1, ElsewhereStep
<1>3. CASE NicListBuilt
  <2>1. /\ pc[Here] = "down" /\ pc' = [pc EXCEPT ![Here] = "create"]
        /\ UNCHANGED <<filterBox, selectNic, page, shown>>
    BY <1>3 DEF NicListBuilt, create_db_lite, Step
  <2>2. page = "start" /\ filterBox = "All"
    BY <2>1 DEF PageInv, Built
  <2>3. IsList(nic', "All")
    BY <1>3, SetNicLists DEF NicListBuilt, Asking, Asked
  <2> QED
    BY <2>1, <2>2, <2>3, HereAssumption DEF PageInv, Built, IsList, Of, Asking, Asked
<1>4. CASE Completed
  <2>1. /\ pc' = [pc EXCEPT ![Here] = "idle"] /\ selectNic' = get_FirstNic(nic)
        /\ pc[Here] = "init" /\ UNCHANGED <<nic, filterBox, page, shown>>
    BY <1>4 DEF Completed, init_vec, Step
  <2>2. Selected(nic, get_FirstNic(nic)) /\ page # "capture"
    BY <2>1, FirstIsSelected DEF PageInv, Built
  <2> QED
    BY <2>1, <2>2, HereAssumption DEF PageInv, Built, IsList, Selected, Of
<1>5. CASE Quit
  BY <1>5, EmptyList, HereAssumption
  DEF Quit, Exit, PageInv, Built, Asking, Asked
<1>6. CASE Accepted
  <2>1. /\ pc' = [pc EXCEPT ![Here] = "idle"] /\ pc[Here] = "select"
        /\ page' = "capture" /\ shown'.nicName = selectNic /\ UNCHANGED nicVars
    BY <1>6 DEF Accepted, Refresh, Step, FileViewOpens
  <2> QED
    BY <2>1, HereAssumption DEF PageInv, Built, IsList, Selected, Of, nicVars
<1>7. CASE Back
  BY <1>7 DEF Back, PageInv, Built, IsList, Selected, Of, nicVars, vars
<1>8. ASSUME NEW label \in DOMAIN Asked, onActivated(label) PROVE PageInv'
  <2>1. /\ pc[Here] = "idle" /\ page = "start" /\ page' = page /\ pc' = pc
        /\ filterBox' = label /\ selectNic' = get_FirstNic(nic')
    BY <1>8 DEF onActivated, Ready, vars
  <2>2. IsList(nic', label)
    BY <1>8, SetNicLists DEF onActivated, Asking
  <2>3. Selected(nic', selectNic')
    BY <2>1, <2>2, FirstIsSelected
  <2>4. IsList(nic, filterBox)'
    BY <2>1, <2>2 DEF IsList, Of
  <2> QED
    BY <2>1, <2>3, <2>4 DEF PageInv, Selected, Asking
<1>9. ASSUME NEW i \in 1..Len(nic), onClicked(i) \/ onDoubleClicked(i) PROVE PageInv'
  <2>1. /\ pc[Here] = "idle" /\ pc' = pc /\ nic' = nic /\ filterBox' = filterBox
        /\ selectNic' = nic[i].text
        /\ \/ page' = "start"
           \/ page' = "capture" /\ shown'.nicName = selectNic'
    BY <1>9 DEF onClicked, onDoubleClicked, Ready, vars
  <2>2. nic # <<>> /\ Selected(nic, selectNic')
    BY <2>1 DEF Selected, PageInv, IsList
  <2> QED
    BY <2>1, <2>2 DEF PageInv, Built, IsList, Selected, Of
<1>10. ASSUME NEW p, onAccepted(p) PROVE PageInv'
  <2>1. /\ pc' = [pc EXCEPT ![Here] = "insert"] /\ pc[Here] = "idle" /\ UNCHANGED pageVars
    BY <1>10 DEF onAccepted, add_db, Step
  <2>2. pc' \in [Copies -> Places] /\ (Built' <=> Built) /\ pc'[Here] # "down"
    BY <2>1, HereAssumption DEF Built, PageInv
  <2> QED
    BY <2>1, <2>2, ElsewhereStep
<1>11. ASSUME NEW p, RecentOpened(p) PROVE PageInv'
  BY <1>11 DEF RecentOpened, Ready, FileViewOpens, PageInv, Built, IsList, Selected, Of,
               nicVars, vars
<1>12. CASE UNCHANGED allVars
  BY <1>12 DEF allVars, vars, pageVars, nicVars, PageInv, Built, IsList, Selected, Of
<1> QED
  BY <1>1, <1>2, <1>3, <1>4, <1>5, <1>6, <1>7, <1>8, <1>9, <1>10, <1>11, <1>12 DEF StartNext

LEMMA PageInvariant == StartSpec => []PageInv
BY PageInit, PageStep, PTL DEF StartSpec

(***************************************************************************)
(* selectNic is an interface of the list on the page, or empty with it.    *)
(***************************************************************************)
THEOREM SelectionStaysListed == StartSpec => []SelectionIsListed
<1>1. PageInv => SelectionIsListed
  BY DEF PageInv, Built, Selected, SelectionIsListed
<1> QED
  BY <1>1, PageInvariant, PTL

(***************************************************************************)
(* What a label of the combo box says is what opens under it: compare_Nic  *)
(* looks for the marks of wireless and virtual adapters before those of    *)
(* Ethernet ones, which they have as well.                                 *)
(***************************************************************************)
THEOREM LabelsAreKept == StartSpec => []OpenedIsOfLabel
<1>1. PageInv => OpenedIsOfLabel
  <2> SUFFICES ASSUME PageInv, page = "capture", shown.nicName # NoNic
               PROVE  OpenedIsOfLabel
    BY DEF OpenedIsOfLabel
  <2>1. PICK i \in 1..Len(nic) : nic[i].text = shown.nicName
    BY DEF PageInv, Selected
  <2>2. PICK k \in 1..Len(Interfaces) :
           Interfaces[k].name = shown.nicName /\ Of(filterBox, k)
    BY <2>1 DEF PageInv, IsList
  <2>3. MarksOf(shown.nicName) = Interfaces[k].marks
    BY <2>2, InterfacesAssumption DEF MarksOf
  <2>4. Asked[filterBox] \in {OP_Any, compare_Nic(MarksOf(shown.nicName))}
    BY <2>2, <2>3 DEF Of
  <2> QED
    BY <2>4
    DEF OpenedIsOfLabel, Asked, compare_Nic, OP_Any, OP_Loop, OP_Wlo, OP_Virtual, OP_Ethernet
<1> QED
  BY <1>1, PageInvariant, PTL

-----------------------------------------------------------------------------
(***************************************************************************)
(* The recent captures (OpenList): what is shown is stored, for any number *)
(* of copies and paths.  The inductive invariant is ShownIsStored with the *)
(* types, and with Named: a copy that is about to insert was given a path. *)
(***************************************************************************)
Named == \A c \in Copies : pc[c] = "insert" => adding[c] \in Paths
StoredInv == TypeOK /\ Named /\ ShownIsStored

LEMMA StoredInit == Init => StoredInv
BY DEF Init, StoredInv, TypeOK, Named, ShownIsStored

\* A SELECT shows something of what is stored, or what was shown before.
LEMMA SelectShows ==
    ASSUME StoredInv, NEW c \in Copies, Select(c)
    PROVE  /\ vec' \in [Copies -> SUBSET Paths]
           /\ \A d \in Copies : vec'[d] = vec[d] \/ vec'[d] \subseteq db
BY DEF StoredInv, TypeOK, Select

LEMMA StoredStep == StoredInv /\ [Next]_vars => StoredInv'
<1> SUFFICES ASSUME StoredInv, [Next]_vars PROVE StoredInv'
    OBVIOUS
<1> USE DEF StoredInv, TypeOK, Named, ShownIsStored, Step
<1>1. ASSUME NEW c \in Copies, create_db_lite(c) PROVE StoredInv'
    BY <1>1 DEF create_db_lite
<1>2. ASSUME NEW c \in Copies, create_db_table(c) PROVE StoredInv'
    BY <1>2 DEF create_db_table
<1>3. ASSUME NEW c \in Copies, init_vec(c) PROVE StoredInv'
    BY <1>3, SelectShows DEF init_vec
<1>4. ASSUME NEW c \in Copies, NEW p \in Paths, add_db(c, p) PROVE StoredInv'
    BY <1>4 DEF add_db
<1>5. ASSUME NEW c \in Copies, Insert(c) PROVE StoredInv'
    BY <1>5 DEF Insert
<1>6. ASSUME NEW c \in Copies, Refresh(c) PROVE StoredInv'
    BY <1>6, SelectShows DEF Refresh
<1>7. ASSUME NEW c \in Copies, Exit(c) PROVE StoredInv'
    BY <1>7 DEF Exit
<1>8. CASE UNCHANGED vars
    BY <1>8 DEF vars
<1> QED  BY <1>1, <1>2, <1>3, <1>4, <1>5, <1>6, <1>7, <1>8 DEF Next, CopyStep

LEMMA StoredInvariant == Spec => []StoredInv
BY StoredInit, StoredStep, PTL DEF Spec

\* Whatever statements fail and however the copies of the program interleave,
\* every path that add_db or the constructor shows is in the database.
THEOREM ShownStaysStored == Spec => []ShownIsStored
BY StoredInvariant, PTL DEF StoredInv

(***************************************************************************)
(* The start page is one of the copies: every step of it is, on the        *)
(* database and the lists of the copies, a step of OpenList or none.  So   *)
(* the theorem above holds of the page (StartSpec) as well.                *)
(***************************************************************************)
THEOREM PageIsACopy == StartSpec => Spec
<1>1. StartInit => Init
  BY DEF StartInit
<1>2. [StartNext]_allVars => [Next]_vars
  <2> SUFFICES ASSUME [StartNext]_allVars PROVE [Next]_vars
    OBVIOUS
  <2>1. ASSUME NEW c \in Copies, CopyStep(c) PROVE Next
    BY <2>1 DEF Next
  <2>2. create_db_table(Here) \/ Insert(Here) \/ NicListBuilt \/ Completed \/ Quit \/ Accepted
          => CopyStep(Here)
    BY DEF NicListBuilt, Completed, Quit, Accepted, CopyStep
  <2>3. (\E p \in Paths : onAccepted(p)) => CopyStep(Here)
    BY DEF onAccepted, CopyStep
  <2>4. Back \/ (\E p \in vec[Here] : RecentOpened(p)) => UNCHANGED vars
    BY DEF Back, RecentOpened
  <2>5. (\E label \in DOMAIN Asked : onActivated(label)) => UNCHANGED vars
    BY DEF onActivated, vars
  <2>6. (\E i \in 1..Len(nic) : onClicked(i) \/ onDoubleClicked(i)) => UNCHANGED vars
    BY DEF onClicked, onDoubleClicked, vars
  <2>7. UNCHANGED allVars => UNCHANGED vars
    BY DEF allVars
  <2> QED
    BY <2>1, <2>2, <2>3, <2>4, <2>5, <2>6, <2>7, HereAssumption DEF StartNext
<1> QED
  BY <1>1, <1>2, PTL DEF StartSpec, Spec
=============================================================================
