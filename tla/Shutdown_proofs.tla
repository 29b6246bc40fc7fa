---------------------------- MODULE Shutdown_proofs ----------------------------
(***************************************************************************)
(* A window that is closed when no worker has a call to post is closed for *)
(* good.  While the event loop runs, CaptureSession's invariant holds, and *)
(* it is needed: a call that is still queued then must not set a silent    *)
(* worker going again, as the answer to a blocking call does.              *)
(***************************************************************************)
EXTENDS Shutdown, CaptureSession_proofs

Stages == {"exec", "closing", "deleted", "exited"}
AllSilent == \A w \in Sources : Silent(w)

ClosedInv ==
    /\ app \in Stages
    /\ app \in Loop => TypeInv /\ HandleInv
    /\ app # "exec" /\ owing = {} => ~crashed /\ AllSilent /\ pc \in [Sources -> PC]

LEMMA ClosedInit == ShutdownInit => ClosedInv
BY TypeInit, HandleInit DEF ShutdownInit, ClosedInv, Stages

\* A silent worker does nothing but emit sig_end.
LEMMA SilentWorker ==
    ASSUME AllSilent, pc \in [Sources -> PC], ~crashed, NEW w \in Sources, WorkerStep(w)
    PROVE  ~crashed' /\ AllSilent' /\ pc' \in [Sources -> PC]
<1>1. pc[w] \in {"unused", "file", "finished", "end", "ended"}
  BY DEF AllSilent, Silent, Idle
<1>2. PostCall(w, "end", "quit", 0, "ended")
  BY <1>1 DEF WorkerStep, Opens, OpenFails, OpenSucceeds, Filters, EnterLoop, FilterRejected,
              Receive, Loops, TestFlag, ReadNothing, LoopError, Close, Post, PostCall
<1>3. pc' = [pc EXCEPT ![w] = "ended"] /\ crashed' = crashed
  BY <1>2 DEF PostCall
<1> QED
  BY <1>3 DEF AllSilent, Silent, PC

\* No queued call wakes a silent worker.
LEMMA SilentDeliver ==
    ASSUME AllSilent, TypeInv, HandleInv, ~crashed, Deliver
    PROVE  ~crashed' /\ AllSilent' /\ pc' \in [Sources -> PC]
<1>1. pc \in [Sources -> PC] /\ queue \in Seq(Event)
  BY DEF TypeInv, TypeOK
<1>2. queue # <<>> /\ crashed' = crashed
  BY DEF Deliver, set_wk_pp, clear_wk_pp, set_wk_life, set_wk_flag, update_md,
         dump_push_back, quit, Run
<1> DEFINE h == Head(queue)
<1>3. h = queue[1] /\ 1 \in 1..Len(queue) /\ h.from \in Sources
  BY <1>1, <1>2, TailOfQueue, PacketTypes
<1>4. h.call # "clear_wk_pp"
  <2> SUFFICES ASSUME h.call = "clear_wk_pp" PROVE FALSE
    OBVIOUS
  <2>1. pc[h.from] = "wait"
    BY <1>3 DEF HandleInv, LastStops, LastCall, AfterLast
  <2> QED
    BY <1>3, <2>1 DEF AllSilent, Silent, Idle
<1>5. pc' = pc \/ pc' = [pc EXCEPT ![h.from] = "finished"]
  BY <1>4 DEF Deliver, set_wk_pp, clear_wk_pp, set_wk_life, set_wk_flag, update_md,
              dump_push_back, quit, Run, workerVars
<1> HIDE DEF h
<1> QED
  BY <1>1, <1>2, <1>3, <1>5 DEF AllSilent, Silent, Idle, PC

LEMMA ClosedStep == ClosedInv /\ [ShutdownNext]_allVars => ClosedInv'
<1> SUFFICES ASSUME ClosedInv, [ShutdownNext]_allVars PROVE ClosedInv'
  OBVIOUS
\* The event loop and the user, as in CaptureSession.
<1>1. ASSUME app \in Loop, [Next]_vars PROVE TypeInv' /\ HandleInv'
  BY <1>1, TypeStep, HandleStep DEF ClosedInv
<1>2. CASE Running(Loop, Deliver)
  <2>1. app \in Loop /\ Deliver /\ app' = app /\ owing' = owing
    BY <1>2 DEF Running, appVars
  <2>2. TypeInv' /\ HandleInv'
    BY <1>1, <2>1 DEF Next
  <2>3. app # "exec" /\ owing = {} => ~crashed' /\ AllSilent' /\ pc' \in [Sources -> PC]
    BY <2>1, SilentDeliver DEF ClosedInv
  <2> QED
    BY <2>1, <2>2, <2>3 DEF ClosedInv
<1>3. CASE Running({"exec"}, UserStep)
  <2>1. app = "exec" /\ app \in Loop /\ UserStep /\ app' = app
    BY <1>3 DEF Running, appVars, Loop
  <2>2. TypeInv' /\ HandleInv'
    BY <1>1, <2>1 DEF Next
  <2> QED
    BY <2>1, <2>2 DEF ClosedInv
\* The workers.
<1>4. ASSUME NEW w \in Sources, Running(Threads, WorkerStep(w)) PROVE ClosedInv'
  <2>1. WorkerStep(w) /\ app' = app /\ owing' = owing
    BY <1>4 DEF Running, appVars
  <2>2. app \in Loop => TypeInv' /\ HandleInv'
    BY <1>1, <2>1 DEF Next
  <2>3. app # "exec" /\ owing = {} => ~crashed' /\ AllSilent' /\ pc' \in [Sources -> PC]
    BY <2>1, SilentWorker DEF ClosedInv
  <2> QED
    BY <2>1, <2>2, <2>3 DEF ClosedInv
<1>5. ASSUME NEW w \in Sources, DanglingPost(w) PROVE ClosedInv'
  <2>1. app = "deleted" /\ app' = app /\ owing' = owing /\ ~Silent(w)
    BY <1>5 DEF DanglingPost, appVars, Silent, Posting, Idle
  <2> QED
    BY <2>1 DEF ClosedInv, AllSilent, Loop
\* main.
<1>6. CASE CloseWindow
  <2>1. /\ app = "exec" /\ ~crashed /\ app' = "closing" /\ owing' = Owing
        /\ UNCHANGED vars
    BY <1>6 DEF CloseWindow
  <2>2. TypeInv /\ HandleInv /\ TypeInv' /\ HandleInv'
    BY <1>1, <2>1 DEF ClosedInv, Loop
  <2>3. pc' = pc /\ crashed' = crashed
    BY <2>1 DEF vars, workerVars
  <2>4. Owing = {} => AllSilent
    BY DEF Owing, AllSilent
  <2>5. AllSilent => AllSilent'
    BY <2>3 DEF AllSilent, Silent
  <2>6. pc \in [Sources -> PC]
    BY <2>2 DEF TypeInv, TypeOK
  <2> QED
    BY <2>1, <2>2, <2>3, <2>4, <2>5, <2>6 DEF ClosedInv, Stages
<1>7. CASE PcapDeleted
  <2>1. /\ app = "closing" /\ app' = "deleted" /\ crashed' = crashed /\ owing' = owing
        /\ pc' = [w \in Sources |-> IF pc[w] = "wait" THEN "dead" ELSE pc[w]]
    BY <1>7 DEF PcapDeleted
  <2>2. owing = {} => AllSilent' /\ pc' \in [Sources -> PC]
    BY <2>1 DEF ClosedInv, AllSilent, Silent, Idle, PC
  <2> QED
    BY <2>1, <2>2 DEF ClosedInv, Stages, Loop
<1>8. CASE ProcessExits
  BY <1>8 DEF ProcessExits, ClosedInv, Stages, Loop, AllSilent, Silent, vars, workerVars
<1>9. CASE UNCHANGED allVars
  <2>1. app' = app /\ owing' = owing /\ pc' = pc /\ crashed' = crashed
    BY <1>9 DEF allVars, appVars, vars, workerVars
  <2>2. app \in Loop => TypeInv' /\ HandleInv'
    BY <1>1, <1>9 DEF allVars
  <2> QED
    BY <2>1, <2>2 DEF ClosedInv, AllSilent, Silent
<1> QED
  BY <1>2, <1>3, <1>4, <1>5, <1>6, <1>7, <1>8, <1>9
  DEF ShutdownNext, Over, Down, allVars

(***************************************************************************)
(* Closing the window while no worker has a call to post never leads to a  *)
(* call through the deleted Pcap, for any number of captures and packets.  *)
(***************************************************************************)
THEOREM QuietClosesAreSafe == ShutdownSpec => []QuietCloseIsSafe
<1>1. ClosedInv => QuietCloseIsSafe
  BY DEF ClosedInv, QuietCloseIsSafe
<1> QED
  BY <1>1, ClosedInit, ClosedStep, PTL DEF ShutdownSpec
=============================================================================
