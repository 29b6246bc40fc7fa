-------------------------------- MODULE Shutdown --------------------------------
(***************************************************************************)
(* The end of the program (main): the window is closed, app.exec returns,  *)
(* the engine deletes the QML objects and Pcap with them, and the process  *)
(* exits.  Nothing in the code stops a worker or waits for it: its thread  *)
(* has no parent, and its pointer to Pcap is a plain one.                  *)
(*                                                                         *)
(* A worker that posts a call to the deleted Pcap does what is undefined.  *)
(* Both outcomes that a build can show are here: the call goes to a queue  *)
(* that nobody runs any more, or the process goes down.                    *)
(***************************************************************************)
EXTENDS CaptureSession

VARIABLES
    app,    \* "exec", "closing" (exec returns), "deleted" (Pcap is), "exited"
    owing   \* the workers that had calls to post to Pcap when the window was closed

appVars == <<app, owing>>
allVars == <<vars, appVars>>

\* A worker that has at most sig_end to emit, which is connected to its thread.
Silent(w) == pc[w] \in Idle \cup {"end", "ended"}
Owing == {w \in Sources : ~Silent(w)}

ShutdownInit == Init /\ app = "exec" /\ owing = {}

Running(stages, Step) == app \in stages /\ Step /\ UNCHANGED appVars
Threads == {"exec", "closing", "deleted"}
Loop == {"exec", "closing"}

-----------------------------------------------------------------------------
\* The last window is closed, from any page: the event loop is told to quit, and
\* may run posted calls until it does.
CloseWindow ==
    /\ app = "exec" /\ ~crashed /\ ~saveDia
    /\ app' = "closing" /\ owing' = Owing
    /\ UNCHANGED vars

\* Mutant: the destructor of Pcap waits for the threads.
Bug_WaitsForThreads ==
    /\ app = "closing" /\ ~crashed /\ NoneAlive
    /\ app' = "deleted"
    /\ queue' = <<>>
    /\ UNCHANGED <<pcapVars, viewVars, workerVars, crashed, owing>>

\* The queued calls go with their receiver, and the one that a worker is blocked
\* on with them: Qt lets that worker go on.
PcapDeleted ==
    /\ app = "closing" /\ ~crashed
    /\ app' = "deleted"
    /\ queue' = <<>>
    /\ pc' = [w \in Sources |-> IF pc[w] = "wait" THEN "dead" ELSE pc[w]]
    /\ UNCHANGED <<pcapVars, viewVars, num, pp, brk, crashed, owing>>

\* A call posted to the deleted Pcap that brings the process down.
DanglingPost(w) ==
    /\ app = "deleted" /\ ~crashed /\ pc[w] \in Posting \ {"end"}
    /\ crashed' = TRUE
    /\ UNCHANGED <<pcapVars, viewVars, queue, workerVars, appVars>>

\* main returns, and takes the threads down with it.
ProcessExits ==
    /\ app = "deleted" /\ ~crashed
    /\ app' = "exited"
    /\ UNCHANGED <<vars, owing>>

Over == app = "exited" /\ UNCHANGED allVars

ShutdownNext ==
    \/ Running(Loop, Deliver) \/ Running({"exec"}, UserStep)
    \/ \E w \in Sources : Running(Threads, WorkerStep(w)) \/ DanglingPost(w)
    \/ CloseWindow \/ PcapDeleted \/ ProcessExits
    \/ Over \/ (Down /\ UNCHANGED appVars)

\* As in CaptureSession, and main goes on; nothing is assumed of when a window
\* is closed, or of the order in which the process and its threads end.
ShutdownFairness ==
    /\ WF_allVars(Running(Loop, Deliver))
    /\ WF_allVars(PcapDeleted) /\ WF_allVars(ProcessExits)
    /\ \A w \in Sources :
        /\ WF_allVars(Running(Threads, Opens(w))) /\ WF_allVars(Running(Threads, Filters(w)))
        /\ WF_allVars(Running(Threads, TestFlag(w))) /\ WF_allVars(Running(Threads, Close(w)))
        /\ WF_allVars(Running(Threads, Post(w)))

ShutdownSpec == ShutdownInit /\ [][ShutdownNext]_allVars /\ ShutdownFairness

-----------------------------------------------------------------------------
\* A program whose window is closed ends, whatever its workers are doing,
\* although one of them may be blocked on the very thread that is leaving or in
\* a read that never returns.
CloseEnds == app = "closing" ~> (app = "exited" \/ crashed)

\* A window closed when no worker had a call to post is closed for good: nobody
\* calls the deleted Pcap.  What remains to a worker, its thread's end, is not
\* Pcap's.
QuietCloseIsSafe == app # "exec" /\ owing = {} => ~crashed

\* However two captures overlap, a worker whose loop was broken ends while the
\* window is open, unless it is in a read and stays there: none waits for the
\* other, and one that is stuck in a read holds no other back.
StoppedEndOrClosed ==
    \A w \in Sources :
        (brk[w] = "set" /\ pc[w] # "read")
            ~> (pc[w] = "finished" \/ crashed \/ app # "exec")
=============================================================================
