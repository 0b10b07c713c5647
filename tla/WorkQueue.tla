----------------------------- MODULE WorkQueue -----------------------------
(***************************************************************************)
(* src/work_queue.c over mpsc_fifo.h: threads push items, and whoever      *)
(* raises in_count from zero becomes the worker: it calls get_work until   *)
(* that returns WORK_QUEUE_EMPTY.  The mpsc_fifo has no lock and allows    *)
(* one consumer at a time; in_count and out_count are all that makes sure  *)
(* there is one, and that no item is left behind when it stops.            *)
(*                                                                         *)
(* One action per access to in_count and per operation of the fifo that    *)
(* another thread can see.  out_count is written by the worker only, but   *)
(* its reset is a step of its own: the next worker may start right after   *)
(* the subtraction.                                                        *)
(***************************************************************************)
EXTENDS MpscFifo

ASSUME ThreadsAssumption == IsFiniteSet(Threads)
ASSUME ItemAssumption == NULL \notin [node : Nodes, data : Items]

VARIABLES
    in_count, out_count,  \* work_queue_t
    pc,                   \* where each thread is
    item,                 \* push: the item being pushed, a node with its data
    working,              \* the thread has been told to START_WORKING
    old_out_count         \* get_work's local

counters == <<in_count, out_count>>
vars == <<fifoVars, in_count, out_count, pc, item, working, old_out_count>>

Labels == {"idle", "push_fifo", "push_link", "get_pop", "get_test", "get_reset",
           "get_sub"}

Goto(t, label) == pc' = [pc EXCEPT ![t] = label]

\* work_queue_init
Init ==
    /\ FifoInit
    /\ in_count = 0 /\ out_count = 0
    /\ pc = [t \in Threads |-> "idle"]
    /\ item = [t \in Threads |-> NULL]
    /\ working = [t \in Threads |-> FALSE]
    /\ old_out_count = [t \in Threads |-> 0]

-----------------------------------------------------------------------------
(* work_queue_push                                                         *)

\* The items counted but not in the fifo yet.
Entering == {item[t] : t \in Threads} \ {NULL}

\* in_count == 1, for the value the add returned: "we got here first"
StartsWorking == in_count + 1 = 1

\* The caller brings a node of its own, with the data in it.
\* in_count = __sync_add_and_fetch(&wq->in_count, 1)
PushCount(t, n, v) ==
    /\ pc[t] = "idle"
    /\ n \in owned /\ Unpushed(v)
    /\ \A i \in Entering : i.node # n /\ i.data # v
    /\ in_count' = in_count + 1
    /\ working' = [working EXCEPT ![t] = StartsWorking]
    /\ item' = [item EXCEPT ![t] = [node |-> n, data |-> v]]
    /\ Goto(t, "push_fifo")
    /\ UNCHANGED <<fifoVars, out_count, old_out_count>>

\* mpsc_fifo_push(&wq->fifo, item)
PushFifo(t) ==
    /\ pc[t] = "push_fifo"
    /\ PushExchange(t, item[t].node, item[t].data)
    /\ item' = [item EXCEPT ![t] = NULL]
    /\ Goto(t, "push_link")
    /\ UNCHANGED <<counters, working, old_out_count>>

\* The end of mpsc_fifo_push; the caller goes on to get_work if it was told to.
PushReturn(t) ==
    /\ pc[t] = "push_link"
    /\ PushLink(t)
    /\ Goto(t, IF working[t] THEN "get_pop" ELSE "idle")
    /\ UNCHANGED <<counters, item, working, old_out_count>>

-----------------------------------------------------------------------------
(* work_queue_get_work, called until it returns WORK_QUEUE_EMPTY           *)

\* *out = mpsc_fifo_trypop(&wq->fifo); an item: out_count += 1, MORE_WORK
GetWorkPop(t) ==
    /\ pc[t] = "get_pop"
    /\ \/ /\ Trypop
          /\ out_count' = out_count + 1
          /\ UNCHANGED pc
       \/ /\ TrypopNothing
          /\ Goto(t, "get_test")
          /\ UNCHANGED out_count
    /\ UNCHANGED <<in_count, item, working, old_out_count>>

\* wq->out_count == wq->in_count, or try again
GetWorkTest(t) ==
    /\ pc[t] = "get_test"
    /\ Goto(t, IF out_count = in_count THEN "get_reset" ELSE "get_pop")
    /\ UNCHANGED <<fifoVars, counters, item, working, old_out_count>>

\* old_out_count = wq->out_count; wq->out_count = 0
GetWorkReset_Forgotten(t) ==
    /\ pc[t] = "get_reset"
    /\ old_out_count' = [old_out_count EXCEPT ![t] = out_count]
    /\ Goto(t, "get_sub")
    /\ UNCHANGED <<fifoVars, counters, item, working>>
GetWorkReset(t) ==
    /\ pc[t] = "get_reset"
    /\ old_out_count' = [old_out_count EXCEPT ![t] = out_count]
    /\ out_count' = 0
    /\ Goto(t, "get_sub")
    /\ UNCHANGED <<fifoVars, in_count, item, working>>

\* new_in_count = __sync_sub_and_fetch(&wq->in_count, old_out_count); zero returns
\* WORK_QUEUE_EMPTY and ends this thread's turn
GetWorkSub_AlwaysEmpty(t) ==
    /\ pc[t] = "get_sub"
    /\ in_count' = in_count - old_out_count[t]
    /\ old_out_count' = [old_out_count EXCEPT ![t] = 0]
    /\ working' = [working EXCEPT ![t] = FALSE]
    /\ Goto(t, "idle")
    /\ UNCHANGED <<fifoVars, out_count, item>>
GetWorkSub_Store(t) ==
    /\ pc[t] = "get_sub"
    /\ in_count' = 0
    /\ old_out_count' = [old_out_count EXCEPT ![t] = 0]
    /\ working' = [working EXCEPT ![t] = FALSE]
    /\ Goto(t, "idle")
    /\ UNCHANGED <<fifoVars, out_count, item>>
GetWorkSub(t) ==
    /\ pc[t] = "get_sub"
    /\ in_count' = in_count - old_out_count[t]
    /\ old_out_count' = [old_out_count EXCEPT ![t] = 0]
    /\ \/ /\ in_count' = 0
          /\ working' = [working EXCEPT ![t] = FALSE]
          /\ Goto(t, "idle")
       \/ /\ in_count' # 0
          /\ Goto(t, "get_pop")
          /\ UNCHANGED working
    /\ UNCHANGED <<fifoVars, out_count, item>>

-----------------------------------------------------------------------------
Runs(t) ==
    \/ PushFifo(t) \/ PushReturn(t)
    \/ GetWorkPop(t) \/ GetWorkTest(t) \/ GetWorkReset(t) \/ GetWorkSub(t)

Next == \E t \in Threads : \/ Runs(t)
                            \/ \E n \in Nodes, v \in Items : PushCount(t, n, v)

\* Everything is pushed and done: no thread has to act again.
Finished ==
    /\ \A t \in Threads : pc[t] = "idle"
    /\ \A v \in Items : ~Unpushed(v)
    /\ UNCHANGED vars

Spec == Init /\ [][Next \/ Finished]_vars

\* A call, once made, runs to its end; nobody has to push again.
LiveSpec == Spec /\ \A t \in Threads : WF_vars(Runs(t))

-----------------------------------------------------------------------------
TypeOK ==
    /\ FifoTypeOK
    /\ in_count \in Nat /\ out_count \in Nat
    /\ pc \in [Threads -> Labels]
    /\ item \in [Threads -> [node : Nodes, data : Items] \cup {NULL}]
    /\ working \in [Threads -> BOOLEAN]
    /\ old_out_count \in [Threads -> Nat]

\* At most one thread is the worker, from the add that told it START_WORKING to
\* the subtraction that told it EMPTY: mpsc_fifo_trypop never has two callers.
SingleWorker == \A t, u \in Threads : working[t] /\ working[u] => t = u

\* WORK_QUEUE_QUEUED promises that another thread will process the item: if there
\* is an item in the fifo or on its way in, there is a worker.
WorkHasWorker ==
    (Len(pushed) > Len(popped) \/ Entering # {})
        => \E t \in Threads : working[t]

\* in_count counts what out_count does not: the items in the fifo or on the way
\* in, plus those the worker has taken and not yet subtracted.
CountsAgree ==
    LET unsubtracted == out_count + (IF \E t \in Threads : pc[t] = "get_sub"
                                     THEN old_out_count[CHOOSE t \in Threads : pc[t] = "get_sub"]
                                     ELSE 0)
    IN  in_count = Cardinality(Entering) + Len(pushed) - Len(popped) + unsubtracted

\* The hand-over of the worker role: there is a worker whenever there is work, never
\* a second one, and the counts they decide by agree.
WorkerRole == TypeOK /\ SingleWorker /\ WorkHasWorker /\ CountsAgree

\* Every pushed item is handed to the worker, whoever that is by then.
AllProcessed ==
    \A v \in Items :
        (\E i \in Entering : i.data = v)
            ~> (\E i \in 1 .. Len(popped) : popped[i] = v)

=============================================================================
