------------------------------ MODULE DistFifo ------------------------------
(***************************************************************************)
(* include/fibconcurrent/dist_fifo.h together with mpmc_lifo.h: one        *)
(* distinguished thread pushes onto the fifo, any thread pops from it with *)
(* a counted head, and the nodes that come out go back in, through the     *)
(* callers' hands or through a lifo of spare nodes.  Both structures link  *)
(* nodes by the same field `next` and both read it from nodes that may     *)
(* have been popped already: "Reading data from a node that has already    *)
(* been popped is safe".  Only the counters tell a stale snapshot.         *)
(*                                                                         *)
(* trypop writes the data into the old head once its CAS has made that     *)
(* node the caller's: both are one action here.                            *)
(***************************************************************************)
EXTENDS MpmcLifo, Sequences

CONSTANTS Pusher,  \* the distinguished thread
          Items    \* the data pointers pushed; each is pushed once

ASSUME PusherAssumption == Pusher \in Threads
ASSUME ItemsAssumption == NULL \notin Items
ASSUME DummyAssumption == Nodes # {}  \* dist_fifo_init has allocated one

VARIABLES
    head,            \* dist_fifo_pointer_t: [counter, node]
    tail,            \* touched by the pusher only
    data,            \* the field of the nodes
    taken,           \* trypop: the local `data`
    pushed, popped   \* history: the data in the order of links and of pops

history == <<pushed, popped>>
distVars == <<head, tail, data, taken, history>>
vars == <<lifoVars, distVars>>

\* dist_fifo_init: one calloc'ed node; the pusher has allocated the others
Init ==
    /\ \E dummy \in {CHOOSE n \in Nodes : TRUE} :
          /\ head = [counter |-> 0, node |-> dummy]
          /\ tail = dummy
          /\ LifoInit([t \in Threads |-> IF t = Pusher THEN Nodes \ {dummy} ELSE {}])
    /\ data = [n \in Nodes |-> NULL]
    /\ taken = [t \in Threads |-> NULL]
    /\ pushed = <<>> /\ popped = <<>>

Unpushed(v) == v \notin {pushed[i] : i \in 1 .. Len(pushed)}

-----------------------------------------------------------------------------
(* dist_fifo_push                                                          *)

\* The caller sets the data; new_node->next = NULL, then a write_barrier
DistPushCall_NotTerminated(n, v) ==
    /\ pc[Pusher] = "idle" /\ n \in mine[Pusher] /\ Unpushed(v)
    /\ arg' = [arg EXCEPT ![Pusher] = n]
    /\ mine' = [mine EXCEPT ![Pusher] = @ \ {n}]
    /\ data' = [data EXCEPT ![n] = v]
    /\ Goto(Pusher, "dist_link")
    /\ UNCHANGED <<next, lifo, snapshot, following, freed, head, tail, taken, history>>
DistPushCall(n, v) ==
    /\ pc[Pusher] = "idle" /\ n \in mine[Pusher] /\ Unpushed(v)
    /\ arg' = [arg EXCEPT ![Pusher] = n]
    /\ mine' = [mine EXCEPT ![Pusher] = @ \ {n}]
    /\ data' = [data EXCEPT ![n] = v]
    /\ next' = [next EXCEPT ![n] = NULL]
    /\ Goto(Pusher, "dist_link")
    /\ UNCHANGED <<lifo, snapshot, following, freed, head, tail, taken, history>>

\* tail->next = new_node; fifo->tail = new_node
DistPushLink_TailKept ==
    /\ pc[Pusher] = "dist_link"
    /\ next' = [next EXCEPT ![tail] = arg[Pusher]]
    /\ pushed' = Append(pushed, data[arg[Pusher]])
    /\ Return(Pusher)
    /\ UNCHANGED <<lifo, mine, freed, head, tail, data, taken, popped>>
DistPushLink ==
    /\ pc[Pusher] = "dist_link"
    /\ next' = [next EXCEPT ![tail] = arg[Pusher]]
    /\ tail' = arg[Pusher]
    /\ pushed' = Append(pushed, data[arg[Pusher]])
    /\ Return(Pusher)
    /\ UNCHANGED <<lifo, mine, freed, head, data, taken, popped>>

-----------------------------------------------------------------------------
(* dist_fifo_trypop                                                        *)

TrypopCall(t) ==
    /\ pc[t] = "idle"
    /\ ReadCounter(t, head, "dist_head")
    /\ UNCHANGED distVars

\* old_head.node = fifo->head.node
TrypopHead(t) ==
    /\ pc[t] = "dist_head"
    /\ snapshot' = [snapshot EXCEPT ![t].node = head.node]
    /\ Goto(t, "dist_next")
    /\ UNCHANGED <<next, lifo, mine, arg, following, freed, distVars>>

\* prev_head_next = prev_head->next; NULL is DIST_FIFO_EMPTY
TrypopNext(t) ==
    /\ pc[t] = "dist_next"
    /\ \/ next[snapshot[t].node] = NULL /\ Return(t)
       \/ /\ next[snapshot[t].node] # NULL
          /\ following' = [following EXCEPT ![t] = next[snapshot[t].node]]
          /\ Goto(t, "dist_data")
          /\ UNCHANGED <<arg, snapshot>>
    /\ UNCHANGED <<next, lifo, mine, freed, distVars>>

\* data = prev_head_next->data
TrypopData(t) ==
    /\ pc[t] = "dist_data"
    /\ taken' = [taken EXCEPT ![t] = data[following[t]]]
    /\ Goto(t, "dist_cas")
    /\ UNCHANGED <<next, lifo, mine, arg, snapshot, following, freed,
                   head, tail, data, history>>

\* The CAS moves the head and hands the old head to the caller, with the data;
\* otherwise DIST_FIFO_RETRY is returned
TrypopCAS(t) ==
    /\ pc[t] = "dist_cas"
    /\ \/ /\ CAS2Succeeds(head, snapshot[t])
          /\ head' = [counter |-> snapshot[t].counter + 1, node |-> following[t]]
          /\ data' = [data EXCEPT ![snapshot[t].node] = taken[t]]
          /\ mine' = [mine EXCEPT ![t] = @ \cup {snapshot[t].node}]
          /\ popped' = Append(popped, taken[t])
       \/ ~CAS2Succeeds(head, snapshot[t]) /\ UNCHANGED <<head, data, mine, popped>>
    /\ Return(t)
    /\ taken' = [taken EXCEPT ![t] = NULL]
    /\ UNCHANGED <<next, lifo, freed, tail, pushed>>

-----------------------------------------------------------------------------
(* dist_fifo_destroy, then mpmc_lifo_destroy, when no call is under way    *)

DestroyCall(t) ==
    /\ \A u \in Threads : pc[u] = "idle"
    /\ pc' = [u \in Threads |-> IF u = t THEN "dist_destroy" ELSE "destroyed"]
    /\ UNCHANGED <<next, lifo, mine, arg, snapshot, following, freed, distVars>>

DistDestroy(t) ==
    /\ pc[t] = "dist_destroy"
    /\ \/ /\ head.node # NULL
          /\ head' = [head EXCEPT !.node = next[head.node]]
          /\ freed' = freed \cup {head.node}
          /\ UNCHANGED pc
       \/ /\ head.node = NULL
          /\ Goto(t, "lifo_destroy")
          /\ UNCHANGED <<head, freed>>
    /\ UNCHANGED <<next, lifo, mine, arg, snapshot, following, tail, data, taken, history>>

-----------------------------------------------------------------------------
LifoCalls(t) == (LifoPopCall(t) \/ \E n \in Nodes : LifoPushCall(t, n)) /\ UNCHANGED distVars

Runs(t) ==
    \/ LifoRuns(t) /\ UNCHANGED distVars
    \/ t = Pusher /\ DistPushLink
    \/ TrypopHead(t) \/ TrypopNext(t) \/ TrypopData(t) \/ TrypopCAS(t)
    \/ DistDestroy(t)

Next ==
    \/ \E n \in Nodes, v \in Items : DistPushCall(n, v)
    \/ \E t \in Threads : LifoCalls(t) \/ TrypopCall(t) \/ DestroyCall(t) \/ Runs(t)

Spec == Init /\ [][Next]_vars

\* Threads keep going, and each calls trypop again and again, whatever else it
\* calls in between (hence strong fairness).
Fairness == \A t \in Threads : WF_vars(Runs(t)) /\ SF_vars(TrypopCall(t))

LiveSpec == Spec /\ Fairness

-----------------------------------------------------------------------------
TypeOK ==
    /\ LifoTypeOK
    /\ head \in [counter : Nat, node : Nodes \cup {NULL}]
    /\ tail \in Nodes
    /\ data \in [Nodes -> Items \cup {NULL}]
    /\ taken \in [Threads -> Items \cup {NULL}]
    /\ \A t \in Threads : pc[t] \in {"dist_data", "dist_cas"} => following[t] # NULL
    /\ pushed \in Seq(Items) /\ popped \in Seq(Items)

\* Items leave the fifo in the order in which they were pushed, each once,
\* although a popper may work on a head that is popped and pushed again.
FifoOrder ==
    /\ Len(popped) <= Len(pushed)
    /\ \A i \in 1 .. Len(popped) : popped[i] = pushed[i]

\* A node is in one place: in the fifo, in the lifo, with one thread, about to be
\* pushed, or freed.  No snapshot of a stack or fifo that has changed meanwhile
\* succeeds, however often the same address came back; and destroying both frees
\* every node the callers do not hold, each once.
Places ==
    {<<"fifo", NULL, ChainFrom(head.node)>>,
     <<"lifo", NULL, ChainFrom(lifo.node)>>,
     <<"freed", NULL, freed>>}
        \cup {<<"mine", t, mine[t]>> : t \in Threads}
        \cup {<<"arg", t, {arg[t]} \ {NULL}>> : t \in Threads}
EachNodeInOnePlace ==
    /\ Ends(head.node) /\ Ends(lifo.node)
    /\ \A n \in Nodes : Cardinality({p \in Places : n \in p[3]}) = 1

\* The fifo holds as many nodes as it has items, and one, and ends at `tail`.
FifoIntact ==
    head.node # NULL /\ (\A t \in Threads : pc[t] # "dist_destroy") =>
        /\ Cardinality(ChainFrom(head.node)) = Len(pushed) - Len(popped) + 1
        /\ tail \in ChainFrom(head.node) /\ next[tail] = NULL

\* The nodes of both structures, and the fifo's own end.
NodesIntact == TypeOK /\ EachNodeInOnePlace /\ FifoIntact

\* The poppers catch up with the pusher, whatever the RETRYs and the spurious
\* EMPTYs, unless the fifo is destroyed before.
AllPopped ==
    Len(popped) < Len(pushed) ~> (head.node = NULL \/ Len(popped) = Len(pushed))

=============================================================================
