------------------------------ MODULE MpmcLifo ------------------------------
(***************************************************************************)
(* include/fibconcurrent/mpmc_lifo.h: a stack of mpsc_fifo_node_t whose    *)
(* head is a node and a counter that every successful change increments;   *)
(* compare_and_swap2 (machine_specific.h) changes both words at once.      *)
(*                                                                         *)
(* This module holds the state and the operations of the stack; DistFifo   *)
(* extends it with a fifo of the same nodes, so that a node popped from    *)
(* one may be pushed onto the other, and adds the calls.  One action per   *)
(* access to a word other threads write.                                   *)
(***************************************************************************)
EXTENDS Integers, FiniteSets

CONSTANTS Threads,
          Nodes,       \* mpsc_fifo_node_t objects; their memory stays readable
          NULL,
          MaxCounter   \* no call on the lifo starts once its counter is there

ASSUME NodesAssumption == NULL \notin Nodes
ASSUME MaxCounterAssumption == MaxCounter \in Nat

VARIABLES
    next,      \* the field of the nodes
    lifo,      \* mpmc_lifo_t: [counter, node]
    pc,        \* where each thread is
    mine,      \* the nodes that belong to each thread
    arg,       \* the node an unfinished push was given
    snapshot,  \* the local copy of the counter and the node
    following, \* pop: the node the snapshot's node was read to point to
    freed      \* nodes given to free()

locals == <<pc, mine, arg, snapshot, following>>
lifoVars == <<next, lifo, locals, freed>>

Goto(t, label) == pc' = [pc EXCEPT ![t] = label]

\* The call returns: its locals are gone.
Return(t) ==
    /\ Goto(t, "idle")
    /\ arg' = [arg EXCEPT ![t] = NULL]
    /\ snapshot' = [snapshot EXCEPT ![t] = [counter |-> 0, node |-> NULL]]
    /\ following' = [following EXCEPT ![t] = NULL]

\* mpmc_lifo_init, with the nodes the callers start with
LifoInit(owned) ==
    /\ next = [n \in Nodes |-> NULL]
    /\ lifo = [counter |-> 0, node |-> NULL]
    /\ pc = [t \in Threads |-> "idle"]
    /\ mine = owned
    /\ arg = [t \in Threads |-> NULL]
    /\ snapshot = [t \in Threads |-> [counter |-> 0, node |-> NULL]]
    /\ following = [t \in Threads |-> NULL]
    /\ freed = {}

\* compare_and_swap2 succeeds: both words are what they were
CAS2Succeeds_NodeOnly(location, original) == location.node = original.node
CAS2Succeeds(location, original) == location = original

\* snapshot.counter = location.counter, then a load_load_barrier
ReadCounter(t, location, label) ==
    /\ snapshot' = [snapshot EXCEPT ![t].counter = location.counter]
    /\ Goto(t, label)
    /\ UNCHANGED <<next, lifo, mine, arg, following, freed>>

-----------------------------------------------------------------------------
(* mpmc_lifo_push                                                          *)

LifoPushCall(t, n) ==
    /\ pc[t] = "idle" /\ n \in mine[t] /\ lifo.counter < MaxCounter
    /\ arg' = [arg EXCEPT ![t] = n]
    /\ mine' = [mine EXCEPT ![t] = @ \ {n}]
    /\ Goto(t, "push_counter")
    /\ UNCHANGED <<next, lifo, snapshot, following, freed>>

LifoPushCounter(t) ==
    pc[t] = "push_counter" /\ ReadCounter(t, lifo, "push_head")

\* snapshot.head = lifo->head; node->next = snapshot.head
LifoPushHead(t) ==
    /\ pc[t] = "push_head"
    /\ snapshot' = [snapshot EXCEPT ![t].node = lifo.node]
    /\ next' = [next EXCEPT ![arg[t]] = lifo.node]
    /\ Goto(t, "push_cas")
    /\ UNCHANGED <<lifo, mine, arg, following, freed>>

LifoPushCAS(t) ==
    /\ pc[t] = "push_cas"
    /\ \/ /\ CAS2Succeeds(lifo, snapshot[t])
          /\ lifo' = [counter |-> snapshot[t].counter + 1, node |-> arg[t]]
          /\ Return(t)
       \/ /\ ~CAS2Succeeds(lifo, snapshot[t])
          /\ Goto(t, "push_counter")
          /\ UNCHANGED <<lifo, arg, snapshot, following>>
    /\ UNCHANGED <<next, mine, freed>>

-----------------------------------------------------------------------------
(* mpmc_lifo_pop                                                           *)

LifoPopCall(t) ==
    /\ pc[t] = "idle" /\ lifo.counter < MaxCounter
    /\ ReadCounter(t, lifo, "pop_head")

LifoPopRetry(t) ==
    pc[t] = "pop_counter" /\ ReadCounter(t, lifo, "pop_head")

\* snapshot.head = lifo->head; NULL is returned as such
LifoPopHead(t) ==
    /\ pc[t] = "pop_head"
    /\ \/ lifo.node = NULL /\ Return(t)
       \/ /\ lifo.node # NULL
          /\ snapshot' = [snapshot EXCEPT ![t].node = lifo.node]
          /\ Goto(t, "pop_next")
          /\ UNCHANGED <<arg, following>>
    /\ UNCHANGED <<next, lifo, mine, freed>>

\* temp.head = snapshot.head->next, of a node that may not be in the lifo any more
LifoPopNext(t) ==
    /\ pc[t] = "pop_next"
    /\ following' = [following EXCEPT ![t] = next[snapshot[t].node]]
    /\ Goto(t, "pop_cas")
    /\ UNCHANGED <<next, lifo, mine, arg, snapshot, freed>>

LifoPopCAS(t) ==
    /\ pc[t] = "pop_cas"
    /\ \/ /\ CAS2Succeeds(lifo, snapshot[t])
          /\ lifo' = [counter |-> snapshot[t].counter + 1, node |-> following[t]]
          /\ mine' = [mine EXCEPT ![t] = @ \cup {snapshot[t].node}]
          /\ Return(t)
       \/ /\ ~CAS2Succeeds(lifo, snapshot[t])
          /\ Goto(t, "pop_counter")
          /\ UNCHANGED <<lifo, mine, arg, snapshot, following>>
    /\ UNCHANGED <<next, freed>>

\* mpmc_lifo_destroy, when no call is under way and no other follows
LifoDestroy(t) ==
    /\ pc[t] = "lifo_destroy"
    /\ \/ /\ lifo.node # NULL
          /\ lifo' = [lifo EXCEPT !.node = next[lifo.node]]
          /\ freed' = freed \cup {lifo.node}
          /\ UNCHANGED pc
       \/ /\ lifo.node = NULL
          /\ Goto(t, "destroyed")
          /\ UNCHANGED <<lifo, freed>>
    /\ UNCHANGED <<next, mine, arg, snapshot, following>>

LifoRuns(t) ==
    \/ LifoPushCounter(t) \/ LifoPushHead(t) \/ LifoPushCAS(t)
    \/ LifoPopRetry(t) \/ LifoPopHead(t) \/ LifoPopNext(t) \/ LifoPopCAS(t)
    \/ LifoDestroy(t)

-----------------------------------------------------------------------------
\* The nodes from `first` on, along `next`: the smallest set with `first` in it that
\* `next` does not lead out of.
ChainFrom(first) ==
    {n \in Nodes :
        \A S \in SUBSET Nodes :
            first \in S \cup {NULL} /\ (\A m \in S : next[m] \in S \cup {NULL}) => n \in S}

\* The chain has an end.
Ends(first) == first # NULL => \E n \in ChainFrom(first) : next[n] = NULL

LifoTypeOK ==
    /\ next \in [Nodes -> Nodes \cup {NULL}]
    /\ lifo \in [counter : Nat, node : Nodes \cup {NULL}]
    /\ mine \in [Threads -> SUBSET Nodes]
    /\ arg \in [Threads -> Nodes \cup {NULL}]
    /\ snapshot \in [Threads -> [counter : Nat, node : Nodes \cup {NULL}]]
    /\ following \in [Threads -> Nodes \cup {NULL}]
    /\ freed \subseteq Nodes

=============================================================================
