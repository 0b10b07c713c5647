------------------------------ MODULE MpscFifo ------------------------------
(***************************************************************************)
(* include/fibconcurrent/mpsc_fifo.h: a linked queue with any number of    *)
(* producers and one consumer.  A push exchanges `tail` for its node and   *)
(* links the old tail to it afterwards; until then the queue is cut in two *)
(* and the consumer sees its front part only.  trypop returns the OLD head *)
(* node with the new head's data copied into it, so a caller gets back     *)
(* another node than the one that carried the data in, and may push it     *)
(* again at once.                                                          *)
(*                                                                         *)
(* The operations are parameterised by the calling thread, so that a       *)
(* module that calls them (WorkQueue) can extend this one.  `next` is the  *)
(* only field two threads access; everything else trypop and peek touch    *)
(* belongs to the consumer, so each is one action.                         *)
(***************************************************************************)
EXTENDS Integers, Sequences, FiniteSets

CONSTANTS Threads,  \* the threads that push
          Nodes,    \* mpsc_fifo_node_t objects
          Items,    \* the data pointers pushed; each is pushed once
          NULL

ASSUME NullAssumption == NULL \notin Nodes /\ NULL \notin Items
ASSUME NodesAssumption == Nodes # {}  \* mpsc_fifo_init has its node

VARIABLES
    head, tail,      \* mpsc_fifo_t
    next, data,      \* the fields of the nodes
    new_node, prev_tail, \* the parameter and the local of an unfinished push
    owned,           \* nodes that belong to the callers
    pushed, popped   \* history: the data in the order of exchanges and of pops

fifo == <<head, tail, next, data>>
pushes == <<new_node, prev_tail>>
history == <<pushed, popped>>
fifoVars == <<fifo, pushes, owned, history>>

\* mpsc_fifo_init: one calloc'ed node (whichever: they are all alike)
FifoInit ==
    /\ head = CHOOSE n \in Nodes : TRUE
    /\ tail = head
    /\ owned = Nodes \ {head}
    /\ next = [n \in Nodes |-> NULL]
    /\ data = [n \in Nodes |-> NULL]
    /\ new_node = [t \in Threads |-> NULL]
    /\ prev_tail = [t \in Threads |-> NULL]
    /\ pushed = <<>> /\ popped = <<>>

-----------------------------------------------------------------------------
(* mpsc_fifo_push                                                          *)

Unpushed(v) == \A i \in 1 .. Len(pushed) : pushed[i] # v

\* new_node->next = NULL; prev_tail = exchange(&f->tail, new_node)
PushExchange_NextKept(t, n, v) ==
    /\ new_node[t] = NULL
    /\ n \in owned /\ Unpushed(v)
    /\ owned' = owned \ {n}
    /\ data' = [data EXCEPT ![n] = v]
    /\ tail' = n
    /\ new_node' = [new_node EXCEPT ![t] = n]
    /\ prev_tail' = [prev_tail EXCEPT ![t] = tail]
    /\ pushed' = Append(pushed, v)
    /\ UNCHANGED <<head, next, popped>>
PushExchange(t, n, v) ==
    /\ new_node[t] = NULL
    /\ n \in owned /\ Unpushed(v)
    /\ owned' = owned \ {n}
    /\ data' = [data EXCEPT ![n] = v]
    /\ next' = [next EXCEPT ![n] = NULL]
    /\ tail' = n
    /\ new_node' = [new_node EXCEPT ![t] = n]
    /\ prev_tail' = [prev_tail EXCEPT ![t] = tail]
    /\ pushed' = Append(pushed, v)
    /\ UNCHANGED <<head, popped>>

\* prev_tail->next = new_node
PushLink(t) ==
    /\ new_node[t] # NULL
    /\ next' = [next EXCEPT ![prev_tail[t]] = new_node[t]]
    /\ new_node' = [new_node EXCEPT ![t] = NULL]
    /\ prev_tail' = [prev_tail EXCEPT ![t] = NULL]
    /\ UNCHANGED <<head, tail, data, owned, history>>

-----------------------------------------------------------------------------
(* The consumer: mpsc_fifo_peek and mpsc_fifo_trypop                       *)

\* What both test: head->next, NULL when nothing is linked.
First == next[head]

\* The data peek returns, and trypop if it is called instead.
Peek == data[First]

TrypopNothing == First = NULL /\ UNCHANGED fifoVars

\* f->head = prev_next; prev_head->data = prev_next->data; return prev_head.
\* trypop keeps prev_head->next: the next push of the node clears it.
Trypop_ReturnsNew ==
    /\ First # NULL
    /\ head' = First
    /\ owned' = owned \cup {First}
    /\ popped' = Append(popped, Peek)
    /\ UNCHANGED <<tail, next, data, pushes, pushed>>
Trypop ==
    /\ First # NULL
    /\ head' = First
    /\ data' = [data EXCEPT ![head] = Peek]
    /\ owned' = owned \cup {head}
    /\ popped' = Append(popped, Peek)
    /\ UNCHANGED <<tail, next, pushes, pushed>>

-----------------------------------------------------------------------------
FifoTypeOK ==
    /\ head \in Nodes /\ tail \in Nodes
    /\ next \in [Nodes -> Nodes \cup {NULL}]
    /\ data \in [Nodes -> Items \cup {NULL}]
    /\ new_node \in [Threads -> Nodes \cup {NULL}]
    /\ prev_tail \in [Threads -> Nodes \cup {NULL}]
    /\ owned \subseteq Nodes
    /\ pushed \in Seq(Items)
    /\ popped \in Seq(Items)

\* The consumer gets the data in the order of the exchanges on `tail`, each once,
\* although the links appear in any order and nodes go round.
FifoOrder ==
    /\ Len(popped) <= Len(pushed)
    /\ \A i \in 1 .. Len(popped) : popped[i] = pushed[i]

\* A node the callers own is none the fifo or an unfinished push will still read
\* or write: "the caller owns the node after popping".
OwnedNodesUnused ==
    /\ head \notin owned /\ tail \notin owned
    /\ next[head] \notin owned
    /\ \A t \in Threads : prev_tail[t] \notin owned /\ new_node[t] \notin owned

\* trypop and peek report an empty fifo only when it is empty or when the push of
\* the very next item has not linked its node yet: an unfinished push further
\* back hides nothing that is in front of it.
EmptyIsHonest ==
    First = NULL =>
        \/ Len(pushed) = Len(popped)
        \/ \E t \in Threads : prev_tail[t] = head
\* The nodes change hands safely and an empty answer is honest.
NodesInOrder == OwnedNodesUnused /\ EmptyIsHonest

=============================================================================
