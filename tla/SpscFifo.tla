------------------------------ MODULE SpscFifo ------------------------------
(***************************************************************************)
(* include/fibconcurrent/spsc_fifo.h: linked queues with one producer and  *)
(* one consumer each, one per member of Fifos.  The producer owns `tail`,  *)
(* the consumer owns `head`; `next` of the last node is the only word both *)
(* access, so a push is two actions (all it does before its last store,    *)
(* then that store) and trypop is one.                                     *)
(*                                                                         *)
(* The operations are parameterised by the fifo, so that a module that     *)
(* calls them (MpscRelaxedFifo) can extend this one.                       *)
(***************************************************************************)
EXTENDS Integers, Sequences, FiniteSets

CONSTANTS Fifos,  \* spsc_fifo_t objects
          Nodes,  \* spsc_node_t objects
          Items,  \* data pointers; each may be pushed again and again
          NULL

ASSUME NullAssumption == NULL \notin Nodes /\ NULL \notin Items

VARIABLES
    head, tail,           \* of each fifo; NULL when it does not exist
    next, data,           \* the fields of the nodes
    heap,                 \* nodes calloc may return
    new_node, prev_tail,  \* the parameter and the local of an unfinished push
    out,                  \* the data in the node the last trypop returned
    queued                \* history: the data pushed and not popped yet

spscVars == <<head, tail, next, data, heap, new_node, prev_tail, out, queued>>

SpscInit ==
    /\ head = [f \in Fifos |-> NULL] /\ tail = [f \in Fifos |-> NULL]
    /\ next = [n \in Nodes |-> NULL] /\ data = [n \in Nodes |-> NULL]
    /\ heap = Nodes
    /\ new_node = [f \in Fifos |-> NULL] /\ prev_tail = [f \in Fifos |-> NULL]
    /\ out = NULL
    /\ queued = [f \in Fifos |-> <<>>]

\* calloc(1, sizeof(*node)): any free node (they are all alike), cleared
Calloc(n) == heap # {} /\ n = CHOOSE m \in heap : TRUE

\* free(n) for each n of S: the contents are lost
Free(S) ==
    /\ heap' = heap \cup S
    /\ next' = [n \in Nodes |-> IF n \in S THEN NULL ELSE next[n]]
    /\ data' = [n \in Nodes |-> IF n \in S THEN NULL ELSE data[n]]

\* spsc_fifo_init, when calloc succeeds
SpscFifoInit(f, n) ==
    /\ Calloc(n)
    /\ heap' = heap \ {n}
    /\ head' = [head EXCEPT ![f] = n] /\ tail' = [tail EXCEPT ![f] = n]
    /\ UNCHANGED <<next, data, new_node, prev_tail, out, queued>>

\* The nodes from `first` on, along `next`: what every set of nodes has that contains
\* `first` and with each node the next one.
ChainFrom(first) ==
    {n \in Nodes :
        \A S \in SUBSET Nodes :
            (first # NULL => first \in S) /\ (\A m \in S : next[m] \in S \cup {NULL}) => n \in S}

\* spsc_fifo_destroy: free every node from head on
SpscDestroy(f) ==
    /\ Free(ChainFrom(head[f]))
    /\ head' = [head EXCEPT ![f] = NULL] /\ tail' = [tail EXCEPT ![f] = NULL]
    /\ queued' = [queued EXCEPT ![f] = <<>>]
    /\ UNCHANGED <<new_node, prev_tail, out>>

\* The producer takes a node and gives it its data; new_node->next = NULL;
\* prev_tail = f->tail; f->tail = new_node
SpscPush(f, n, v) ==
    /\ new_node[f] = NULL /\ Calloc(n)
    /\ heap' = heap \ {n}
    /\ data' = [data EXCEPT ![n] = v] /\ next' = [next EXCEPT ![n] = NULL]
    /\ prev_tail' = [prev_tail EXCEPT ![f] = tail[f]]
    /\ tail' = [tail EXCEPT ![f] = n]
    /\ new_node' = [new_node EXCEPT ![f] = n]
    /\ UNCHANGED <<head, out, queued>>

\* prev_tail->next = new_node
SpscPushLink(f) ==
    /\ new_node[f] # NULL
    /\ next' = [next EXCEPT ![prev_tail[f]] = new_node[f]]
    /\ new_node' = [new_node EXCEPT ![f] = NULL]
    /\ prev_tail' = [prev_tail EXCEPT ![f] = NULL]
    /\ queued' = [queued EXCEPT ![f] = Append(@, data[new_node[f]])]
    /\ UNCHANGED <<head, tail, data, heap, out>>

\* What trypop tests: an item is linked behind the head.
Linked(f) == next[head[f]] # NULL

\* f->head = prev_head_next; prev_head->data = prev_head_next->data; the caller
\* reads the data of prev_head and frees it
SpscTrypop_DataForgotten(f) ==
    /\ Linked(f)
    /\ head' = [head EXCEPT ![f] = next[head[f]]]
    /\ out' = data[head[f]]
    /\ Free({head[f]})
    /\ queued' = [queued EXCEPT ![f] = Tail(@)]
    /\ UNCHANGED <<tail, new_node, prev_tail>>
SpscTrypop(f) ==
    /\ Linked(f)
    /\ head' = [head EXCEPT ![f] = next[head[f]]]
    /\ out' = data[next[head[f]]]
    /\ Free({head[f]})
    /\ queued' = [queued EXCEPT ![f] = Tail(@)]
    /\ UNCHANGED <<tail, new_node, prev_tail>>

SpscTypeOK ==
    /\ head \in [Fifos -> Nodes \cup {NULL}] /\ tail \in [Fifos -> Nodes \cup {NULL}]
    /\ next \in [Nodes -> Nodes \cup {NULL}]
    /\ data \in [Nodes -> Items \cup {NULL}]
    /\ heap \subseteq Nodes
    /\ new_node \in [Fifos -> Nodes \cup {NULL}]
    /\ prev_tail \in [Fifos -> Nodes \cup {NULL}]
    /\ out \in Items \cup {NULL}
    /\ queued \in [Fifos -> Seq(Items)]

=============================================================================
