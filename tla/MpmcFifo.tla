------------------------------ MODULE MpmcFifo ------------------------------
(***************************************************************************)
(* include/fibconcurrent/mpmc_fifo.h over hazard_pointer.h: an unbounded   *)
(* queue of nodes.  A push swings `tail` with a CAS and links the old tail *)
(* to the new node afterwards; a pop swings `head` to head->prev and       *)
(* retires the old head.  Nodes that a scan gives back are pushed again,   *)
(* so a thread with a stale pointer may find the same address in another   *)
(* role; the hazard pointers and the checks that follow them are all that  *)
(* protects it.                                                            *)
(*                                                                         *)
(* One action per access to a word other threads write.  A store to a      *)
(* hazard pointer is not visible before FlushHazard and is part of the     *)
(* action it follows.  node->next is written and never read by the fifo.   *)
(***************************************************************************)
EXTENDS HazardPointer

CONSTANTS Records,     \* the threads, in the order of the list of records
          Items,       \* the values pushed; each is pushed once
          InitialNode  \* the node mpmc_fifo_init is given

\* MPMC_HAZARD_COUNT
ASSUME HazardCountAssumption == K = 2
ASSUME RecordsAssumption ==
    /\ Records \in Seq(Threads)
    /\ {Records[i] : i \in 1 .. Len(Records)} = Threads
    /\ \A i, j \in 1 .. Len(Records) : Records[i] = Records[j] => i = j
ASSUME InitialNodeAssumption == InitialNode \in Nodes

VARIABLES
    head, tail,       \* mpmc_fifo_t
    prev, value,      \* the fields of the nodes
    pc,               \* where each thread is
    node,             \* push: new_node
    old,              \* push: the local `tail`; trypop: the local `head`
    prv,              \* trypop: the local `prev`
    ret,              \* trypop: the local `ret`
    pushed, popped    \* history: the values in the order of the successful CASes

nodeVars == <<head, tail, prev, value>>
locals == <<pc, node, old, prv, ret>>
history == <<pushed, popped>>
vars == <<hazardVars, nodeVars, locals, history>>

Labels == {"idle", "push_tail", "push_check", "push_cas", "push_link",
           "pop_head", "pop_check", "pop_prev", "pop_check2", "pop_value",
           "pop_cas", "scan", "destroy", "destroy_scan"}

Goto(t, label) == pc' = [pc EXCEPT ![t] = label]

\* The call returns: its locals are gone.
ReturnTo(t, label) ==
    /\ Goto(t, label)
    /\ node' = [node EXCEPT ![t] = NULL]
    /\ old' = [old EXCEPT ![t] = NULL]
    /\ prv' = [prv EXCEPT ![t] = NULL]
    /\ ret' = [ret EXCEPT ![t] = NULL]

\* mpmc_fifo_init
Init ==
    /\ HazardInit(Records, {InitialNode})
    /\ head = InitialNode /\ tail = InitialNode
    /\ prev = [n \in Nodes |-> NULL]
    /\ value = [n \in Nodes |-> NULL]
    /\ pc = [t \in Threads |-> "idle"]
    /\ node = [t \in Threads |-> NULL]
    /\ old = [t \in Threads |-> NULL]
    /\ prv = [t \in Threads |-> NULL]
    /\ ret = [t \in Threads |-> NULL]
    /\ pushed = <<>> /\ popped = <<>>

\* Nobody has begun to destroy the fifo.
InService ==
    head # NULL /\ \A u \in Threads : pc[u] \notin {"destroy", "destroy_scan"}

-----------------------------------------------------------------------------
(* mpmc_fifo_push                                                          *)

\* The caller allocates a node and gives it its value; new_node->prev = NULL.
PushCall(t, n, v) ==
    /\ pc[t] = "idle" /\ InService
    /\ n \in free
    /\ \A i \in 1 .. Len(pushed) : pushed[i] # v
    /\ \A u \in Threads : node[u] # NULL => value[node[u]] # v
    /\ free' = free \ {n}
    /\ value' = [value EXCEPT ![n] = v]
    /\ prev' = [prev EXCEPT ![n] = NULL]
    /\ node' = [node EXCEPT ![t] = n]
    /\ Goto(t, "push_tail")
    /\ UNCHANGED <<recordVars, hp, hsb, retired, scanVars, head, tail, old, prv, ret, history>>

\* tail = fifo->tail; hazard_pointer_using(hptr, &tail->hazard, 0)
PushReadTail(t) ==
    /\ pc[t] = "push_tail"
    /\ old' = [old EXCEPT ![t] = tail]
    /\ Announce(t, <<<<0, tail>>>>)
    /\ Goto(t, "push_check")
    /\ UNCHANGED <<recordVars, hp, retired, scanVars, free, nodeVars, node, prv, ret, history>>

\* tail != fifo->tail starts over
PushCheckTail(t) ==
    /\ pc[t] = "push_check"
    /\ BarrierPassed(t)
    /\ Goto(t, IF old[t] = tail THEN "push_cas" ELSE "push_tail")
    /\ UNCHANGED <<hazardVars, nodeVars, node, old, prv, ret, history>>

\* __sync_bool_compare_and_swap(&fifo->tail, tail, new_node), or start over
PushCAS(t) ==
    /\ pc[t] = "push_cas"
    /\ Drained(t)
    /\ \/ /\ tail = old[t]
          /\ tail' = node[t]
          /\ pushed' = Append(pushed, value[node[t]])
          /\ Goto(t, "push_link")
       \/ /\ tail # old[t]
          /\ Goto(t, "push_tail")
          /\ UNCHANGED <<tail, pushed>>
    /\ UNCHANGED <<hazardVars, head, prev, value, node, old, prv, ret, popped>>

\* tail->prev = new_node; hazard_pointer_done_using(hptr, 0)
PushLink_Forgotten(t) ==
    /\ pc[t] = "push_link"
    /\ Announce(t, <<<<0, NULL>>>>)
    /\ ReturnTo(t, "idle")
    /\ UNCHANGED <<recordVars, hp, retired, scanVars, free, nodeVars, history>>
PushLink(t) ==
    /\ pc[t] = "push_link"
    /\ prev' = [prev EXCEPT ![old[t]] = node[t]]
    /\ Announce(t, <<<<0, NULL>>>>)
    /\ ReturnTo(t, "idle")
    /\ UNCHANGED <<recordVars, hp, retired, scanVars, free, head, tail, value, history>>

-----------------------------------------------------------------------------
(* mpmc_fifo_trypop                                                        *)

\* head = fifo->head; hazard_pointer_using(hptr, &head->hazard, 0)
PopReadHead(t) ==
    /\ old' = [old EXCEPT ![t] = head]
    /\ Announce(t, <<<<0, head>>>>)
    /\ Goto(t, "pop_check")
    /\ UNCHANGED <<recordVars, hp, retired, scanVars, free, nodeVars, node, prv, ret, history>>

PopCall(t) == pc[t] = "idle" /\ InService /\ PopReadHead(t)

PopRetry(t) == pc[t] = "pop_head" /\ PopReadHead(t)

\* head != fifo->head starts over
PopCheckHead(t) ==
    /\ pc[t] = "pop_check"
    /\ BarrierPassed(t)
    /\ Goto(t, IF old[t] = head THEN "pop_prev" ELSE "pop_head")
    /\ UNCHANGED <<hazardVars, nodeVars, node, old, prv, ret, history>>

\* prev = head->prev; NULL is empty: hazard_pointer_done_using(hptr, 0) and return;
\* otherwise hazard_pointer_using(hptr, &prev->hazard, 1)
PopReadPrev(t) ==
    /\ pc[t] = "pop_prev"
    /\ \/ /\ prev[old[t]] = NULL
          /\ Announce(t, <<<<0, NULL>>>>)
          /\ ReturnTo(t, "idle")
       \/ /\ prev[old[t]] # NULL
          /\ prv' = [prv EXCEPT ![t] = prev[old[t]]]
          /\ Announce(t, <<<<1, prev[old[t]]>>>>)
          /\ Goto(t, "pop_check2")
          /\ UNCHANGED <<node, old, ret>>
    /\ UNCHANGED <<recordVars, hp, retired, scanVars, free, nodeVars, history>>

\* head != fifo->head starts over
PopCheckAgain_Omitted(t) ==
    /\ pc[t] = "pop_check2"
    /\ BarrierPassed(t)
    /\ Goto(t, "pop_value")
    /\ UNCHANGED <<hazardVars, nodeVars, node, old, prv, ret, history>>
PopCheckAgain(t) ==
    /\ pc[t] = "pop_check2"
    /\ BarrierPassed(t)
    /\ Goto(t, IF old[t] = head THEN "pop_value" ELSE "pop_head")
    /\ UNCHANGED <<hazardVars, nodeVars, node, old, prv, ret, history>>

\* ret = prev->value
PopReadValue_OfHead(t) ==
    /\ pc[t] = "pop_value"
    /\ ret' = [ret EXCEPT ![t] = value[old[t]]]
    /\ Goto(t, "pop_cas")
    /\ UNCHANGED <<hazardVars, nodeVars, node, old, prv, history>>
PopReadValue(t) ==
    /\ pc[t] = "pop_value"
    /\ ret' = [ret EXCEPT ![t] = value[prv[t]]]
    /\ Goto(t, "pop_cas")
    /\ UNCHANGED <<hazardVars, nodeVars, node, old, prv, history>>

\* __sync_bool_compare_and_swap(&fifo->head, head, prev), or start over; then
\* done_using both pointers, hazard_pointer_free(head) and its scan if one is due
PopCAS(t) ==
    /\ pc[t] = "pop_cas"
    /\ Drained(t)
    /\ \/ /\ head = old[t]
          /\ head' = prv[t]
          /\ popped' = Append(popped, ret[t])
          /\ Announce(t, <<<<0, NULL>>, <<1, NULL>>>>)
          /\ RetireNode(t, old[t])
          /\ ReturnTo(t, IF MustScan(t) THEN "scan" ELSE "idle")
       \/ /\ head # old[t]
          /\ Goto(t, "pop_head")
          /\ UNCHANGED <<hsb, retired, head, node, old, prv, ret, popped>>
    /\ UNCHANGED <<recordVars, hp, scanVars, free, tail, prev, value, pushed>>

-----------------------------------------------------------------------------
(* hazard_pointer_scan, called by hazard_pointer_free or by a thread that  *)
(* is out of nodes.                                                        *)

ScanCall(t) ==
    /\ pc[t] = "idle"
    /\ retired[t] # {}
    /\ ScanHead(t)
    /\ Goto(t, "scan")
    /\ UNCHANGED <<nodeVars, node, old, prv, ret, history>>

Scan(t) ==
    /\ pc[t] \in {"scan", "destroy_scan"}
    /\ \/ (ScanHead(t) \/ ScanAlloc(t) \/ ScanRead(t)) /\ UNCHANGED pc
       \/ ScanReclaim(t) /\ Goto(t, IF pc[t] = "scan" THEN "idle" ELSE "destroy")
    /\ UNCHANGED <<nodeVars, node, old, prv, ret, history>>

-----------------------------------------------------------------------------
(* mpmc_fifo_destroy: one thread, when no call is under way and no other   *)
(* follows.                                                                *)

DestroyCall(t) ==
    /\ InService
    /\ \A u \in Threads : pc[u] = "idle"
    /\ Goto(t, "destroy")
    /\ UNCHANGED <<hazardVars, nodeVars, node, old, prv, ret, history>>

\* tmp = fifo->head; fifo->head = tmp->prev; hazard_pointer_free(tmp), until NULL
DestroyNode(t) ==
    /\ pc[t] = "destroy"
    /\ \/ /\ head # NULL
          /\ head' = prev[head]
          /\ RetireNode(t, head)
          /\ Goto(t, IF MustScan(t) THEN "destroy_scan" ELSE "destroy")
       \/ /\ head = NULL
          /\ Goto(t, "idle")
          /\ UNCHANGED <<head, retired>>
    /\ UNCHANGED <<recordVars, hp, hsb, scanVars, free, tail, prev, value,
                   node, old, prv, ret, history>>

-----------------------------------------------------------------------------
Flush(t) == FlushHazard(t) /\ UNCHANGED <<nodeVars, locals, history>>

Runs(t) ==
    \/ PushReadTail(t) \/ PushCheckTail(t) \/ PushCAS(t) \/ PushLink(t)
    \/ PopRetry(t) \/ PopCheckHead(t) \/ PopReadPrev(t)
    \/ PopCheckAgain(t) \/ PopReadValue(t) \/ PopCAS(t)
    \/ Scan(t) \/ DestroyNode(t)

Next ==
    \E t \in Threads :
        \/ \E n \in Nodes, v \in Items : PushCall(t, n, v)
        \/ PopCall(t)
        \/ ScanCall(t)
        \/ DestroyCall(t)
        \/ Runs(t)
        \/ Flush(t)

Spec == Init /\ [][Next]_vars

\* Each thread, with its store buffer, keeps going, and there is always another
\* call of trypop, whatever else is called in between (hence strong fairness).
Fairness ==
    /\ \A t \in Threads : WF_vars(Runs(t) \/ Flush(t))
    /\ SF_vars(\E t \in Threads : PopCall(t))

LiveSpec == Spec /\ Fairness

-----------------------------------------------------------------------------
TypeOK ==
    /\ HazardTypeOK
    /\ head \in Nodes \cup {NULL} /\ tail \in Nodes
    /\ prev \in [Nodes -> Nodes \cup {NULL}]
    /\ value \in [Nodes -> Items \cup {NULL}]
    /\ pc \in [Threads -> Labels]
    /\ node \in [Threads -> Nodes \cup {NULL}]
    /\ old \in [Threads -> Nodes \cup {NULL}]
    /\ prv \in [Threads -> Nodes \cup {NULL}]
    /\ \A t \in Threads :
          pc[t] \in {"pop_check2", "pop_value", "pop_cas"} => prv[t] \in Nodes
    /\ ret \in [Threads -> Items \cup {NULL}]
    /\ pushed \in Seq(Items) /\ popped \in Seq(Items)

\* The nodes a thread may dereference or compare from where it is: those it has
\* announced and then found still in place.
Relied(t) ==
    CASE pc[t] \in {"push_cas", "push_link"} -> {old[t]}
      [] pc[t] = "pop_prev" -> {old[t]}
      [] pc[t] = "pop_check2" -> {old[t]}
      [] pc[t] \in {"pop_value", "pop_cas"} -> {old[t], prv[t]}
      [] OTHER -> {}

\* What hazard pointers are for: a scan never gives back a node that a thread has
\* announced and checked, so no thread reads or writes freed memory, and no CAS
\* succeeds because the same address came back in another role.
NoUseAfterFree == \A t \in Threads : Relied(t) \cap free = {}

\* The n-th successful pop returns the value of the n-th successful push.
FifoOrder ==
    /\ Len(popped) <= Len(pushed)
    /\ \A i \in 1 .. Len(popped) : popped[i] = pushed[i]

\* No node is lost: each is with the callers, on its way in, in the fifo from
\* head towards tail, or waiting in exactly one thread's retired list; and
\* mpmc_fifo_destroy leaves none behind.
InFifo ==
    {n \in Nodes \ free : /\ \A t \in Threads : n \notin retired[t]
                          /\ \A t \in Threads : pc[t] # "push_link" => node[t] # n}
NodesConserved ==
    /\ InService => Cardinality(InFifo) = Len(pushed) - Len(popped) + 1
    /\ head = NULL => InFifo = {}
    /\ \A t, u \in Threads : t # u => retired[t] \cap retired[u] = {}
    /\ \A t \in Threads : retired[t] \cap free = {}

\* Every node is where the types of the fields say and accounted for: nothing leaks
\* through a scan, a retry or the destruction of the fifo.
NodesIntact == TypeOK /\ NodesConserved

\* The poppers catch up with the pushers, whatever the CASes lost and the nodes
\* recycled on the way, unless the fifo is destroyed before.
AllPopped ==
    Len(popped) < Len(pushed) ~> (head = NULL \/ Len(popped) = Len(pushed))

=============================================================================
