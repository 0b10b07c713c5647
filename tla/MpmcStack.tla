----------------------------- MODULE MpmcStack -----------------------------
(***************************************************************************)
(* include/fibconcurrent/mpmc_stack.h: threads push nodes with a CAS on    *)
(* `head`, and take all of them at once (flush).  head carries no counter: *)
(* a node may be flushed and pushed again between a push's read of head    *)
(* and its CAS.  The timeouts count attempts down in a size_t.             *)
(*                                                                         *)
(* One action per access to `head`.  `next` of a node that is being pushed *)
(* or that has been flushed is its thread's own.  The flush is that of the *)
(* architectures with FIBER_XCHG_POINTER, the ones the library builds for. *)
(***************************************************************************)
EXTENDS Integers, Sequences, FiniteSets

CONSTANTS Threads,
          Nodes,         \* mpmc_stack_node_t objects
          NULL,
          TriesModulus,  \* tries is a size_t: 2^64, or 2^32 for ARCH_x86
          MaxTries       \* the largest value of tries the callers pass

ASSUME NullAssumption == NULL \notin Nodes
ASSUME TriesAssumption ==
    MaxTries \in Nat /\ TriesModulus \in Nat /\ MaxTries < TriesModulus

VARIABLES
    head, next,  \* mpmc_stack_t and the field of the nodes
    pc,          \* where each thread is
    n,           \* push: the node
    old,         \* push: the local `head`; reverse: the parameter `head`
    given,       \* the `tries` of the call; NULL for a push without a timeout
    tries,       \* what is left of it
    out,         \* flush: the list to be returned; reverse: the local `fifo`
    owned,       \* nodes that belong to the callers
    attempts,    \* history: the failed CASes of a push_timeout (up to TriesModulus)
    stack,       \* history: the nodes pushed and not flushed, the newest first
    detached     \* history: what a flush took off the stack

stackVars == <<head, next>>
locals == <<pc, n, old, given, tries, out>>
history == <<attempts, stack, detached>>
vars == <<stackVars, locals, owned, history>>

Goto(t, label) == pc' = [pc EXCEPT ![t] = label]

\* mpmc_stack_init
Init ==
    /\ head = NULL /\ next = [x \in Nodes |-> NULL]
    /\ pc = [t \in Threads |-> "idle"]
    /\ n = [t \in Threads |-> NULL]
    /\ old = [t \in Threads |-> NULL]
    /\ given = [t \in Threads |-> NULL]
    /\ tries = [t \in Threads |-> 0]
    /\ out = [t \in Threads |-> NULL]
    /\ owned = Nodes
    /\ attempts = [t \in Threads |-> 0]
    /\ stack = <<>>
    /\ detached = [t \in Threads |-> <<>>]

-----------------------------------------------------------------------------
(* mpmc_stack_push (g = NULL) and mpmc_stack_push_timeout (g tries)        *)

\* The caller has initialised the node, mpmc_stack_node_init.
PushCall(t, x, g) ==
    /\ pc[t] = "idle" /\ x \in owned
    /\ owned' = owned \ {x}
    /\ n' = [n EXCEPT ![t] = x]
    /\ given' = [given EXCEPT ![t] = g]
    /\ tries' = [tries EXCEPT ![t] = IF g = NULL THEN 0 ELSE g]
    /\ Goto(t, "push_head")
    /\ UNCHANGED <<stackVars, old, out, history>>

\* head = q->head; n->next = head
PushHead_LinkedOnce(t) ==
    /\ pc[t] = "push_head"
    /\ old' = [old EXCEPT ![t] = head]
    /\ next' = [next EXCEPT ![n[t]] = IF @ = NULL THEN head ELSE @]
    /\ Goto(t, "push_cas")
    /\ UNCHANGED <<head, n, given, tries, out, owned, history>>
PushHead(t) ==
    /\ pc[t] = "push_head"
    /\ old' = [old EXCEPT ![t] = head]
    /\ next' = [next EXCEPT ![n[t]] = head]
    /\ Goto(t, "push_cas")
    /\ UNCHANGED <<head, n, given, tries, out, owned, history>>

\* The push returns; `back` is {n} when it gave up.
PushReturns(t, back) ==
    /\ Goto(t, "idle")
    /\ n' = [n EXCEPT ![t] = NULL]
    /\ old' = [old EXCEPT ![t] = NULL]
    /\ given' = [given EXCEPT ![t] = NULL]
    /\ tries' = [tries EXCEPT ![t] = 0]
    /\ attempts' = [attempts EXCEPT ![t] = 0]
    /\ owned' = owned \cup back

PushSucceeds(t) ==
    /\ pc[t] = "push_cas" /\ head = old[t]
    /\ head' = n[t]
    /\ stack' = <<n[t]>> \o stack
    /\ PushReturns(t, {})
    /\ UNCHANGED <<next, out, detached>>

\* tries -= 1, which wraps around
Left_Kept(t) == tries[t]
Left(t) == (tries[t] - 1) % TriesModulus

\* while(tries > 0)
GivesUp_AfterTest(t) == given[t] # NULL /\ tries[t] = 0
GivesUp(t) == given[t] # NULL /\ Left(t) = 0

PushFails(t) ==
    /\ pc[t] = "push_cas" /\ head # old[t]
    /\ \/ GivesUp(t) /\ PushReturns(t, {n[t]})
       \/ /\ ~GivesUp(t)
          /\ Goto(t, "push_head")
          /\ tries' = [tries EXCEPT ![t] = IF given[t] = NULL THEN @ ELSE Left(t)]
          /\ attempts' = [attempts EXCEPT ![t] = IF given[t] # NULL /\ @ < TriesModulus THEN @ + 1 ELSE @]
          /\ UNCHANGED <<n, old, given, owned>>
    /\ UNCHANGED <<stackVars, out, stack, detached>>

-----------------------------------------------------------------------------
(* mpmc_stack_lifo_flush and mpmc_stack_fifo_flush; their _timeout forms   *)
(* do the same if tries > 0, and nothing otherwise                         *)

\* atomic_exchange_pointer(&q->head, NULL), then mpmc_stack_reverse if `order`
\* is "fifo"
Flush(t, order) ==
    /\ pc[t] = "idle"
    /\ head' = NULL
    /\ stack' = <<>>
    /\ detached' = [detached EXCEPT ![t] = stack]
    /\ \/ /\ order = "lifo"
          /\ out' = [out EXCEPT ![t] = head]
          /\ Goto(t, "lifo")
          /\ UNCHANGED old
       \/ /\ order = "fifo"
          /\ out' = [out EXCEPT ![t] = NULL]
          /\ old' = [old EXCEPT ![t] = head]
          /\ Goto(t, "reverse")
    /\ UNCHANGED <<next, n, given, tries, owned, attempts>>

\* next = head->next; head->next = fifo; fifo = head; head = next
Reverse(t) ==
    /\ pc[t] = "reverse"
    /\ \/ /\ old[t] # NULL
          /\ next' = [next EXCEPT ![old[t]] = out[t]]
          /\ out' = [out EXCEPT ![t] = old[t]]
          /\ old' = [old EXCEPT ![t] = next[old[t]]]
          /\ UNCHANGED pc
       \/ /\ old[t] = NULL
          /\ Goto(t, "fifo")
          /\ UNCHANGED <<next, out, old>>
    /\ UNCHANGED <<head, n, given, tries, owned, history>>

\* The caller has walked the list it got and may use its nodes again.
FlushReturned(t) ==
    /\ pc[t] \in {"lifo", "fifo"}
    /\ owned' = owned \cup {detached[t][i] : i \in 1 .. Len(detached[t])}
    /\ out' = [out EXCEPT ![t] = NULL]
    /\ detached' = [detached EXCEPT ![t] = <<>>]
    /\ Goto(t, "idle")
    /\ UNCHANGED <<stackVars, n, old, given, tries, attempts, stack>>

-----------------------------------------------------------------------------
Runs(t) ==
    PushHead(t) \/ PushSucceeds(t) \/ PushFails(t) \/ Reverse(t) \/ FlushReturned(t)

Next ==
    \E t \in Threads :
        \/ \E x \in Nodes, g \in (0 .. MaxTries) \cup {NULL} : PushCall(t, x, g)
        \/ \E order \in {"lifo", "fifo"} : Flush(t, order)
        \/ Runs(t)

Spec == Init /\ [][Next]_vars

\* Every thread finishes the call it is in.  Nobody has to call anything, and
\* others may push and flush for ever.
Fairness == \A t \in Threads : WF_vars(Runs(t))

LiveSpec == Spec /\ Fairness

-----------------------------------------------------------------------------
TypeOK ==
    /\ head \in Nodes \cup {NULL}
    /\ next \in [Nodes -> Nodes \cup {NULL}]
    /\ pc \in [Threads -> {"idle", "push_head", "push_cas", "reverse", "lifo", "fifo"}]
    /\ n \in [Threads -> Nodes \cup {NULL}]
    /\ old \in [Threads -> Nodes \cup {NULL}]
    /\ given \in [Threads -> (0 .. MaxTries) \cup {NULL}]
    /\ tries \in [Threads -> 0 .. TriesModulus - 1]
    /\ out \in [Threads -> Nodes \cup {NULL}]
    /\ owned \subseteq Nodes
    /\ attempts \in [Threads -> 0 .. TriesModulus]
    /\ stack \in Seq(Nodes) /\ detached \in [Threads -> Seq(Nodes)]

\* The i-th node of the sequence s, and NULL beyond its ends.
At(s, i) == IF i \in 1 .. Len(s) THEN s[i] ELSE NULL

\* The list at `first` is the sequence s, and ends there.
IsList(first, s) ==
    /\ first = At(s, 1)
    /\ \A i \in 1 .. Len(s) : next[s[i]] = At(s, i + 1)

Reversed(s) == [i \in 1 .. Len(s) |-> s[Len(s) - i + 1]]

\* The list at head holds every node that was pushed and not flushed, the newest
\* first: a CAS that succeeds although its head was flushed and pushed again has
\* linked its node to the right one all the same.
ListIntact == IsList(head, stack)

\* A flush returns every node it took off the stack: lifo_flush the newest first,
\* fifo_flush the oldest first.
FlushOrder ==
    \A t \in Threads :
        /\ pc[t] = "lifo" => IsList(out[t], detached[t])
        /\ pc[t] = "fifo" => IsList(out[t], Reversed(detached[t]))

\* Both lists a caller or the stack can reach are what was pushed, in order.
ListsIntact == TypeOK /\ ListIntact /\ FlushOrder

\* push_timeout makes at most `tries` attempts; none at all is not possible, and
\* 0 stands for as many as the type can count.
TriesHonoured ==
    \A t \in Threads :
        pc[t] = "push_cas" /\ given[t] # NULL =>
            attempts[t] + 1 <= IF given[t] = 0 THEN TriesModulus ELSE given[t]

\* push_timeout returns however the others keep changing the head.
PushTimeoutReturns ==
    \A t \in Threads : given[t] # NULL ~> given[t] = NULL

=============================================================================
