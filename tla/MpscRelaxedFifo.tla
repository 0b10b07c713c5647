-------------------------- MODULE MpscRelaxedFifo --------------------------
(***************************************************************************)
(* include/fibconcurrent/mpsc_relaxed_fifo.h: one spsc_fifo per producer   *)
(* and one consumer that visits them in turn.  trypop visits every fifo at *)
(* most once, an action per visit, while the producers go on pushing; they *)
(* may push for ever.  The fifo is created (calloc may fail part of the    *)
(* way), used, destroyed by the consumer once no push is under way, and    *)
(* may be created again.                                                   *)
(***************************************************************************)
EXTENDS SpscFifo

CONSTANTS NumProducers,
          CounterModulus   \* counter is a size_t: 2^64, or 2^32 for ARCH_x86

Producers == 0 .. NumProducers - 1

ASSUME ProducersAssumption == NumProducers \in Nat \ {0} /\ Fifos = Producers
\* num_producers is a size_t, too.
ASSUME CounterAssumption == CounterModulus \in Nat /\ NumProducers < CounterModulus

VARIABLES
    pc,       \* the consumer: "none" (no fifo), "create", "idle", "trypop", "destroy"
    i,        \* the loop variable of create, of trypop and of both destroy loops
    made,     \* the number of fifos that exist
    counter,  \* mpscr_fifo_t
    present,  \* history: the fifos that had an item when trypop was called
    passed    \* history: the pops of others while the fifo had an item, since its
              \* own last one (counted up to two rounds)

vars == <<spscVars, pc, i, made, counter, present, passed>>

Init ==
    /\ SpscInit
    /\ pc = "none" /\ i = 0 /\ made = 0 /\ counter = 0
    /\ present = {}
    /\ passed = [p \in Producers |-> 0]

-----------------------------------------------------------------------------
(* mpscr_fifo_create and mpscr_fifo_destroy                                *)

CreateCall ==
    /\ pc = "none"
    /\ pc' = "create" /\ i' = 0 /\ made' = 0 /\ counter' = 0
    /\ UNCHANGED <<spscVars, present, passed>>

\* spsc_fifo_init(&ret->fifos[i])
CreateFifo ==
    /\ pc = "create" /\ i < NumProducers
    /\ \E n \in Nodes : SpscFifoInit(i, n)
    /\ made' = made + 1
    /\ \/ i + 1 < NumProducers /\ i' = i + 1 /\ UNCHANGED pc
       \/ i + 1 = NumProducers /\ i' = 0 /\ pc' = "idle"
    /\ UNCHANGED <<counter, present, passed>>

\* spsc_fifo_init returns 0: destroy the fifos before i, free(ret), return NULL
CreateFails ==
    /\ pc = "create"
    /\ pc' = "destroy" /\ i' = 0
    /\ UNCHANGED <<spscVars, made, counter, present, passed>>

\* mpscr_fifo_destroy, when no producer is in a push
DestroyCall ==
    /\ pc = "idle"
    /\ \A p \in Producers : new_node[p] = NULL
    /\ pc' = "destroy" /\ i' = 0
    /\ UNCHANGED <<spscVars, made, counter, present, passed>>

\* The loop of either, then free
DestroyFifo_OneLess ==
    /\ pc = "destroy"
    /\ \/ /\ i + 1 < made
          /\ SpscDestroy(i)
          /\ i' = i + 1
          /\ passed' = [passed EXCEPT ![i] = 0]
          /\ UNCHANGED <<pc, made, counter>>
       \/ /\ i + 1 >= made
          /\ pc' = "none" /\ i' = 0 /\ made' = 0 /\ counter' = 0
          /\ UNCHANGED <<spscVars, passed>>
    /\ UNCHANGED present
DestroyFifo ==
    /\ pc = "destroy"
    /\ \/ /\ i < made
          /\ SpscDestroy(i)
          /\ i' = i + 1
          /\ passed' = [passed EXCEPT ![i] = 0]
          /\ UNCHANGED <<pc, made, counter>>
       \/ /\ i = made
          /\ pc' = "none" /\ i' = 0 /\ made' = 0 /\ counter' = 0
          /\ UNCHANGED <<spscVars, passed>>
    /\ UNCHANGED present

-----------------------------------------------------------------------------
(* mpscr_fifo_push: spsc_fifo_push on the producer's own fifo              *)

Push(p, n, v) ==
    /\ pc \in {"idle", "trypop"}
    /\ SpscPush(p, n, v)
    /\ UNCHANGED <<pc, i, made, counter, present, passed>>

PushLink(p) ==
    /\ SpscPushLink(p)
    /\ UNCHANGED <<pc, i, made, counter, present, passed>>

-----------------------------------------------------------------------------
(* mpscr_fifo_trypop                                                       *)

TrypopCall ==
    /\ pc = "idle"
    /\ pc' = "trypop" /\ i' = 0 /\ out' = NULL
    /\ present' = {p \in Producers : Linked(p)}
    /\ UNCHANGED <<head, tail, next, data, heap, new_node, prev_tail, queued,
                   made, counter, passed>>

\* index = f->counter % num_producers; ++f->counter
Index_FromStart == i
Index == counter % NumProducers
CountVisit == counter' = (counter + 1) % CounterModulus

TrypopFound ==
    /\ pc = "trypop" /\ i < NumProducers
    /\ SpscTrypop(Index)
    /\ CountVisit
    /\ pc' = "idle" /\ i' = 0 /\ present' = {}
    /\ passed' = [p \in Producers |->
                     IF p = Index THEN 0
                     ELSE IF Linked(p) /\ passed[p] < 2 * NumProducers THEN passed[p] + 1
                     ELSE passed[p]]
    /\ UNCHANGED made

TrypopNothing_NotCounted ==
    /\ pc = "trypop" /\ i < NumProducers
    /\ ~Linked(Index)
    /\ i' = i + 1
    /\ UNCHANGED <<spscVars, pc, made, counter, present, passed>>
TrypopNothing ==
    /\ pc = "trypop" /\ i < NumProducers
    /\ ~Linked(Index)
    /\ CountVisit
    /\ i' = i + 1
    /\ UNCHANGED <<spscVars, pc, made, present, passed>>

TrypopReturnsNull ==
    /\ pc = "trypop" /\ i = NumProducers
    /\ pc' = "idle" /\ i' = 0 /\ present' = {}
    /\ UNCHANGED <<spscVars, made, counter, passed>>

Trypop == TrypopFound \/ TrypopNothing \/ TrypopReturnsNull

-----------------------------------------------------------------------------
Next ==
    \/ CreateCall \/ CreateFifo \/ CreateFails
    \/ TrypopCall \/ Trypop
    \/ DestroyCall \/ DestroyFifo
    \/ \E p \in Producers : PushLink(p) \/ \E n \in Nodes, v \in Items : Push(p, n, v)

Spec == Init /\ [][Next]_vars

\* The consumer keeps calling trypop and finishes its calls.  Nothing is assumed
\* of the producers but that a push that has begun ends.
Fairness ==
    /\ WF_vars(TrypopCall \/ Trypop)
    /\ \A p \in Producers : WF_vars(PushLink(p))

LiveSpec == Spec /\ Fairness

-----------------------------------------------------------------------------
TypeOK ==
    /\ SpscTypeOK
    /\ pc \in {"none", "create", "idle", "trypop", "destroy"}
    /\ i \in 0 .. NumProducers /\ made \in 0 .. NumProducers
    /\ counter \in 0 .. CounterModulus - 1
    /\ present \subseteq Producers
    /\ passed \in [Producers -> 0 .. 2 * NumProducers]

\* Strict FIFO per producer: the node that trypop returns carries the oldest item
\* of its producer that has not been popped, although it is not the node that
\* brought it in.
PopsInOrder ==
    [][\A p \in Producers :
          head[p] # NULL /\ head'[p] \notin {NULL, head[p]} =>
              queued[p] # <<>> /\ out' = Head(queued[p])]_vars

\* Every node is in one fifo, on its way into one, or free; and none is left
\* behind by destroy, or by a create that failed part of the way.
NodesConserved ==
    /\ \A n \in Nodes :
          Cardinality({p \in Producers : n \in ChainFrom(head[p]) \cup {new_node[p]}})
              = (IF n \in heap THEN 0 ELSE 1)
    /\ pc = "none" => heap = Nodes

\* The same, with the cursor and the loop variable in range.
NodesIntact == TypeOK /\ NodesConserved

\* counter has wrapped around in the middle of a round, unless num_producers divides the
\* range of a size_t, and has not come to p since: the cursor jumped back to fifo 0.
Skipped(p) == CounterModulus % NumProducers # 0 /\ counter \in 1 .. p

\* trypop returns NULL only if every fifo was empty when it was called, but for those
\* that the cursor skips in this very call.
EmptyIsHonest ==
    pc = "trypop" /\ i = NumProducers => \A p \in present : Skipped(p)

\* "round-robin pops accross all producers", "best effort": while a producer has an
\* item, no other producers' items are popped before it than one round of them, and
\* those since the cursor skipped it.
OneRound ==
    \A p \in Producers :
        passed[p] < NumProducers + (IF Skipped(p) THEN counter ELSE 0)

\* One trypop is one round: it misses nothing that was there, and rounds are fair; and
\* the jump of the cursor costs nobody more than one turn.
RoundRobin == EmptyIsHonest /\ OneRound

-----------------------------------------------------------------------------
(* The inductive invariant.                                                *)

\* s lists the nodes of fifo p from head to tail.  As many links are made as items are
\* queued, and the items are behind them; a push under way is about to make the last.
IsFifo(p, s) ==
    /\ head[p] = IF s = <<>> THEN NULL ELSE s[1]
    /\ tail[p] = IF s = <<>> THEN NULL ELSE s[Len(s)]
    /\ \A j, k \in 1 .. Len(s) : s[j] = s[k] => j = k
    /\ \A j \in 1 .. Len(s) : next[s[j]] = IF j <= Len(queued[p]) THEN s[j + 1] ELSE NULL
    /\ \A j \in 1 .. Len(queued[p]) : data[s[j + 1]] = queued[p][j]
    /\ \/ s = <<>> /\ queued[p] = <<>> /\ new_node[p] = NULL
       \/ Len(s) = Len(queued[p]) + 1 /\ new_node[p] = NULL
       \/ /\ Len(s) = Len(queued[p]) + 2
          /\ new_node[p] = s[Len(s)] /\ prev_tail[p] = s[Len(s) - 1]
          /\ data[new_node[p]] \in Items

NodesOf(s) == {s[j] : j \in 1 .. Len(s)}

\* Each fifo has its nodes, and the heap the others, cleared.
Partition(fifos) ==
    /\ \A p, q \in Producers : p # q => NodesOf(fifos[p]) \cap NodesOf(fifos[q]) = {}
    /\ \A n \in Nodes : n \in heap <=> \A p \in Producers : n \notin NodesOf(fifos[p])
    /\ \A n \in heap : next[n] = NULL

\* Which fifos there are, while they are made or destroyed one by one.
Exists(p) ==
    \/ pc \in {"idle", "trypop"}
    \/ pc = "create" /\ p < i
    \/ pc = "destroy" /\ i <= p /\ p < made

FifosInv(fifos) ==
    /\ \A p \in Producers : IsFifo(p, fifos[p]) /\ (fifos[p] # <<>> <=> Exists(p))
    /\ Partition(fifos)

\* made and i agree, and nobody pushes before the fifo is created or when it is destroyed.
StagesInv ==
    /\ pc = "create" => made = i /\ i < NumProducers
    /\ pc = "destroy" => i <= made
    /\ pc \in {"idle", "trypop"} => made = NumProducers
    /\ pc \notin {"idle", "trypop"} => \A p \in Producers : new_node[p] = NULL

\* The visits that were made since the last one to p: after p's turn in this lap of the
\* counter, or else after its last turn in the lap before.
Since(p) ==
    IF p < counter THEN (counter - 1 - p) % NumProducers
    ELSE counter + ((CounterModulus - 1 - p) % NumProducers)

\* What was passed over is still there; no visit but found it; and what this trypop has
\* visited was empty.
RoundsInv ==
    /\ \A p \in Producers : passed[p] <= Since(p)
    /\ \A p \in Producers : passed[p] # 0 => Exists(p) /\ queued[p] # <<>>
    /\ pc = "trypop" => \A p \in present : queued[p] # <<>> /\ i <= Since(p)

IInv ==
    /\ TypeOK /\ StagesInv /\ RoundsInv
    /\ \E fifos \in [Producers -> Seq(Nodes)] : FifosInv(fifos)

-----------------------------------------------------------------------------
\* A producer with items is served again and again, even if the others push for
\* ever (unless the fifo is destroyed again and again).
NobodyStarves ==
    \A p \in Producers :
        []<>(pc \in {"idle", "trypop"} /\ Linked(p))
            => []<>(pc = "none") \/ []<><<TrypopFound /\ Index = p>>_vars

=============================================================================
